------------------------------ MODULE BuddyProofs ------------------------------
(***************************************************************************)
(* The safety of the buddy allocator, for every memory size and every      *)
(* sequence of calls, and of the simulator that calls it, for every number *)
(* of variables and every input.  First what the proofs keep needing: what *)
(* the operations of list.h do to the entries of a list, where BUDDY_ADDR  *)
(* leads, and what a split and a merge do to a division of the memory into *)
(* aligned blocks.                                                         *)
(***************************************************************************)
EXTENDS BuddySimulator, SequenceTheorems, FiniteSetTheorems, TLAPS

(* The free lists *)

\* The entries of a list of S are in S.
LEMMA MembersType ==
  ASSUME NEW S, NEW s \in Seq(S)
  PROVE  Members(s) \subseteq S
  BY ElementOfSeq DEF Members

\* list_empty is true of exactly the lists with no entry, and the first entry
\* of any other list is one of its entries.
LEMMA HeadIsMember ==
  ASSUME NEW S, NEW s \in Seq(S), ~list_empty(s)
  PROVE  Head(s) \in Members(s)
<1>1. Len(s) \in Nat \ {0}
  BY EmptySeq DEF list_empty
<1> QED BY <1>1 DEF Members

\* list_add makes the entry a member, keeps the others, and links no entry
\* twice.
LEMMA ListAdd ==
  ASSUME NEW S, NEW s \in Seq(S), NEW e \in S
  PROVE  /\ list_add(e, s) \in Seq(S)
         /\ Members(list_add(e, s)) = Members(s) \cup {e}
         /\ NoDup(s) /\ e \notin Members(s) => NoDup(list_add(e, s))
<1> DEFINE t == list_add(e, s)
<1>1. t \in Seq(S) /\ Len(s) \in Nat /\ Len(t) = Len(s) + 1
  BY DEF list_add
<1>2. t[1] = e
  BY DEF list_add
<1>3. \A i \in 1..Len(s) : t[i + 1] = s[i]
  BY DEF list_add
<1>4. \A i \in 2..Len(t) : i - 1 \in 1..Len(s) /\ t[i] = s[i - 1]
  BY <1>1, <1>3
<1> HIDE DEF t
<1>5. Members(t) = Members(s) \cup {e}
  <2>1. Members(t) \subseteq Members(s) \cup {e}
    BY <1>1, <1>2, <1>4 DEF Members
  <2>2. Members(s) \subseteq Members(t)
    <3>1. SUFFICES ASSUME NEW i \in 1..Len(s) PROVE s[i] \in Members(t)
      BY DEF Members
    <3>2. i + 1 \in 1..Len(t)
      BY <1>1
    <3> QED BY <3>2, <1>3 DEF Members
  <2>3. e \in Members(t)
    BY <1>1, <1>2 DEF Members
  <2> QED BY <2>1, <2>2, <2>3
<1>6. ASSUME NoDup(s), e \notin Members(s) PROVE NoDup(t)
  <2>1. SUFFICES ASSUME NEW i \in 1..Len(t), NEW j \in 1..Len(t), t[i] = t[j]
                 PROVE  i = j
    BY DEF NoDup
  <2>2. CASE i = 1 /\ j # 1
    BY <2>1, <2>2, <1>1, <1>2, <1>4, <1>6 DEF Members
  <2>3. CASE i # 1 /\ j = 1
    BY <2>1, <2>3, <1>1, <1>2, <1>4, <1>6 DEF Members
  <2>4. CASE i # 1 /\ j # 1
    BY <2>1, <2>4, <1>1, <1>4, <1>6 DEF NoDup
  <2> QED BY <2>2, <2>3, <2>4
<1> QED BY <1>1, <1>5, <1>6 DEF t

\* list_del_init removes that entry and no other.
LEMMA ListDel ==
  ASSUME NEW S, NEW s \in Seq(S), NEW e, NoDup(s)
  PROVE  /\ list_del_init(e, s) \in Seq(S)
         /\ Members(list_del_init(e, s)) = Members(s) \ {e}
         /\ NoDup(list_del_init(e, s))
<1>1. CASE e \notin Members(s)
  BY <1>1 DEF list_del_init
<1>2. CASE e \in Members(s)
  <2> DEFINE n == Len(s)
             i == CHOOSE k \in 1..Len(s) : s[k] = e
             t == [j \in 1..(n - 1) |-> IF j < i THEN s[j] ELSE s[j + 1]]
  <2>1. list_del_init(e, s) = t
    BY <1>2 DEF list_del_init
  <2>2. n \in Nat /\ i \in 1..n /\ s[i] = e
    BY <1>2 DEF Members
  <2>3. \A k \in 1..n : s[k] \in S
    BY ElementOfSeq
  <2> HIDE DEF n, i
  <2>4. n - 1 \in Nat
    BY <2>2
  <2>5. \A j \in 1..(n - 1) : t[j] \in S
    BY <2>2, <2>3
  <2>6. t \in Seq(S) /\ Len(t) = n - 1
    <3>1. t \in [1..(n - 1) -> S]
      BY <2>5
    <3> QED BY <3>1, <2>4, SeqDef
  <2>7. \A j \in 1..(n - 1) : t[j] = IF j < i THEN s[j] ELSE s[j + 1]
    OBVIOUS
  <2> HIDE DEF t
  <2>8. \A k \in 1..n : s[k] = e => k = i
    BY <2>2 DEF NoDup, n
  <2>9. Members(t) = Members(s) \ {e}
    <3>1. ASSUME NEW j \in 1..(n - 1) PROVE t[j] \in Members(s) \ {e}
      <4>1. CASE j < i
        BY <4>1, <2>2, <2>7, <2>8 DEF Members, n
      <4>2. CASE ~(j < i)
        <5>1. t[j] = s[j + 1] /\ j + 1 \in 1..n /\ j + 1 # i
          BY <4>2, <2>2, <2>7
        <5> QED BY <5>1, <2>8 DEF Members, n
      <4> QED BY <4>1, <4>2
    <3>2. ASSUME NEW k \in 1..n, s[k] # e PROVE s[k] \in Members(t)
      <4>1. CASE k < i
        <5>1. k \in 1..(n - 1) /\ t[k] = s[k]
          BY <4>1, <2>2, <2>7
        <5> QED BY <5>1, <2>6 DEF Members
      <4>2. CASE k > i
        <5>1. k - 1 \in 1..(n - 1) /\ t[k - 1] = s[k]
          BY <4>2, <2>2, <2>7
        <5> QED BY <5>1, <2>6 DEF Members
      <4>3. k # i
        BY <3>2, <2>2
      <4> QED BY <4>1, <4>2, <4>3, <2>2
    <3>3. Members(t) = {t[j] : j \in 1..(n - 1)}
      BY <2>6 DEF Members
    <3>4. Members(s) = {s[k] : k \in 1..n}
      BY DEF Members, n
    <3> QED BY <3>1, <3>2, <3>3, <3>4
  <2>10. NoDup(t)
    <3>1. SUFFICES ASSUME NEW j \in 1..(n - 1), NEW k \in 1..(n - 1), t[j] = t[k]
                   PROVE  j = k
      BY <2>6 DEF NoDup
    <3>2. \A a, b \in 1..n : s[a] = s[b] => a = b
      BY DEF NoDup, n
    <3> QED BY <3>1, <3>2, <2>2, <2>7
  <2> QED BY <2>1, <2>6, <2>9, <2>10
<1> QED BY <1>1, <1>2

-----------------------------------------------------------------------------
(* Blocks and orders *)

\* Multiplication by a natural number preserves the order.
LEMMA TimesMonotonic ==
  ASSUME NEW j \in Int, NEW k \in Int, NEW D \in Nat, j <= k
  PROVE  j * D <= k * D
  OBVIOUS

\* A run of D consecutive integers has one multiple of D: two block starts less
\* than a block apart are one.
LEMMA MultipleUnique ==
  ASSUME NEW j \in Int, NEW k \in Int, NEW D \in Nat \ {0},
         j * D <= k * D, k * D < j * D + D
  PROVE  j = k
<1>1. CASE k >= j + 1
  <2>1. (j + 1) * D <= k * D
    BY <1>1, TimesMonotonic
  <2>2. (j + 1) * D = j * D + D
    OBVIOUS
  <2> QED BY <2>1, <2>2
<1>2. CASE k <= j - 1
  <2>1. k * D <= (j - 1) * D
    BY <1>2, TimesMonotonic
  <2>2. (j - 1) * D = j * D - D
    OBVIOUS
  <2> QED BY <2>1, <2>2
<1> QED BY <1>1, <1>2

\* Division with remainder.
LEMMA DivMod ==
  ASSUME NEW a \in Nat, NEW D \in Nat \ {0}
  PROVE  /\ a \div D \in Nat
         /\ a % D \in 0..(D - 1)
         /\ a = (a \div D) * D + (a % D)
  OBVIOUS

\* A multiple divides without remainder.
LEMMA DivMultiple ==
  ASSUME NEW k \in Nat, NEW D \in Nat \ {0}
  PROVE  /\ (k * D) \div D = k
         /\ (k * D) % D = 0
<1> DEFINE q == (k * D) \div D
           r == (k * D) % D
<1>1. k * D \in Nat OBVIOUS
<1>2. q \in Nat /\ r \in 0..(D - 1) /\ k * D = q * D + r
  BY <1>1, DivMod
<1>3. q = k
  BY <1>2, MultipleUnique
<1> QED BY <1>2, <1>3

\* A block has at least one page.
LEMMA PageCountType ==
  ASSUME NEW o \in Orders
  PROVE  PageCount(o) \in Nat \ {0}
  BY OrdersAssumption, PowerOfTwoAssumption DEF PageCount, Orders

\* A block is a whole number of blocks of any smaller order.
LEMMA PageCountDivides ==
  ASSUME NEW o \in Orders, NEW p \in Orders, o <= p
  PROVE  \E k \in Nat \ {0} : PageCount(p) = k * PageCount(o)
<1> DEFINE m == o - MIN_ORDER
           n == p - MIN_ORDER
<1>1. m \in 0..MAX_ORDER /\ n \in 0..MAX_ORDER /\ m <= n
  BY OrdersAssumption DEF Orders
<1>2. 2^n = 2^m * 2^(n - m)
  BY <1>1, PowerOfTwoAssumption
<1>3. n - m \in 0..MAX_ORDER
  BY <1>1, OrdersAssumption
<1>4. 2^(n-m) \in Nat \ {0} /\ 2^m \in Nat \ {0}
  BY <1>1, <1>3, PowerOfTwoAssumption
<1>5. 2^n = 2^(n-m) * 2^m
  BY <1>2, <1>4
<1> QED BY <1>4, <1>5 DEF PageCount

\* A block is two blocks of the order below: what the split of buddy_alloc and
\* the merge of buddy_free rely on.
LEMMA PageCountDoubles ==
  ASSUME NEW o \in Orders, o < MAX_ORDER
  PROVE  PageCount(o + 1) = 2 * PageCount(o)
<1> DEFINE m == o - MIN_ORDER
           n == (o + 1) - MIN_ORDER
<1>1. m \in 0..MAX_ORDER /\ n \in 0..MAX_ORDER /\ m <= n
      /\ n - m = 1
  BY OrdersAssumption DEF Orders
<1>2. 2^n = 2^m * 2^(n - m)
  BY <1>1, PowerOfTwoAssumption
<1>3. 2^n = 2^m * 2
  BY <1>1, <1>2, PowerOfTwoAssumption
<1>4. 2^m \in Nat
  BY <1>1, PowerOfTwoAssumption
<1> QED BY <1>3, <1>4 DEF PageCount

\* BUDDY_ADDR: the buddy of an aligned page is inside g_pages and aligned, its
\* buddy is the page again, and the lower of the two starts an aligned block of
\* the next order, of which they are the halves.
LEMMA BuddyFacts ==
  ASSUME NEW o \in Orders, o < MAX_ORDER,
         NEW p \in Pages, p % PageCount(o) = 0,
         NEW b, b = BuddyOf(p, o),
         NEW low, low = IF b < p THEN b ELSE p
  PROVE  /\ b \in Pages
         /\ b % PageCount(o) = 0
         /\ BuddyOf(b, o) = p
         /\ low \in Pages
         /\ low % PageCount(o) = 0
         /\ low % PageCount(o + 1) = 0
         /\ \/ low = p /\ b = p + PageCount(o)
            \/ low = b /\ p = b + PageCount(o)
<1> DEFINE D == PageCount(o)
           k == p \div D
           N == PageCount(MAX_ORDER)
<1>1. D \in Nat \ {0} /\ N \in Nat \ {0}
  BY PageCountType, OrdersAssumption DEF Orders
<1>2. o + 1 \in Orders /\ MAX_ORDER \in Orders
  BY OrdersAssumption DEF Orders
<1>3. PageCount(o + 1) = 2 * D
  BY PageCountDoubles
<1>4. PICK m \in Nat \ {0} : N = m * PageCount(o + 1)
  BY <1>2, PageCountDivides, OrdersAssumption DEF Orders
<1>5. p \in Nat /\ p < N
  BY <1>1 DEF Pages
<1>6. k \in Nat /\ p = k * D
  <2>1. p % D = 0
    OBVIOUS
  <2>2. k \in Nat /\ p = k * D + (p % D)
    BY <1>1, <1>5, DivMod
  <2> HIDE DEF D, k
  <2> QED BY <2>1, <2>2, <1>1
<1> HIDE DEF D, k, N
<1>7. CASE k % 2 = 0
  <2>1. PICK j \in Nat : k = 2 * j
    BY <1>6, <1>7
  <2>2. b = p + D
    BY <1>7 DEF BuddyOf, k, D
  <2>3. b = (k + 1) * D
    BY <2>2, <1>6, <1>1
  <2>4. b \div D = k + 1 /\ b % D = 0
    BY <2>3, <1>1, <1>6, DivMultiple
  <2>5. (k + 1) % 2 # 0
    BY <2>1
  <2>6. BuddyOf(b, o) = p
    BY <2>2, <2>4, <2>5, <1>1, <1>5 DEF BuddyOf, D
  <2>7. low = p
    BY <2>2, <1>1, <1>5
  <2>8. p = j * (2 * D)
    BY <2>1, <1>6, <1>1
  <2>9. p % PageCount(o + 1) = 0
    BY <2>8, <1>3, <1>1, DivMultiple
  <2>10. b \in Pages
    <3>1. j < m
      <4>1. SUFFICES ASSUME m <= j PROVE FALSE
        BY <1>4, <2>1
      <4>2. m * (2 * D) <= j * (2 * D)
        BY <4>1, <1>1, TimesMonotonic
      <4> QED BY <4>2, <2>8, <1>3, <1>4, <1>5, <1>1
    <3>2. (j + 1) * (2 * D) <= m * (2 * D)
      BY <3>1, <1>1, TimesMonotonic
    <3>3. (j + 1) * (2 * D) = p + 2 * D
      BY <2>8, <1>1
    <3>4. b < N
      BY <3>2, <3>3, <2>2, <1>1, <1>3, <1>4, <1>5
    <3> QED BY <3>4, <2>2, <1>1, <1>5 DEF Pages, N
  <2> QED BY <2>2, <2>4, <2>6, <2>7, <2>9, <2>10 DEF D
<1>8. CASE k % 2 # 0
  <2>1. PICK j \in Nat : k = 2 * j + 1
    BY <1>6, <1>8
  <2>2. b = p - D
    BY <1>8 DEF BuddyOf, k, D
  <2>3. b = (2 * j) * D
    BY <2>1, <2>2, <1>6, <1>1
  <2>4. b \div D = 2 * j /\ b % D = 0
    BY <2>3, <1>1, DivMultiple
  <2>5. b \in Nat
    BY <2>3, <1>1
  <2>6. BuddyOf(b, o) = p
    BY <2>2, <2>4, <1>1, <1>5 DEF BuddyOf, D
  <2>7. low = b
    BY <2>2, <1>1, <1>5
  <2>8. b = j * (2 * D)
    BY <2>3, <1>1
  <2>9. b % PageCount(o + 1) = 0
    BY <2>8, <1>3, <1>1, DivMultiple
  <2>10. b \in Pages
    BY <2>2, <2>5, <1>1, <1>5 DEF Pages, N
  <2> QED BY <2>2, <2>4, <2>6, <2>7, <2>9, <2>10, <1>1, <1>5 DEF D
<1> QED BY <1>7, <1>8

-----------------------------------------------------------------------------
(* Aligned blocks that divide the memory *)

\* An aligned page index is a multiple of the size of its block.
LEMMA MultipleOfPageCount ==
  ASSUME NEW p \in Nat, NEW o \in Orders, p % PageCount(o) = 0
  PROVE  \E k \in Nat : p = k * PageCount(o)
<1> DEFINE D == PageCount(o)
<1>1. D \in Nat \ {0}
  BY PageCountType
<1>2. p % D = 0
  OBVIOUS
<1>3. p \div D \in Nat /\ p = (p \div D) * D + (p % D)
  BY <1>1, DivMod
<1> HIDE DEF D
<1>4. p \div D \in Nat /\ p = (p \div D) * D
  BY <1>1, <1>2, <1>3
<1> QED BY <1>4 DEF D

\* A page that starts an aligned run of order o, and lies in an aligned block
\* of an order not above o, is the first page of that block.
LEMMA AlignedInSmaller ==
  ASSUME NEW o \in Orders, NEW q \in Orders, q <= o,
         NEW b \in Nat, b % PageCount(o) = 0,
         NEW c \in Nat, c % PageCount(q) = 0,
         b \in Extent(c, q)
  PROVE  c = b
<1> DEFINE D == PageCount(q)
<1>1. D \in Nat \ {0} /\ PageCount(o) \in Nat \ {0}
  BY PageCountType
<1>2. PICK k \in Nat : b = k * PageCount(o)
  BY MultipleOfPageCount
<1>3. PICK m \in Nat \ {0} : PageCount(o) = m * D
  BY PageCountDivides
<1>4. PICK j \in Nat : c = j * D
  BY MultipleOfPageCount
<1>5. c <= b /\ b < c + D
  BY <1>1 DEF Extent
<1> HIDE DEF D
<1>6. b = (k * m) * D
  BY <1>1, <1>2, <1>3
<1>7. k * m \in Nat
  OBVIOUS
<1>8. j = k * m
  BY <1>1, <1>4, <1>5, <1>6, <1>7, MultipleUnique
<1> QED BY <1>4, <1>6, <1>8

\* A block of a higher order that reaches into the buddy of a block of order o
\* holds the block too.
LEMMA BuddyInLarger ==
  ASSUME NEW o \in Orders, NEW q \in Orders, o < q,
         NEW p \in Pages, p % PageCount(o) = 0,
         NEW c \in Nat, c % PageCount(q) = 0,
         BuddyOf(p, o) \in Extent(c, q)
  PROVE  p \in Extent(c, q)
<1> DEFINE b == BuddyOf(p, o)
           low == IF b < p THEN b ELSE p
           D == PageCount(o + 1)
<1>1. o < MAX_ORDER /\ o + 1 \in Orders /\ o + 1 <= q
  BY OrdersAssumption DEF Orders
<1>2. D \in Nat \ {0} /\ PageCount(q) \in Nat \ {0} /\ PageCount(o) \in Nat \ {0}
  BY <1>1, PageCountType
<1>3. D = 2 * PageCount(o)
  BY <1>1, PageCountDoubles
<1>4. /\ b \in Pages /\ low \in Pages /\ low % D = 0
      /\ \/ low = p /\ b = p + PageCount(o)
         \/ low = b /\ p = b + PageCount(o)
  BY <1>1, BuddyFacts
<1>5. b \in Nat /\ p \in Nat /\ low \in Nat
  BY <1>4 DEF Pages
<1>6. PICK k \in Nat : low = k * D
  BY <1>1, <1>4, <1>5, MultipleOfPageCount
<1>7. PICK m \in Nat \ {0} : PageCount(q) = m * D
  BY <1>1, PageCountDivides
<1>8. PICK j \in Nat : c = j * PageCount(q)
  BY MultipleOfPageCount
<1>9. c = (j * m) * D /\ c + PageCount(q) = (j * m + m) * D
  BY <1>2, <1>7, <1>8
<1>10. c <= b /\ b < c + PageCount(q)
  BY <1>2 DEF Extent
<1>11. low <= b /\ b < low + D /\ low <= p /\ p < low + D
  BY <1>2, <1>3, <1>4, <1>5
<1> HIDE DEF b, low, D
<1>12. low + D = (k + 1) * D
  BY <1>2, <1>6
<1>13. j * m <= k
  <2>1. SUFFICES ASSUME k + 1 <= j * m PROVE FALSE
    OBVIOUS
  <2>2. (k + 1) * D <= (j * m) * D
    BY <1>2, <2>1, TimesMonotonic
  <2>3. low + D <= c
    BY <2>2, <1>9, <1>12
  <2> QED BY <2>3, <1>2, <1>5, <1>10, <1>11
<1>14. k + 1 <= j * m + m
  <2>1. SUFFICES ASSUME j * m + m <= k PROVE FALSE
    OBVIOUS
  <2>2. (j * m + m) * D <= k * D
    BY <1>2, <2>1, TimesMonotonic
  <2>3. c + PageCount(q) <= low
    BY <2>2, <1>6, <1>9
  <2> QED BY <2>3, <1>2, <1>5, <1>10, <1>11
<1>15. c <= low /\ low + D <= c + PageCount(q)
  <2>1. (j * m) * D <= k * D
    BY <1>2, <1>13, TimesMonotonic
  <2>2. (k + 1) * D <= (j * m + m) * D
    BY <1>2, <1>14, TimesMonotonic
  <2> QED BY <2>1, <2>2, <1>6, <1>9, <1>12
<1> QED BY <1>15, <1>11, <1>2, <1>5 DEF Extent

\* The buddy of a block is never inside a larger or another block: it starts a
\* block of the same or a smaller order.
LEMMA BuddyIsHead ==
  ASSUME NEW H \in SUBSET Pages, NEW ord, Tiling(H, ord),
         NEW p \in H, ord[p] < MAX_ORDER
  PROVE  BuddyOf(p, ord[p]) \in H /\ ord[BuddyOf(p, ord[p])] <= ord[p]
<1> DEFINE o == ord[p]
           b == BuddyOf(p, o)
<1>1. o \in Orders /\ p \in Pages /\ p % PageCount(o) = 0
  BY DEF Tiling
<1>2. b \in Pages /\ b % PageCount(o) = 0 /\ b # p
  BY <1>1, BuddyFacts, PageCountType DEF Pages
<1>3. PICK c \in H : b \in Extent(c, ord[c])
  BY <1>2 DEF Tiling
<1>4. ord[c] \in Orders /\ c % PageCount(ord[c]) = 0 /\ c \in Nat /\ b \in Nat
  BY <1>2 DEF Tiling, Pages
<1>5. CASE ord[c] <= o
  <2>1. c = b
    BY <1>1, <1>2, <1>3, <1>4, <1>5, AlignedInSmaller
  <2> QED BY <2>1, <1>5
<1>6. CASE o < ord[c]
  <2>1. p \in Extent(c, ord[c])
    BY <1>1, <1>3, <1>4, <1>6, BuddyInLarger
  <2>2. p \in Extent(p, ord[p])
    BY <1>1, PageCountType DEF Extent, Pages
  <2>3. c = p
    BY <2>1, <2>2 DEF Tiling
  <2> QED BY <2>3, <1>6, <1>1 DEF Orders
<1>7. o \in Int /\ ord[c] \in Int
  BY <1>1, <1>4 DEF Orders
<1> QED BY <1>5, <1>6, <1>7

\* A block lies inside the memory.
LEMMA ExtentInMemory ==
  ASSUME NEW o \in Orders, NEW p \in Pages, p % PageCount(o) = 0
  PROVE  Extent(p, o) \subseteq Pages
<1> DEFINE D == PageCount(o)
           N == PageCount(MAX_ORDER)
<1>1. MAX_ORDER \in Orders /\ o <= MAX_ORDER
  BY OrdersAssumption DEF Orders
<1>2. D \in Nat \ {0} /\ N \in Nat \ {0}
  BY <1>1, PageCountType
<1>3. p \in Nat /\ p < N
  BY <1>2 DEF Pages
<1>4. PICK k \in Nat : p = k * D
  BY <1>3, MultipleOfPageCount
<1>5. PICK m \in Nat \ {0} : N = m * D
  BY <1>1, PageCountDivides
<1> HIDE DEF D, N
<1>6. k + 1 <= m
  <2>1. SUFFICES ASSUME m <= k PROVE FALSE
    OBVIOUS
  <2>2. m * D <= k * D
    BY <1>2, <2>1, TimesMonotonic
  <2> QED BY <2>2, <1>2, <1>3, <1>4, <1>5
<1>7. (k + 1) * D <= m * D
  BY <1>2, <1>6, TimesMonotonic
<1>8. p + D <= N
  <2>1. (k + 1) * D = p + D
    BY <1>2, <1>4
  <2> QED BY <2>1, <1>7, <1>5
<1> QED BY <1>8, <1>2, <1>3 DEF Extent, Pages, D, N

\* Splitting a block leaves a tiling; the right half was the start of no block.
LEMMA TilingSplit ==
  ASSUME NEW H \in SUBSET Pages, NEW ord \in [Pages -> Orders \cup {0}], Tiling(H, ord),
         NEW o \in Orders, NEW p \in H, ord[p] = o + 1,
         NEW b, b = BuddyOf(p, o),
         NEW ord2, ord2 = [ord EXCEPT ![b] = o, ![p] = o]
  PROVE  /\ b \in Pages \ H
         /\ Tiling(H \cup {b}, ord2)
<1> DEFINE D == PageCount(o)
<1>1. p \in Pages /\ o + 1 \in Orders /\ o < MAX_ORDER
  BY OrdersAssumption DEF Tiling, Orders
<1>2. D \in Nat \ {0} /\ PageCount(o + 1) = 2 * D
  BY <1>1, PageCountType, PageCountDoubles
<1>3. p \in Nat /\ p % PageCount(o + 1) = 0
  BY <1>1 DEF Tiling, Pages
<1>4. PICK k \in Nat : p = k * PageCount(o + 1)
  BY <1>1, <1>3, MultipleOfPageCount
<1>5. p % D = 0 /\ p \div D = 2 * k
  <2>1. p = (2 * k) * D
    BY <1>2, <1>4
  <2> QED BY <2>1, <1>2, DivMultiple, SMTT(30)
<1>6. b = p + D
  BY <1>5 DEF BuddyOf
<1>7. b \in Pages /\ b % D = 0
  BY <1>1, <1>5, BuddyFacts
<1>8. b # p /\ b \in Nat
  BY <1>2, <1>3, <1>6
<1> HIDE DEF D
<1>9. /\ Extent(p, o + 1) = Extent(p, o) \cup Extent(b, o)
      /\ Extent(p, o) \cap Extent(b, o) = {}
      /\ b \in Extent(b, o)
  BY <1>2, <1>3, <1>6 DEF Extent, D
<1>10. b \notin H
  <2>1. SUFFICES ASSUME b \in H PROVE FALSE
    OBVIOUS
  <2>2. b \in Extent(b, ord[b])
    BY <2>1, <1>8, PageCountType DEF Extent, Tiling
  <2>3. b \in Extent(p, ord[p])
    BY <1>9
  <2> QED BY <2>1, <2>2, <2>3, <1>8 DEF Tiling
<1>11. /\ ord2[b] = o /\ ord2[p] = o
       /\ \A q \in H \ {p} : ord2[q] = ord[q] /\ q # b
  BY <1>1, <1>7, <1>10
<1>12. \A q \in H \cup {b} : ord2[q] \in Orders /\ q % PageCount(ord2[q]) = 0
  BY <1>5, <1>7, <1>11 DEF Tiling, D
<1>13. \A q \in H \ {p} :
         Extent(q, ord2[q]) \cap (Extent(p, o) \cup Extent(b, o)) = {}
  BY <1>9, <1>11 DEF Tiling
<1>14. \A q, r \in H \cup {b} :
         q # r => Extent(q, ord2[q]) \cap Extent(r, ord2[r]) = {}
  <2>1. SUFFICES ASSUME NEW q \in H \cup {b}, NEW r \in H \cup {b}, q # r
                 PROVE  Extent(q, ord2[q]) \cap Extent(r, ord2[r]) = {}
    OBVIOUS
  <2>2. CASE q \in {p, b} /\ r \in {p, b}
    BY <2>1, <2>2, <1>9, <1>11
  <2>3. CASE q \in {p, b} /\ r \notin {p, b}
    BY <2>3, <1>11, <1>13
  <2>4. CASE q \notin {p, b} /\ r \in {p, b}
    BY <2>4, <1>11, <1>13
  <2>5. CASE q \notin {p, b} /\ r \notin {p, b}
    BY <2>1, <2>5, <1>11 DEF Tiling
  <2> QED BY <2>2, <2>3, <2>4, <2>5
<1>15. \A x \in Pages : \E q \in H \cup {b} : x \in Extent(q, ord2[q])
  <2>1. SUFFICES ASSUME NEW x \in Pages
                 PROVE  \E q \in H \cup {b} : x \in Extent(q, ord2[q])
    OBVIOUS
  <2>2. PICK q \in H : x \in Extent(q, ord[q])
    BY DEF Tiling
  <2> QED BY <2>2, <1>9, <1>11
<1> QED BY <1>7, <1>10, <1>12, <1>14, <1>15 DEF Tiling

\* Combining two blocks that are buddies leaves a tiling.
LEMMA TilingMerge ==
  ASSUME NEW H \in SUBSET Pages, NEW ord \in [Pages -> Orders \cup {0}], Tiling(H, ord),
         NEW o \in Orders, o < MAX_ORDER,
         NEW p \in H, ord[p] = o,
         NEW b \in H, b = BuddyOf(p, o), ord[b] = o,
         NEW low, low = IF b < p THEN b ELSE p,
         NEW high, high = IF b < p THEN p ELSE b,
         NEW ord2, ord2 = [ord EXCEPT ![low] = o + 1]
  PROVE  Tiling(H \ {high}, ord2)
<1> DEFINE D == PageCount(o)
<1>1. p \in Pages /\ p % D = 0 /\ o + 1 \in Orders
  BY OrdersAssumption DEF Tiling, Orders
<1>2. D \in Nat \ {0} /\ PageCount(o + 1) = 2 * D
  BY <1>1, PageCountType, PageCountDoubles
<1>3. /\ low \in Pages /\ low % PageCount(o + 1) = 0
      /\ \/ low = p /\ b = p + D
         \/ low = b /\ p = b + D
  BY <1>1, BuddyFacts
<1>4. low \in Nat /\ p \in Nat /\ b \in Nat
  BY <1>1, <1>3 DEF Pages
<1>5. high = low + D /\ {low, high} = {p, b} /\ low # high
  BY <1>2, <1>3, <1>4
<1> HIDE DEF D
<1>6. Extent(low, o + 1) = Extent(low, o) \cup Extent(high, o)
  BY <1>2, <1>4, <1>5 DEF Extent, D
<1>7. low \in H /\ high \in H /\ ord[low] = o /\ ord[high] = o
  BY <1>5
<1>8. /\ ord2[low] = o + 1
      /\ \A q \in H \ {low} : ord2[q] = ord[q]
  BY <1>3
<1>9. \A q \in H \ {high} : ord2[q] \in Orders /\ q % PageCount(ord2[q]) = 0
  BY <1>1, <1>3, <1>8 DEF Tiling
<1>10. ASSUME NEW q \in H \ {low, high}
       PROVE  Extent(q, ord2[q]) \cap Extent(low, o + 1) = {}
  <2>1. /\ Extent(q, ord[q]) \cap Extent(low, ord[low]) = {}
        /\ Extent(q, ord[q]) \cap Extent(high, ord[high]) = {}
    BY <1>7 DEF Tiling
  <2>2. ord2[q] = ord[q]
    BY <1>8
  <2> QED BY <2>1, <2>2, <1>6, <1>7
<1>11. \A q, r \in H \ {high} :
         q # r => Extent(q, ord2[q]) \cap Extent(r, ord2[r]) = {}
  <2>1. SUFFICES ASSUME NEW q \in H \ {high}, NEW r \in H \ {high}, q # r
                 PROVE  Extent(q, ord2[q]) \cap Extent(r, ord2[r]) = {}
    OBVIOUS
  <2>2. CASE q = low
    BY <2>1, <2>2, <1>8, <1>10
  <2>3. CASE r = low
    BY <2>1, <2>3, <1>8, <1>10
  <2>4. CASE q # low /\ r # low
    BY <2>1, <2>4, <1>8 DEF Tiling
  <2> QED BY <2>2, <2>3, <2>4
<1>12. \A x \in Pages : \E q \in H \ {high} : x \in Extent(q, ord2[q])
  <2>1. SUFFICES ASSUME NEW x \in Pages
                 PROVE  \E q \in H \ {high} : x \in Extent(q, ord2[q])
    OBVIOUS
  <2>2. PICK q \in H : x \in Extent(q, ord[q])
    BY DEF Tiling
  <2> QED BY <2>2, <1>5, <1>6, <1>7, <1>8
<1> QED BY <1>9, <1>11, <1>12 DEF Tiling

\* A set of orders has a least one.
LEMMA LeastOrder ==
  ASSUME NEW T \in SUBSET Orders, T # {}
  PROVE  \E x \in T : \A y \in T : x <= y
<1> DEFINE U == {MIN_ORDER..x : x \in T}
           R == StrictSubsetOrdering(Orders)
<1>1. U \subseteq SUBSET Orders /\ U # {}
  <2>1. ASSUME NEW x \in T PROVE MIN_ORDER..x \subseteq Orders
    <3>1. x \in Int /\ x <= MAX_ORDER
      BY OrdersAssumption DEF Orders
    <3> QED BY <3>1, OrdersAssumption DEF Orders
  <2> QED BY <2>1
<1>2. IsWellFoundedOn(R, SUBSET Orders)
  <2>1. IsFiniteSet(Orders)
    BY FS_Interval, OrdersAssumption DEF Orders
  <2>2. FiniteSubsetsOf(Orders) = SUBSET Orders
    BY <2>1, FS_FiniteSubsetsOfFinite
  <2>3. IsWellFoundedOn(R, FiniteSubsetsOf(Orders))
    BY FS_StrictSubsetOrderingWellFounded
  <2> HIDE DEF R
  <2> QED BY <2>2, <2>3
<1>3. PICK u \in U : \A v \in U : <<v, u>> \notin R
  BY <1>1, <1>2, WFMin
<1>4. PICK x \in T : u = MIN_ORDER..x
  OBVIOUS
<1>5. ASSUME NEW y \in T, y < x PROVE FALSE
  <2>1. x \in Orders /\ y \in Orders /\ MIN_ORDER \in Nat
    BY OrdersAssumption
  <2>2. MIN_ORDER..y \subseteq MIN_ORDER..x /\ MIN_ORDER..y # MIN_ORDER..x
    <3>1. x \in MIN_ORDER..x /\ x \notin MIN_ORDER..y
      BY <1>5, <2>1 DEF Orders
    <3>2. x \in Int /\ y \in Int
      BY <2>1, OrdersAssumption DEF Orders
    <3> QED BY <3>1, <3>2, <1>5, <2>1
  <2>3. MIN_ORDER..y \in U
    OBVIOUS
  <2> QED BY <2>3, <1>1, <1>3, <1>4, <2>2 DEF StrictSubsetOrdering
<1>6. \A y \in T : y \in Int /\ x \in Int
  BY OrdersAssumption DEF Orders
<1> QED BY <1>5, <1>6

-----------------------------------------------------------------------------
(* The allocator *)

\* The inductive invariant.  None of its parts is inductive alone: that an
\* index stays inside g_pages rests on the alignment of the blocks, that a
\* merge takes a linked block off its list rests on the tiling, and that the
\* lists stay accurate rests on both.
IInv == TypeOK /\ ListsMatchDescriptors /\ BlocksTileMemory /\ Coalesced

-----------------------------------------------------------------------------
\* What being linked says of a page.
LEMMA LinkedFacts ==
  ASSUME IInv, NEW o \in Orders, NEW p \in Linked(o)
  PROVE  /\ p \in Pages
         /\ p \in FreeHeads
         /\ p \in Heads
         /\ pgFree[p]
         /\ pgOrder[p] = o
         /\ p % PageCount(o) = 0
<1>1. free_area[o] \in Seq(Pages)
  BY DEF IInv, TypeOK
<1>2. p \in Pages
  BY <1>1, MembersType DEF Linked
<1>3. p \in FreeHeads /\ p \in Heads
  BY <1>2 DEF FreeHeads, Heads
<1>4. pgFree[p] /\ pgOrder[p] = o
  BY DEF IInv, ListsMatchDescriptors
<1> QED BY <1>2, <1>3, <1>4 DEF IInv, BlocksTileMemory, Tiling

\* buddy_init establishes the invariant.
LEMMA InitIInv == Init => IInv
<1> SUFFICES ASSUME Init PROVE IInv
  OBVIOUS
<1> USE DEF Init
<1>1. MAX_ORDER \in Orders /\ MIN_ORDER \in Orders
  BY OrdersAssumption DEF Orders
<1>2. PageCount(MAX_ORDER) \in Nat \ {0}
  BY <1>1, PageCountType
<1>3. 0 \in Pages
  BY <1>2 DEF Pages
<1>4. \A o \in Orders : Linked(o) = IF o = MAX_ORDER THEN {0} ELSE {}
  BY DEF Linked, Members
<1>5. FreeHeads = {0} /\ Heads = {0}
  BY <1>1, <1>3, <1>4 DEF FreeHeads, Heads, InFlight
<1>6. TypeOK
  <2>1. free_area \in [Orders -> Seq(Pages)]
    BY <1>3
  <2> QED BY <2>1, <1>1, <1>3 DEF TypeOK
<1>7. ListsMatchDescriptors
  <2>1. \A o \in Orders : NoDup(free_area[o])
    BY DEF NoDup
  <2>2. \A o \in Orders : \A p \in Linked(o) : pgFree[p] /\ pgOrder[p] = o
    BY <1>3, <1>4
  <2> QED BY <2>1, <2>2 DEF ListsMatchDescriptors, InFlight
<1>8. BlocksTileMemory
  <2>1. 0 % PageCount(MAX_ORDER) = 0
    BY <1>2
  <2>2. pgOrder[0] = MAX_ORDER
    BY <1>3
  <2>3. Extent(0, MAX_ORDER) = Pages
    BY <1>2 DEF Extent, Pages
  <2> QED BY <1>1, <1>5, <2>1, <2>2, <2>3 DEF BlocksTileMemory, Tiling
<1>9. Coalesced
  BY <1>4 DEF Coalesced, Orders
<1> QED BY <1>6, <1>7, <1>8, <1>9 DEF IInv

-----------------------------------------------------------------------------
(* buddy_alloc *)

\* buddy_alloc, taking the head of a free list.
LEMMA TakeIInv ==
  ASSUME IInv, NEW bytes \in Sizes, AllocTake(bytes)
  PROVE  IInv'
<1> USE DEF IInv
<1>1. PICK o \in Orders, f \in Orders :
        /\ FirstNonEmpty(o, f)
        /\ order' = o
        /\ found_order' = f
        /\ page' = Head(free_area[f])
        /\ free_area' = [free_area EXCEPT ![f] = list_del_init(Head(@), @)]
        /\ pgFree' = [pgFree EXCEPT ![Head(free_area[f])] = FALSE]
  BY DEF AllocTake
<1>2. /\ pc = "idle" /\ pc' = "split"
      /\ ret' = NoAnswer /\ size' = bytes /\ UNCHANGED <<pgOrder, live>>
  BY DEF AllocTake
<1> DEFINE p == Head(free_area[f])
<1>3. p \in Linked(f)
  BY <1>1, HeadIsMember DEF FirstNonEmpty, TypeOK, Linked
<1>4. p \in Pages /\ p \in FreeHeads /\ pgOrder[p] = f
  BY <1>3, LinkedFacts
<1>5. o <= f
  BY <1>1 DEF FirstNonEmpty
<1>6. ASSUME NEW q \in Orders
      PROVE  /\ free_area'[q] \in Seq(Pages)
             /\ NoDup(free_area'[q])
             /\ Linked(q)' = Linked(q) \ {p}
  <2>1. free_area[q] \in Seq(Pages) /\ NoDup(free_area[q])
    BY DEF TypeOK, ListsMatchDescriptors
  <2>2. CASE q = f
    <3>1. free_area'[q] = list_del_init(p, free_area[q])
      BY <2>2, <1>1 DEF TypeOK
    <3> QED BY <3>1, <2>1, ListDel DEF Linked
  <2>3. CASE q # f
    <3>1. free_area'[q] = free_area[q]
      BY <2>3, <1>1 DEF TypeOK
    <3>2. p \notin Linked(q)
      BY <2>3, <1>4, LinkedFacts
    <3> QED BY <3>1, <3>2, <2>1 DEF Linked
  <2> QED BY <2>2, <2>3
<1> HIDE DEF p
<1>7. page' = p
  BY <1>1 DEF p
<1>8. FreeHeads' = FreeHeads \ {p} /\ InFlight' = {p} /\ InFlight = {} /\ Heads' = Heads
  <2>1. FreeHeads' = FreeHeads \ {p}
    BY <1>6 DEF FreeHeads
  <2>2. InFlight' = {p} /\ InFlight = {}
    BY <1>2, <1>7 DEF InFlight
  <2> QED BY <2>1, <2>2, <1>2, <1>4 DEF Heads
<1>9. pgFree' = [pgFree EXCEPT ![p] = FALSE]
  BY <1>1 DEF p
<1>10. TypeOK'
  <2>1. free_area' \in [Orders -> Seq(Pages)]
    BY <1>1, <1>6 DEF TypeOK
  <2> QED BY <2>1, <1>1, <1>2, <1>4, <1>7, <1>9, SizesAssumption DEF TypeOK
<1>11. ListsMatchDescriptors'
  <2>1. \A q \in Orders : \A x \in Linked(q)' : pgFree'[x] /\ pgOrder'[x] = q
    BY <1>2, <1>6, <1>9 DEF ListsMatchDescriptors, TypeOK
  <2>2. \A x \in live' : ~pgFree'[x]
    BY <1>2, <1>9 DEF ListsMatchDescriptors, TypeOK
  <2>3. live' \cap FreeHeads' = {} /\ InFlight' \cap (live' \cup FreeHeads') = {}
    BY <1>2, <1>4, <1>8 DEF ListsMatchDescriptors
  <2>4. order' <= found_order' /\ pgOrder'[page'] = found_order'
    BY <1>1, <1>2, <1>4, <1>5, <1>7
  <2> QED BY <1>2, <1>6, <2>1, <2>2, <2>3, <2>4 DEF ListsMatchDescriptors
<1>12. BlocksTileMemory'
  BY <1>2, <1>8 DEF BlocksTileMemory, Tiling
<1>13. Coalesced'
  BY <1>6 DEF Coalesced
<1> QED BY <1>10, <1>11, <1>12, <1>13

\* buddy_alloc, one split.
LEMMA SplitIInv ==
  ASSUME IInv, AllocSplit
  PROVE  IInv'
<1> USE DEF IInv
<1> DEFINE o == found_order - 1
           b == BuddyOf(page, o)
<1>1. /\ pc = "split" /\ pc' = "split"
      /\ order < found_order
      /\ found_order' = o
      /\ pgOrder' = [pgOrder EXCEPT ![b] = o, ![page] = o]
      /\ pgFree' = [pgFree EXCEPT ![b] = TRUE]
      /\ free_area' = [free_area EXCEPT ![o] = list_add(b, @)]
      /\ UNCHANGED <<size, page, order, live, ret>>
  BY DEF AllocSplit, TypeOK, Orders
<1>2. o \in Orders /\ order <= o /\ o + 1 = found_order /\ o < MAX_ORDER
  BY <1>1, OrdersAssumption DEF TypeOK, Orders
<1>3. page \in Heads /\ page \in Pages /\ pgOrder[page] = o + 1
  BY <1>1, <1>2 DEF TypeOK, ListsMatchDescriptors, Heads, InFlight
<1> HIDE DEF o
<1>4. Heads \in SUBSET Pages /\ pgOrder \in [Pages -> Orders \cup {0}]
  BY DEF TypeOK, Heads, FreeHeads, InFlight
<1>5. b \in Pages \ Heads /\ Tiling(Heads \cup {b}, pgOrder')
  BY <1>1, <1>2, <1>3, <1>4, TilingSplit DEF BlocksTileMemory
<1>6. page % PageCount(o) = 0 /\ b # page /\ BuddyOf(b, o) = page
  <2>1. pgOrder'[page] = o
    BY <1>1, <1>3, <1>4
  <2>2. page % PageCount(o) = 0
    BY <2>1, <1>3, <1>5 DEF Tiling
  <2> QED BY <2>2, <1>2, <1>3, <1>5, BuddyFacts
<1> HIDE DEF b
<1>7. ASSUME NEW q \in Orders
      PROVE  /\ free_area'[q] \in Seq(Pages)
             /\ NoDup(free_area'[q])
             /\ Linked(q)' = IF q = o THEN Linked(q) \cup {b} ELSE Linked(q)
             /\ b \notin Linked(q)
  <2>1. free_area[q] \in Seq(Pages) /\ NoDup(free_area[q])
    BY DEF TypeOK, ListsMatchDescriptors
  <2>2. b \notin Linked(q)
    BY <1>5, LinkedFacts
  <2>3. CASE q = o
    <3>1. free_area'[q] = list_add(b, free_area[q])
      BY <2>3, <1>1 DEF TypeOK
    <3> QED BY <3>1, <2>1, <2>2, <2>3, <1>5, ListAdd DEF Linked
  <2>4. CASE q # o
    <3>1. free_area'[q] = free_area[q]
      BY <2>4, <1>1 DEF TypeOK
    <3> QED BY <3>1, <2>1, <2>2, <2>4 DEF Linked
  <2> QED BY <2>3, <2>4
<1>8. /\ FreeHeads' = FreeHeads \cup {b}
      /\ InFlight' = {page} /\ InFlight = {page}
      /\ Heads' = Heads \cup {b}
  <2>1. FreeHeads' = FreeHeads \cup {b}
    BY <1>2, <1>5, <1>7 DEF FreeHeads
  <2>2. InFlight' = {page} /\ InFlight = {page}
    BY <1>1 DEF InFlight
  <2> QED BY <2>1, <2>2, <1>1 DEF Heads
<1>9. TypeOK'
  <2>1. free_area' \in [Orders -> Seq(Pages)]
    BY <1>1, <1>7 DEF TypeOK
  <2>2. pgOrder' \in [Pages -> Orders \cup {0}]
    BY <1>1, <1>2, <1>3, <1>5 DEF TypeOK
  <2>3. pgFree' \in [Pages -> BOOLEAN]
    BY <1>1, <1>5 DEF TypeOK
  <2> QED BY <2>1, <2>2, <2>3, <1>1, <1>2 DEF TypeOK
<1>10. ListsMatchDescriptors'
  <2>1. ASSUME NEW q \in Orders, NEW x \in Linked(q)'
        PROVE  pgFree'[x] /\ pgOrder'[x] = q
    <3>1. CASE x = b /\ q = o
      <4>1. pgFree'[b]
        BY <1>1, <1>5 DEF TypeOK
      <4>2. pgOrder'[b] = o
        BY <1>1, <1>4, <1>5, <1>6
      <4> QED BY <3>1, <4>1, <4>2
    <3>2. CASE x \in Linked(q)
      <4>1. x \in Pages /\ x # b /\ x # page /\ pgFree[x] /\ pgOrder[x] = q
        BY <3>2, <1>7, <1>8, LinkedFacts DEF ListsMatchDescriptors
      <4>2. pgFree'[x]
        BY <4>1, <1>1 DEF TypeOK
      <4>3. pgOrder'[x] = q
        BY <4>1, <1>1, <1>4
      <4> QED BY <4>2, <4>3
    <3> QED BY <3>1, <3>2, <2>1, <1>7
  <2>2. \A x \in live' : ~pgFree'[x]
    BY <1>1, <1>5 DEF ListsMatchDescriptors, TypeOK, Heads
  <2>3. live' \cap FreeHeads' = {} /\ InFlight' \cap (live' \cup FreeHeads') = {}
    BY <1>1, <1>5, <1>6, <1>8 DEF ListsMatchDescriptors, Heads
  <2>4. pgOrder'[page'] = found_order'
    BY <1>1, <1>3, <1>4
  <2> QED BY <1>1, <1>2, <1>7, <2>1, <2>2, <2>3, <2>4 DEF ListsMatchDescriptors
<1>11. BlocksTileMemory'
  BY <1>5, <1>8 DEF BlocksTileMemory, Tiling
<1>12. Coalesced'
  <2>1. SUFFICES ASSUME NEW q \in Orders, q < MAX_ORDER, NEW x \in Linked(q)'
                 PROVE  BuddyOf(x, q) \notin Linked(q)'
    BY DEF Coalesced
  <2>2. CASE q = o /\ x = b
    <3>1. page \notin Linked(q)
      BY <1>8, LinkedFacts DEF ListsMatchDescriptors
    <3> QED BY <3>1, <2>2, <1>6, <1>7
  <2>3. CASE x \in Linked(q)
    <3>1. x \in Pages /\ x % PageCount(q) = 0 /\ x # page
      BY <2>3, <1>8, LinkedFacts DEF ListsMatchDescriptors
    <3>2. BuddyOf(BuddyOf(x, q), q) = x
      BY <3>1, <2>1, BuddyFacts
    <3>3. q = o => BuddyOf(x, q) # b
      BY <3>1, <3>2, <1>6
    <3> QED BY <3>3, <2>1, <2>3, <1>7 DEF Coalesced
  <2> QED BY <2>1, <2>2, <2>3, <1>7
<1> QED BY <1>9, <1>10, <1>11, <1>12

\* buddy_alloc, returning the block.
LEMMA ReturnIInv ==
  ASSUME IInv, AllocReturn
  PROVE  IInv'
<1> USE DEF IInv
<1>1. /\ pc = "split" /\ pc' = "idle"
      /\ ~(found_order > order)
      /\ pgOrder' = [pgOrder EXCEPT ![page] = order]
      /\ pgFree' = [pgFree EXCEPT ![page] = FALSE]
      /\ live' = live \cup {page}
      /\ ret' = <<size, page>>
      /\ size' = 0 /\ page' = 0 /\ order' = MIN_ORDER /\ found_order' = MIN_ORDER
      /\ free_area' = free_area
  BY DEF AllocReturn, NoLocals
<1>2. page \in Pages /\ pgOrder' = pgOrder
  <2>1. found_order = order
    BY <1>1, OrdersAssumption DEF TypeOK, ListsMatchDescriptors, Orders
  <2> QED BY <2>1, <1>1 DEF TypeOK, ListsMatchDescriptors
<1>3. \A q \in Orders : Linked(q)' = Linked(q)
  BY <1>1 DEF Linked
<1>4. /\ InFlight = {page} /\ InFlight' = {} /\ FreeHeads' = FreeHeads
      /\ Heads' = Heads
  BY <1>1, <1>3 DEF InFlight, FreeHeads, Heads
<1>5. TypeOK'
  <2>1. 0 \in Pages /\ MIN_ORDER \in Orders
    BY OrdersAssumption, PageCountType DEF Pages, Orders
  <2> QED BY <2>1, <1>1, <1>2 DEF TypeOK
<1>6. ListsMatchDescriptors'
  <2>1. \A q \in Orders : \A x \in Linked(q)' : pgFree'[x] /\ pgOrder'[x] = q
    BY <1>1, <1>2, <1>3, <1>4, LinkedFacts DEF ListsMatchDescriptors, TypeOK
  <2>2. \A x \in live' : ~pgFree'[x]
    BY <1>1, <1>2 DEF ListsMatchDescriptors, TypeOK
  <2> QED BY <2>1, <2>2, <1>1, <1>4 DEF ListsMatchDescriptors
<1>7. BlocksTileMemory'
  BY <1>2, <1>4 DEF BlocksTileMemory, Tiling
<1>8. Coalesced'
  BY <1>3 DEF Coalesced
<1> QED BY <1>5, <1>6, <1>7, <1>8

-----------------------------------------------------------------------------
(* buddy_free *)

\* buddy_free, entered with an allocated block.
LEMMA FreeStartIInv ==
  ASSUME IInv, NEW p \in Pages, FreeStart(p)
  PROVE  IInv'
<1> USE DEF IInv
<1>1. /\ pc = "idle" /\ pc' = "merge"
      /\ p \in live
      /\ live' = live \ {p}
      /\ page' = p
      /\ order' = pgOrder[p]
      /\ pgFree' = [pgFree EXCEPT ![p] = TRUE]
      /\ ret' = NoAnswer
      /\ UNCHANGED <<pgOrder, free_area, size, found_order>>
  BY DEF FreeStart, FreeEnter
<1>2. \A q \in Orders : Linked(q)' = Linked(q)
  BY <1>1 DEF Linked
<1>3. /\ InFlight = {} /\ InFlight' = {p} /\ FreeHeads' = FreeHeads
      /\ Heads' = Heads
  BY <1>1, <1>2 DEF InFlight, FreeHeads, Heads
<1>4. pgOrder[p] \in Orders
  BY <1>1 DEF BlocksTileMemory, Tiling, Heads
<1>5. TypeOK'
  BY <1>1, <1>4 DEF TypeOK
<1>6. ListsMatchDescriptors'
  <2>1. \A q \in Orders : \A x \in Linked(q)' : pgFree'[x] /\ pgOrder'[x] = q
    BY <1>1, <1>2, LinkedFacts DEF TypeOK
  <2>2. \A x \in live' : ~pgFree'[x]
    BY <1>1 DEF ListsMatchDescriptors, TypeOK
  <2>3. live' \cap FreeHeads' = {} /\ InFlight' \cap (live' \cup FreeHeads') = {}
    BY <1>1, <1>3 DEF ListsMatchDescriptors
  <2>4. pgOrder'[page'] = order' /\ pgFree'[page']
    BY <1>1 DEF TypeOK
  <2>5. \A q \in Orders : NoDup(free_area'[q])
    BY <1>1 DEF ListsMatchDescriptors
  <2> QED BY <2>1, <2>2, <2>3, <2>4, <2>5, <1>1 DEF ListsMatchDescriptors
<1>7. BlocksTileMemory'
  BY <1>1, <1>3 DEF BlocksTileMemory, Tiling
<1>8. Coalesced'
  BY <1>2 DEF Coalesced
<1> QED BY <1>5, <1>6, <1>7, <1>8

\* What the coalescing loop is about to absorb is a linked free block of the
\* same order: the marks of the buddy can be trusted.
LEMMA MergesLinkedBuddy ==
  ASSUME IInv, pc = "merge", CanMerge(page, order)
  PROVE  /\ BuddyOf(page, order) \in Linked(order)
         /\ page \in Pages /\ page % PageCount(order) = 0
         /\ order \in Orders /\ order < MAX_ORDER
         /\ pgOrder[page] = order
<1> USE DEF IInv
<1> DEFINE b == BuddyOf(page, order)
<1>1. order \in Orders /\ order < MAX_ORDER /\ pgFree[b] /\ pgOrder[b] = order
  BY DEF CanMerge, TypeOK
<1>2. InFlight = {page} /\ page \in Heads /\ page \in Pages /\ pgOrder[page] = order
  BY DEF InFlight, Heads, TypeOK, ListsMatchDescriptors
<1>3. page % PageCount(order) = 0
  BY <1>2 DEF BlocksTileMemory, Tiling
<1>4. Heads \in SUBSET Pages
  BY DEF TypeOK, Heads, FreeHeads, InFlight
<1>5. b \in Heads
  BY <1>1, <1>2, <1>4, BuddyIsHead DEF BlocksTileMemory
<1>6. b # page
  BY <1>1, <1>2, <1>3, BuddyFacts, PageCountType DEF Pages
<1>7. b \in FreeHeads
  BY <1>1, <1>2, <1>5, <1>6 DEF Heads, ListsMatchDescriptors
<1>8. b \in Linked(order)
  BY <1>1, <1>7, LinkedFacts DEF FreeHeads
<1> QED BY <1>1, <1>2, <1>3, <1>8

\* buddy_free, one merge.
LEMMA MergeIInv ==
  ASSUME IInv, FreeMerge
  PROVE  IInv'
<1> USE DEF IInv
<1> DEFINE b == BuddyOf(page, order)
           low == IF b < page THEN b ELSE page
           high == IF b < page THEN page ELSE b
<1>1. /\ pc = "merge" /\ pc' = "merge" /\ CanMerge(page, order)
      /\ free_area' = [o \in Orders |-> list_del_init(b, free_area[o])]
      /\ pgFree' = [pgFree EXCEPT ![b] = FALSE, ![low] = TRUE]
      /\ pgOrder' = [pgOrder EXCEPT ![low] = order + 1]
      /\ page' = low
      /\ order' = order + 1
      /\ UNCHANGED <<size, found_order, live, ret>>
  BY DEF FreeMerge
<1>2. /\ b \in Linked(order)
      /\ page \in Pages /\ page % PageCount(order) = 0
      /\ order \in Orders /\ order < MAX_ORDER
      /\ pgOrder[page] = order
  BY <1>1, MergesLinkedBuddy
<1>3. b \in FreeHeads /\ b \in Pages /\ pgOrder[b] = order
  BY <1>2, LinkedFacts
<1>4. order + 1 \in Orders
  BY <1>2, OrdersAssumption DEF Orders
<1>5. b # page /\ low \in Pages /\ {low, high} = {page, b} /\ low # high
  BY <1>2, <1>3, BuddyFacts, PageCountType DEF Pages
<1>6. Heads \in SUBSET Pages /\ pgOrder \in [Pages -> Orders \cup {0}]
  BY DEF TypeOK, Heads, FreeHeads, InFlight
<1>7. InFlight = {page} /\ page \in Heads /\ b \in Heads
  BY <1>1, <1>3 DEF InFlight, Heads
<1>8. Tiling(Heads \ {high}, pgOrder')
  BY <1>1, <1>2, <1>3, <1>6, <1>7, TilingMerge DEF BlocksTileMemory
<1> HIDE DEF b, low, high
<1>9. ASSUME NEW q \in Orders
      PROVE  /\ free_area'[q] \in Seq(Pages)
             /\ NoDup(free_area'[q])
             /\ Linked(q)' = Linked(q) \ {b}
  <2>1. free_area[q] \in Seq(Pages) /\ NoDup(free_area[q])
    BY DEF TypeOK, ListsMatchDescriptors
  <2>2. free_area'[q] = list_del_init(b, free_area[q])
    BY <1>1
  <2> QED BY <2>1, <2>2, ListDel DEF Linked
<1>10. /\ FreeHeads' = FreeHeads \ {b}
       /\ InFlight' = {low}
       /\ page \notin FreeHeads /\ page \notin live /\ b \notin live
  <2>1. FreeHeads' = FreeHeads \ {b}
    BY <1>9 DEF FreeHeads
  <2>2. InFlight' = {low}
    BY <1>1 DEF InFlight
  <2> QED BY <2>1, <2>2, <1>3, <1>7 DEF ListsMatchDescriptors
<1>11. Heads' = Heads \ {high}
  BY <1>1, <1>3, <1>5, <1>7, <1>10 DEF Heads
<1>12. TypeOK'
  <2>1. free_area' \in [Orders -> Seq(Pages)]
    BY <1>1, <1>9
  <2>2. pgOrder' \in [Pages -> Orders \cup {0}]
    BY <1>1, <1>4, <1>6
  <2>3. pgFree' \in [Pages -> BOOLEAN]
    BY <1>1, <1>3, <1>5 DEF TypeOK
  <2> QED BY <2>1, <2>2, <2>3, <1>1, <1>4, <1>5 DEF TypeOK
<1>13. ListsMatchDescriptors'
  <2>1. ASSUME NEW q \in Orders, NEW x \in Linked(q)'
        PROVE  pgFree'[x] /\ pgOrder'[x] = q
    <3>1. x \in Linked(q) /\ x # b
      BY <1>9
    <3>2. x \in Pages /\ pgFree[x] /\ pgOrder[x] = q /\ x # page
      BY <3>1, <1>10, LinkedFacts
    <3>3. x # low
      BY <3>1, <3>2, <1>5
    <3>4. pgFree'[x]
      BY <3>1, <3>2, <3>3, <1>1 DEF TypeOK
    <3>5. pgOrder'[x] = q
      BY <3>2, <3>3, <1>1, <1>6
    <3> QED BY <3>4, <3>5
  <2>2. ASSUME NEW x \in live' PROVE ~pgFree'[x]
    <3>1. x \in live /\ x # b /\ x # page /\ x # low
      BY <1>1, <1>5, <1>10
    <3> QED BY <3>1, <1>1 DEF TypeOK, ListsMatchDescriptors
  <2>3. live' \cap FreeHeads' = {} /\ InFlight' \cap (live' \cup FreeHeads') = {}
    BY <1>1, <1>5, <1>10 DEF ListsMatchDescriptors
  <2>4. pgOrder'[page'] = order' /\ pgFree'[page']
    BY <1>1, <1>3, <1>5, <1>6 DEF TypeOK
  <2> QED BY <1>1, <1>9, <2>1, <2>2, <2>3, <2>4 DEF ListsMatchDescriptors
<1>14. BlocksTileMemory'
  BY <1>8, <1>11 DEF BlocksTileMemory, Tiling
<1>15. Coalesced'
  BY <1>9 DEF Coalesced
<1> QED BY <1>12, <1>13, <1>14, <1>15

\* buddy_free, linking the block that is left.
LEMMA InsertIInv ==
  ASSUME IInv, FreeInsert
  PROVE  IInv'
<1> USE DEF IInv
<1>1. /\ pc = "merge" /\ pc' = "idle" /\ ~CanMerge(page, order)
      /\ free_area' = [free_area EXCEPT ![order] = list_add(page, @)]
      /\ size' = 0 /\ page' = 0 /\ order' = MIN_ORDER /\ found_order' = MIN_ORDER
      /\ UNCHANGED <<pgOrder, pgFree, live, ret>>
  BY DEF FreeInsert, NoLocals
<1>2. order \in Orders /\ page \in Pages /\ pgOrder[page] = order
  BY <1>1 DEF TypeOK, ListsMatchDescriptors
<1>3. InFlight = {page} /\ InFlight' = {} /\ page \in Heads
  BY <1>1 DEF InFlight, Heads
<1>4. page \notin live /\ page \notin FreeHeads
  BY <1>3 DEF ListsMatchDescriptors
<1>5. page % PageCount(order) = 0
  BY <1>2, <1>3 DEF BlocksTileMemory, Tiling
<1>6. ASSUME NEW q \in Orders
      PROVE  /\ free_area'[q] \in Seq(Pages)
             /\ NoDup(free_area'[q])
             /\ Linked(q)' = IF q = order THEN Linked(q) \cup {page} ELSE Linked(q)
  <2>1. free_area[q] \in Seq(Pages) /\ NoDup(free_area[q])
    BY DEF TypeOK, ListsMatchDescriptors
  <2>2. page \notin Linked(q)
    BY <1>4, LinkedFacts
  <2>3. CASE q = order
    <3>1. free_area'[q] = list_add(page, free_area[q])
      BY <2>3, <1>1 DEF TypeOK
    <3> QED BY <3>1, <2>1, <2>2, <2>3, <1>2, ListAdd DEF Linked
  <2>4. CASE q # order
    <3>1. free_area'[q] = free_area[q]
      BY <2>4, <1>1 DEF TypeOK
    <3> QED BY <3>1, <2>1, <2>2, <2>4 DEF Linked
  <2> QED BY <2>3, <2>4
<1>7. FreeHeads' = FreeHeads \cup {page} /\ Heads' = Heads
  <2>1. FreeHeads' = FreeHeads \cup {page}
    BY <1>2, <1>6 DEF FreeHeads
  <2> QED BY <2>1, <1>1, <1>3 DEF Heads
<1>8. TypeOK'
  <2>1. free_area' \in [Orders -> Seq(Pages)]
    BY <1>1, <1>6 DEF TypeOK
  <2>2. 0 \in Pages /\ MIN_ORDER \in Orders
    BY OrdersAssumption, PageCountType DEF Pages, Orders
  <2> QED BY <2>1, <2>2, <1>1 DEF TypeOK
<1>9. ListsMatchDescriptors'
  <2>1. pgFree[page]
    BY <1>1 DEF ListsMatchDescriptors
  <2>2. \A q \in Orders : \A x \in Linked(q)' : pgFree'[x] /\ pgOrder'[x] = q
    BY <1>1, <1>2, <1>6, <2>1, LinkedFacts
  <2> QED BY <2>2, <1>1, <1>3, <1>4, <1>6, <1>7 DEF ListsMatchDescriptors
<1>10. BlocksTileMemory'
  BY <1>1, <1>7 DEF BlocksTileMemory, Tiling
<1>11. Coalesced'
  <2>1. SUFFICES ASSUME NEW q \in Orders, q < MAX_ORDER, NEW x \in Linked(q)'
                 PROVE  BuddyOf(x, q) \notin Linked(q)'
    BY DEF Coalesced
  <2>2. CASE q = order /\ x = page
    <3>1. BuddyOf(page, order) \notin Linked(order)
      BY <2>1, <2>2, <1>1, LinkedFacts DEF CanMerge
    <3>2. BuddyOf(page, order) # page
      BY <2>1, <2>2, <1>2, <1>5, BuddyFacts, PageCountType DEF Pages
    <3> QED BY <3>1, <3>2, <2>2, <1>6
  <2>3. CASE x \in Linked(q)
    <3>1. x \in Pages /\ x % PageCount(q) = 0 /\ pgFree[x] /\ pgOrder[x] = q
      BY <2>3, LinkedFacts
    <3>2. BuddyOf(BuddyOf(x, q), q) = x
      BY <3>1, <2>1, BuddyFacts
    <3>3. q = order => BuddyOf(x, q) # page
      BY <3>1, <3>2, <2>1, <1>1 DEF CanMerge
    <3> QED BY <3>3, <2>1, <2>3, <1>6 DEF Coalesced
  <2> QED BY <2>1, <2>2, <2>3, <1>6
<1> QED BY <1>8, <1>9, <1>10, <1>11

-----------------------------------------------------------------------------
(* The theorems *)

\* Every step of the allocator preserves the invariant.
LEMMA NextIInv == IInv /\ [Next]_vars => IInv'
<1> SUFFICES ASSUME IInv, [Next]_vars PROVE IInv'
  OBVIOUS
<1>1. ASSUME NEW bytes \in Sizes, AllocFail(bytes) PROVE IInv'
  <2>1. ret' = <<bytes, NULL>> /\ UNCHANGED <<pgOrder, pgFree, free_area, pc, size,
                                            page, order, found_order, live>>
    BY <1>1 DEF AllocFail
  <2>2. \A o \in Orders : Linked(o)' = Linked(o)
    BY <2>1 DEF Linked
  <2>3. Heads' = Heads /\ FreeHeads' = FreeHeads /\ InFlight' = InFlight
    BY <2>1, <2>2 DEF Heads, FreeHeads, InFlight
  <2>4. TypeOK'
    BY <2>1, SizesAssumption DEF IInv, TypeOK
  <2>5. ListsMatchDescriptors'
    BY <2>1, <2>2, <2>3 DEF IInv, ListsMatchDescriptors
  <2>6. BlocksTileMemory'
    BY <2>1, <2>3 DEF IInv, BlocksTileMemory, Tiling
  <2>7. Coalesced'
    BY <2>2 DEF IInv, Coalesced
  <2> QED BY <2>4, <2>5, <2>6, <2>7 DEF IInv
<1>2. ASSUME NEW bytes \in Sizes, AllocTake(bytes) PROVE IInv'
  BY <1>2, TakeIInv
<1>3. CASE AllocSplit
  BY <1>3, SplitIInv
<1>4. CASE AllocReturn
  BY <1>4, ReturnIInv
<1>5. ASSUME NEW p \in Pages, FreeStart(p) PROVE IInv'
  BY <1>5, FreeStartIInv
<1>6. CASE FreeMerge
  BY <1>6, MergeIInv
<1>7. CASE FreeInsert
  BY <1>7, InsertIInv
<1>8. CASE UNCHANGED vars
  <2>1. \A o \in Orders : Linked(o)' = Linked(o)
    BY <1>8 DEF vars, Linked
  <2>2. Heads' = Heads /\ FreeHeads' = FreeHeads /\ InFlight' = InFlight
    BY <1>8, <2>1 DEF vars, Heads, FreeHeads, InFlight
  <2>3. TypeOK'
    BY <1>8 DEF vars, IInv, TypeOK
  <2>4. ListsMatchDescriptors'
    BY <1>8, <2>1, <2>2 DEF vars, IInv, ListsMatchDescriptors
  <2>5. BlocksTileMemory'
    BY <1>8, <2>2 DEF vars, IInv, BlocksTileMemory, Tiling
  <2>6. Coalesced'
    BY <2>1 DEF IInv, Coalesced
  <2> QED BY <2>3, <2>4, <2>5, <2>6 DEF IInv
<1> QED BY <1>1, <1>2, <1>3, <1>4, <1>5, <1>6, <1>7, <1>8 DEF Next, Step

\* The invariant holds in every reachable state.
LEMMA AlwaysIInv == Spec => []IInv
  BY InitIInv, NextIInv, PTL DEF Spec

\* A step leaves the descriptors of the blocks alone that stay allocated.
LEMMA StepLeavesLiveBlocks ==
  ASSUME IInv, [Next]_vars
  PROVE  \A p \in live \cap live' : pgOrder'[p] = pgOrder[p] /\ pgFree'[p] = pgFree[p]
<1> SUFFICES ASSUME Next, NEW p \in live, p \in live'
             PROVE  pgOrder'[p] = pgOrder[p] /\ pgFree'[p] = pgFree[p]
  BY DEF vars
<1> USE DEF IInv
<1>1. /\ p \in Pages /\ p \in Heads /\ p \notin FreeHeads /\ p \notin InFlight
      /\ pgOrder \in [Pages -> Orders \cup {0}] /\ pgFree \in [Pages -> BOOLEAN]
  BY DEF TypeOK, ListsMatchDescriptors, Heads
<1>2. ASSUME NEW bytes \in Sizes, AllocFail(bytes) \/ AllocTake(bytes)
      PROVE  pgOrder'[p] = pgOrder[p] /\ pgFree'[p] = pgFree[p]
  <2>1. CASE AllocFail(bytes)
    BY <2>1 DEF AllocFail
  <2>2. CASE AllocTake(bytes)
    <3>1. PICK f \in Orders :
            /\ ~list_empty(free_area[f])
            /\ pgFree' = [pgFree EXCEPT ![Head(free_area[f])] = FALSE]
      BY <2>2 DEF AllocTake, FirstNonEmpty
    <3>2. Head(free_area[f]) \in Linked(f)
      BY <3>1, HeadIsMember DEF TypeOK, Linked
    <3>3. Head(free_area[f]) # p
      BY <3>2, <1>1, LinkedFacts
    <3> QED BY <3>1, <3>3, <1>1, <2>2 DEF AllocTake
  <2> QED BY <1>2, <2>1, <2>2
<1>3. CASE AllocSplit
  <2> DEFINE b == BuddyOf(page, found_order - 1)
  <2>1. /\ pc = "split" /\ found_order - 1 \in Orders
        /\ pgOrder[page] = (found_order - 1) + 1
        /\ pgOrder' = [pgOrder EXCEPT ![b] = found_order - 1, ![page] = found_order - 1]
        /\ pgFree' = [pgFree EXCEPT ![b] = TRUE]
    BY <1>3, OrdersAssumption
       DEF AllocSplit, TypeOK, Orders, ListsMatchDescriptors
  <2>2. InFlight = {page} /\ page \in Heads
    BY <2>1 DEF InFlight, Heads
  <2>3. Heads \in SUBSET Pages
    BY DEF TypeOK, Heads, FreeHeads, InFlight
  <2>4. b \notin Heads
    BY <1>1, <2>1, <2>2, <2>3, TilingSplit DEF BlocksTileMemory
  <2> HIDE DEF b
  <2>5. p # b /\ p # page
    BY <1>1, <2>2, <2>4
  <2> QED BY <1>1, <2>1, <2>5
<1>4. CASE AllocReturn
  <2>1. p # page
    BY <1>1, <1>4 DEF AllocReturn, InFlight
  <2> QED BY <1>1, <1>4, <2>1 DEF AllocReturn
<1>5. ASSUME NEW q \in Pages, FreeStart(q)
      PROVE  pgOrder'[p] = pgOrder[p] /\ pgFree'[p] = pgFree[p]
  BY <1>1, <1>5 DEF FreeStart, FreeEnter
<1>6. CASE FreeMerge
  <2> DEFINE b == BuddyOf(page, order)
  <2>1. b \in FreeHeads
    BY <1>6, MergesLinkedBuddy, LinkedFacts DEF FreeMerge
  <2>2. p # page
    BY <1>1, <1>6 DEF FreeMerge, InFlight
  <2> HIDE DEF b
  <2>3. PICK low \in {page, b} :
          /\ pgFree' = [pgFree EXCEPT ![b] = FALSE, ![low] = TRUE]
          /\ pgOrder' = [pgOrder EXCEPT ![low] = order + 1]
    BY <1>6 DEF FreeMerge, b
  <2>4. p # b /\ p # low
    BY <1>1, <2>1, <2>2, <2>3
  <2> QED BY <1>1, <2>3, <2>4
<1>7. CASE FreeInsert
  BY <1>7 DEF FreeInsert
<1> QED BY <1>2, <1>3, <1>4, <1>5, <1>6, <1>7 DEF Next, Step

\* Type correctness of the allocator: in particular no index computed by
\* BUDDY_ADDR leaves g_pages, and no list holds anything but pages.
THEOREM TypeCorrect == Spec => []TypeOK
<1>1. IInv => TypeOK
  BY DEF IInv
<1> QED BY <1>1, AlwaysIInv, PTL

\* The free lists and the page descriptors agree in every reachable state: the
\* free mark and the order that buddy_free reads of a buddy can be trusted.
THEOREM DescriptorsCorrect == Spec => []ListsMatchDescriptors
<1>1. IInv => ListsMatchDescriptors
  BY DEF IInv
<1> QED BY <1>1, AlwaysIInv, PTL

\* In every reachable state of buddy_alloc and buddy_free the blocks divide
\* the memory: allocated blocks never overlap and no page is lost.
THEOREM BlocksPartitionMemory == Spec => []BlocksTileMemory
<1>1. IInv => BlocksTileMemory
  BY DEF IInv
<1> QED BY <1>1, AlwaysIInv, PTL

\* buddy_free leaves no two free buddies of one order uncombined.
THEOREM AlwaysCoalesced == Spec => []Coalesced
<1>1. IInv => Coalesced
  BY DEF IInv
<1> QED BY <1>1, AlwaysIInv, PTL

\* No call of buddy_alloc or buddy_free changes the descriptor of a block that
\* is allocated before and after the step.
THEOREM LiveBlocksStayUntouched == Spec => LiveBlocksUntouched
BY StepLeavesLiveBlocks, AlwaysIInv, PTL DEF Spec, LiveBlocksUntouched

-----------------------------------------------------------------------------
(* The refinement of PageAllocator *)

\* The size of a request is kept from the moment it is taken up until it is
\* answered, with the order that was chosen for it.
RequestKept ==
  /\ pc = "split" => size > 0 /\ Fits(size, order)
  /\ pc # "split" => size = 0

\* The invariant under which a step of the allocator is one of its promise.
PromiseInv == IInv /\ RequestKept

LEMMA NextRequestKept == IInv /\ RequestKept /\ [Next]_vars => RequestKept'
<1> SUFFICES ASSUME IInv, RequestKept, [Next]_vars PROVE RequestKept'
  OBVIOUS
<1>1. ASSUME NEW bytes \in Sizes, AllocTake(bytes) PROVE RequestKept'
  BY <1>1 DEF AllocTake, RequestKept, Fits
<1>2. ASSUME NEW bytes \in Sizes, AllocFail(bytes) PROVE RequestKept'
  BY <1>2 DEF AllocFail, RequestKept, Fits
<1>3. ASSUME NEW p \in Pages, FreeStart(p) PROVE RequestKept'
  BY <1>3 DEF FreeStart, FreeEnter, RequestKept
<1>4. CASE AllocSplit
  BY <1>4 DEF AllocSplit, RequestKept, Fits
<1>5. CASE AllocReturn \/ FreeInsert
  BY <1>5 DEF AllocReturn, FreeInsert, NoLocals, RequestKept
<1>6. CASE FreeMerge
  BY <1>6 DEF FreeMerge, RequestKept
<1>7. CASE UNCHANGED vars
  BY <1>7 DEF vars, RequestKept, Fits
<1> QED BY <1>1, <1>2, <1>3, <1>4, <1>5, <1>6, <1>7 DEF Next, Step

LEMMA AlwaysPromiseInv == Spec => []PromiseInv
<1>1. Init => RequestKept
  BY DEF Init, RequestKept
<1> QED BY <1>1, InitIInv, NextIInv, NextRequestKept, PTL DEF Spec, PromiseInv

\* A power of two is an integer, and grows with the exponent.
LEMMA PowersGrow ==
  ASSUME NEW m \in 0..MAX_ORDER, NEW n \in 0..MAX_ORDER, m <= n
  PROVE  2^m \in Nat /\ 2^n \in Nat /\ 2^m <= 2^n
<1>1. 2^m \in Nat \ {0} /\ 2^n \in Nat \ {0} /\ 2^n = 2^m * 2^(n - m)
  BY PowerOfTwoAssumption
<1>2. 2^(n - m) \in Nat \ {0}
  BY PowerOfTwoAssumption, OrdersAssumption
<1> DEFINE a == 2^m
           b == 2^(n - m)
<1>3. a \in Nat \ {0} /\ b \in Nat \ {0} => a <= a * b
  <2> HIDE DEF a, b
  <2> QED OBVIOUS
<1> QED BY <1>1, <1>2, <1>3

\* The order of a request is unique.
LEMMA OrderUnique ==
  ASSUME NEW bytes \in Int, NEW o \in Orders, NEW q \in Orders,
         Fits(bytes, o), Promise!OrderOf(bytes, q)
  PROVE  q = o
<1>1. o \in 0..MAX_ORDER /\ q \in 0..MAX_ORDER
  BY OrdersAssumption DEF Orders
<1>2. 2^o \in Nat /\ 2^q \in Nat
  BY <1>1, PowersGrow
<1>3. o < q => 2^o < bytes
  BY <1>1 DEF Promise!OrderOf, Orders
<1>4. q < o => 2^q < bytes
  BY <1>1 DEF Fits, Orders
<1> QED BY <1>1, <1>2, <1>3, <1>4 DEF Fits, Promise!OrderOf

\* The two modules speak of the same blocks.
LEMMA SameExtents ==
  /\ \A o : Promise!PageCount(o) = PageCount(o)
  /\ \A p, o : Promise!Extent(p, o) = Extent(p, o)
BY DEF Promise!PageCount, PageCount, Promise!Extent, Extent

\* A block is not empty.
LEMMA FirstPage ==
  ASSUME NEW o \in Orders, NEW p \in Pages
  PROVE  p \in Extent(p, o)
<1>1. PageCount(o) \in Nat \ {0} /\ p \in Int
  BY PageCountType DEF Pages
<1> QED BY <1>1 DEF Extent

\* If no free block of order o or more is linked, no aligned run of pages of
\* that size is free of allocated blocks.  Otherwise free blocks of smaller
\* orders would cover the run; one of the smallest of them has its buddy in the
\* run too, and the buddy is free and of the same order, so that buddy_free
\* would have combined the two.
LEMMA NoRoom ==
  ASSUME IInv, pc = "idle",
         NEW o \in Orders,
         \A f \in o..MAX_ORDER : list_empty(free_area[f]),
         NEW p \in Pages, p % PageCount(o) = 0,
         \A q \in live : Extent(p, o) \cap Extent(q, pgOrder[q]) = {}
  PROVE  FALSE
<1> USE DEF IInv
<1>1. Heads = live \cup FreeHeads /\ Heads \in SUBSET Pages /\ Tiling(Heads, pgOrder)
  BY DEF Heads, InFlight, BlocksTileMemory, TypeOK, FreeHeads
<1>2. Extent(p, o) \subseteq Pages /\ Pages \subseteq Nat /\ Orders \subseteq Nat
  BY ExtentInMemory, OrdersAssumption DEF Pages, Orders
<1>3. ASSUME NEW h \in FreeHeads
      PROVE  /\ pgOrder[h] \in Orders /\ pgOrder[h] < o
             /\ h \in Linked(pgOrder[h])
             /\ h \in Pages /\ h % PageCount(pgOrder[h]) = 0
  <2>1. PICK f \in Orders : h \in Linked(f)
    BY DEF FreeHeads
  <2>2. ~list_empty(free_area[f])
    BY <2>1 DEF Linked, Members, list_empty
  <2>3. pgOrder[h] = f /\ h \in Pages /\ h % PageCount(f) = 0
    BY <2>1, LinkedFacts
  <2>4. f < o
    BY <2>2, <1>2 DEF Orders
  <2> QED BY <2>1, <2>3, <2>4
<1>4. ASSUME NEW h \in Heads, NEW x \in Extent(p, o), x \in Extent(h, pgOrder[h])
      PROVE  h \in FreeHeads
  BY <1>1, <1>4
<1> DEFINE T == {pgOrder[h] : h \in FreeHeads \cap Extent(p, o)}
<1>5. p \in FreeHeads /\ p \in Extent(p, o)
  <2>1. p \in Extent(p, o)
    BY FirstPage
  <2>2. PICK h \in Heads : p \in Extent(h, pgOrder[h])
    BY <1>1 DEF Tiling
  <2>3. h \in FreeHeads
    BY <1>4, <2>1, <2>2
  <2>4. h = p
    <3> DEFINE r == pgOrder[h]
    <3>1. r \in Orders /\ r < o /\ h \in Pages /\ h % PageCount(r) = 0
      BY <1>3, <2>3, Zenon
    <3>2. p \in Extent(h, r)
      BY <2>2
    <3> HIDE DEF r
    <3>3. h \in Nat /\ p \in Nat /\ r <= o
      BY <1>2, <3>1
    <3> QED BY <3>1, <3>2, <3>3, AlignedInSmaller
  <2> QED BY <2>1, <2>3, <2>4
<1>6. T \in SUBSET Orders /\ T # {}
  BY <1>3, <1>5
<1>7. PICK m \in T : \A k \in T : m <= k
  BY <1>6, LeastOrder
<1>8. PICK h \in FreeHeads \cap Extent(p, o) : m = pgOrder[h]
  BY <1>7
<1> DEFINE b == BuddyOf(h, m)
<1>9. /\ m \in Orders /\ m < o /\ m < MAX_ORDER
      /\ h \in Pages /\ h % PageCount(m) = 0 /\ h \in Heads
  BY <1>1, <1>2, <1>3, <1>8, OrdersAssumption DEF Orders
<1>10. b \in Heads /\ pgOrder[b] <= m
  BY <1>1, <1>8, <1>9, BuddyIsHead
<1>11. b \in Pages /\ b % PageCount(m) = 0 /\ BuddyOf(b, m) = h
  BY <1>9, BuddyFacts
<1> HIDE DEF b, T
<1>12. b \in Extent(p, o)
  BY <1>2, <1>8, <1>9, <1>11, BuddyInLarger
<1>13. b \in FreeHeads
  <2>1. pgOrder[b] \in Orders
    BY <1>1, <1>10 DEF Tiling
  <2>2. b \in Extent(b, pgOrder[b])
    BY <2>1, <1>11, FirstPage
  <2> QED BY <2>2, <1>4, <1>10, <1>12
<1>14. pgOrder[b] = m
  <2>1. pgOrder[b] \in T
    BY <1>12, <1>13 DEF T
  <2>2. m <= pgOrder[b]
    BY <2>1, <1>7
  <2>3. pgOrder[b] \in Nat /\ m \in Nat
    BY <1>2, <1>3, <1>9, <1>13
  <2> QED BY <2>2, <2>3, <1>10
<1>15. b \in Linked(m) /\ h \in Linked(m)
  BY <1>3, <1>8, <1>13, <1>14
<1> QED BY <1>9, <1>15 DEF Coalesced, b

\* Blocks that stay allocated are the same blocks to the callers.
LEMMA SameBlocks ==
  ASSUME IInv, [Next]_vars, live' = live
  PROVE  {<<p, pgOrder'[p]>> : p \in live'} = {<<p, pgOrder[p]>> : p \in live}
BY StepLeavesLiveBlocks

\* A call that returns NULL refuses.
LEMMA FailRefuses ==
  ASSUME PromiseInv, NEW bytes \in Sizes, AllocFail(bytes)
  PROVE  Promise!Refused(bytes)
<1>1. /\ pc = "idle" /\ ret' = <<bytes, NULL>>
      /\ UNCHANGED <<live, pgOrder, size>>
  BY DEF AllocFail
<1>2. size = 0
  BY <1>1 DEF PromiseInv, RequestKept
<1>3. ASSUME NEW o \in Orders, Promise!OrderOf(bytes, o), NEW p \in Pages, Promise!Room(p, o)
      PROVE  FALSE
  <2>1. bytes \in Int
    BY SizesAssumption
  <2>2. bytes > 0 /\ bytes <= 2^MAX_ORDER
    <3>1. 2^o \in Nat /\ 2^MAX_ORDER \in Nat /\ 2^o <= 2^MAX_ORDER
      BY PowersGrow, OrdersAssumption DEF Orders
    <3>2. bytes > 0 /\ bytes <= 2^o
      BY <1>3 DEF Promise!OrderOf
    <3> QED BY <2>1, <3>1, <3>2
  <2>3. PICK q \in Orders : Fits(bytes, q) /\ \A f \in q..MAX_ORDER : list_empty(free_area[f])
    BY <2>1, <2>2, OrdersAssumption, PowersGrow DEF AllocFail
  <2>4. o = q
    BY <1>3, <2>1, <2>3, OrderUnique
  <2>5. /\ p % PageCount(o) = 0
        /\ \A q2 \in live : Extent(p, o) \cap Extent(q2, pgOrder[q2]) = {}
    <3>1. /\ p % Promise!PageCount(o) = 0
          /\ \A b \in {<<q2, pgOrder[q2]>> : q2 \in live} :
               Promise!Extent(p, o) \cap Promise!Extent(b[1], b[2]) = {}
      BY <1>3 DEF Promise!Room
    <3>2. p % PageCount(o) = 0
      BY <3>1, SameExtents, Zenon
    <3>3. ASSUME NEW q2 \in live PROVE Extent(p, o) \cap Extent(q2, pgOrder[q2]) = {}
      <4> DEFINE b == <<q2, pgOrder[q2]>>
      <4>1. Promise!Extent(p, o) \cap Promise!Extent(b[1], b[2]) = {}
        BY <3>1, Zenon
      <4>2. b[1] = q2 /\ b[2] = pgOrder[q2]
        OBVIOUS
      <4> HIDE DEF b
      <4> QED BY <4>1, <4>2, SameExtents, Zenon
    <3> QED BY <3>2, <3>3
  <2> QED BY <1>1, <2>3, <2>4, <2>5, NoRoom DEF PromiseInv
<1> QED BY <1>1, <1>2, <1>3
        DEF Promise!Refused, Promise!Orders, Orders, Promise!Pages, Pages,
            Promise!PageCount, PageCount

\* The address that buddy_alloc returns is that of a block that was free.
LEMMA ReturnGrants ==
  ASSUME PromiseInv, AllocReturn
  PROVE  Promise!Granted
<1> USE DEF PromiseInv, IInv
<1>1. /\ pc = "split" /\ ~(found_order > order)
      /\ pgOrder' = [pgOrder EXCEPT ![page] = order]
      /\ live' = live \cup {page}
      /\ ret' = <<size, page>> /\ size' = 0
  BY DEF AllocReturn, NoLocals
<1>2. page \in Pages /\ order \in Orders /\ pgOrder[page] = order /\ pgOrder' = pgOrder
  <2>1. found_order = order
    BY <1>1, OrdersAssumption DEF TypeOK, ListsMatchDescriptors, Orders
  <2> QED BY <2>1, <1>1 DEF TypeOK, ListsMatchDescriptors
<1>3. page \in Heads /\ live \subseteq Heads /\ page \notin live
  BY <1>1 DEF Heads, InFlight, ListsMatchDescriptors
<1>4. page % PageCount(order) = 0 /\ Extent(page, order) \subseteq Pages
  BY <1>2, <1>3, ExtentInMemory DEF BlocksTileMemory, Tiling
<1>5. \A q \in live : Extent(page, order) \cap Extent(q, pgOrder[q]) = {}
  BY <1>2, <1>3 DEF BlocksTileMemory, Tiling
<1>6. Promise!OrderOf(size, order)
  BY <1>1 DEF RequestKept, Fits, Promise!OrderOf
<1>7. Promise!Room(page, order)
  BY <1>4, <1>5 DEF Promise!Room, Promise!Pages, Pages, Promise!PageCount, PageCount,
                    Promise!Extent, Extent
<1>8. {<<q, pgOrder'[q]>> : q \in live'} = {<<q, pgOrder[q]>> : q \in live} \cup {<<page, order>>}
  BY <1>1, <1>2
<1>9. order \in Promise!Orders /\ page \in Promise!Pages
  BY <1>2 DEF Promise!Orders, Orders, Promise!Pages, Pages, Promise!PageCount, PageCount
<1> QED BY <1>1, <1>6, <1>7, <1>8, <1>9 DEF Promise!Granted

\* The entry of buddy_free releases the block with the order it was given.
LEMMA FreeReleases ==
  ASSUME PromiseInv, NEW p \in Pages, FreeStart(p)
  PROVE  \E b \in {<<q, pgOrder[q]>> : q \in live} : Promise!Released(b)
<1>1. /\ p \in live /\ live' = live \ {p} /\ ret' = NoAnswer
      /\ pc = "idle" /\ UNCHANGED <<pgOrder, size>>
  BY DEF FreeStart, FreeEnter
<1>2. size = 0
  BY <1>1 DEF PromiseInv, RequestKept
<1>3. PICK b \in {<<q, pgOrder[q]>> : q \in live} : b = <<p, pgOrder[p]>>
  BY <1>1
<1>4. {<<q, pgOrder'[q]>> : q \in live'} = {<<q, pgOrder[q]>> : q \in live} \ {b}
  BY <1>1, <1>3
<1>5. Promise!Released(b)
  BY <1>1, <1>2, <1>4 DEF Promise!Released
<1> QED BY <1>5

\* Each step of the loops is a step of the promise, or none of its business.
LEMMA StepKeepsPromise ==
  ASSUME PromiseInv, [Next]_vars
  PROVE  [Promise!Next]_<<{<<p, pgOrder[p]>> : p \in live}, size, ret>>
<1>1. ASSUME NEW bytes \in Sizes, AllocFail(bytes) PROVE Promise!Next
  BY <1>1, FailRefuses DEF Promise!Next
<1>2. ASSUME NEW bytes \in Sizes, AllocTake(bytes) PROVE Promise!Next
  <2>1. Promise!Ask(bytes)
    BY <1>2 DEF AllocTake, PromiseInv, RequestKept, Promise!Ask
  <2> QED BY <2>1 DEF Promise!Next
<1>3. CASE AllocReturn
  BY <1>3, ReturnGrants DEF Promise!Next
<1>4. ASSUME NEW p \in Pages, FreeStart(p) PROVE Promise!Next
  BY <1>4, FreeReleases DEF Promise!Next
<1>5. CASE AllocSplit \/ FreeMerge \/ FreeInsert \/ UNCHANGED vars
  <2>1. UNCHANGED <<live, size, ret>>
    BY <1>5 DEF AllocSplit, FreeMerge, FreeInsert, NoLocals, vars, PromiseInv, RequestKept
  <2> QED BY <2>1, SameBlocks DEF PromiseInv
<1> QED BY <1>1, <1>2, <1>3, <1>4, <1>5 DEF Next, Step

\* buddy.c keeps its promise to its callers: buddy_alloc returns an aligned
\* block of the smallest sufficient order that overlaps no other, and NULL only
\* if no such block can be had.
THEOREM KeepsPromise == Spec => ImplementsPromise
<1>1. Init => Promise!Init
  BY DEF Init, Promise!Init
<1> QED BY <1>1, StepKeepsPromise, AlwaysPromiseInv, PTL DEF Spec, ImplementsPromise, Promise!Spec

-----------------------------------------------------------------------------
(* The simulator calls the allocator legally, so that what is proved of Buddy *)
(* holds of the program, and its variables own the blocks they hold.          *)

VarStruct == [mem : Pages \cup {NULL}, in_use : BOOLEAN]

\* A variable that no command is working on, as long as no command has failed:
\* a held block is allocated, and is held by this variable only.  (The block of
\* the variable of the running command is given up with the call: free releases
\* it, and alloc overwrites it.)
OthersOwn ==
  \A v \in Vars : v # var =>
    /\ var_map[v].in_use <=> var_map[v].mem # NULL
    /\ var_map[v].in_use => var_map[v].mem \in live
    /\ \A w \in Vars : w # var /\ w # v /\ var_map[v].in_use
                         => var_map[v].mem # var_map[w].mem

\* The inductive invariant of the program is that of the allocator with this.
SimInv ==
  /\ var_map \in [Vars -> VarStruct]
  /\ var \in Vars \cup {NULL}
  /\ var = NULL <=> pc = "idle"
  /\ var # NULL => status = "SUCCESS"
  /\ status = "SUCCESS" => OthersOwn

-----------------------------------------------------------------------------
\* All variables are unused at the start.
LEMMA InitSimInv == SimInit => SimInv
<1> SUFFICES ASSUME SimInit PROVE SimInv
  OBVIOUS
<1>1. Unused \in VarStruct
  BY DEF Unused, VarStruct
<1>2. \A v \in Vars : var_map[v] = Unused
  BY DEF SimInit
<1>3. OthersOwn
  BY <1>2 DEF OthersOwn, Unused
<1> QED BY <1>1, <1>3 DEF SimInit, SimInv, Init

\* buddy_free is called with an allocated block: the call is the FreeStart of
\* the allocator's specification.
LEMMA FreesAllocatedBlock ==
  ASSUME IInv, SimInv, NEW v \in Vars, FreeCall(v)
  PROVE  /\ var_map[v].mem \in live
         /\ var_map[v].mem \in Pages
         /\ FreeStart(var_map[v].mem)
<1>1. v # var /\ status = "SUCCESS" /\ var_map[v].in_use /\ FreeEnter(var_map[v].mem)
  BY VarsAssumption DEF FreeCall, NextLine
<1>2. var_map[v].mem \in live
  BY <1>1 DEF SimInv, OthersOwn
<1> QED BY <1>1, <1>2 DEF FreeStart, IInv, TypeOK

\* Every step of the program is a step of the allocator, or leaves it alone.
LEMMA StepIsLegal == IInv /\ SimInv /\ [SimNext]_simVars => [Next]_vars
<1> SUFFICES ASSUME IInv, SimInv, [SimNext]_simVars PROVE [Next]_vars
  OBVIOUS
<1>1. ASSUME NEW v \in Vars, NEW bytes \in Sizes,
             AllocRefused(v, bytes) \/ AllocCall(v, bytes)
      PROVE  Next
  BY <1>1 DEF AllocRefused, AllocCall, Next
<1>2. ASSUME NEW v \in Vars, FreeCall(v) PROVE Next
  BY <1>2, FreesAllocatedBlock DEF Next
<1>3. ASSUME BadLine \/ \E v \in Vars : DoubleFree(v) PROVE UNCHANGED vars
  BY <1>3 DEF BadLine, DoubleFree
<1>4. ASSUME AllocDone \/ FreeDone \/ CallGoesOn PROVE Next
  BY <1>4 DEF AllocDone, FreeDone, CallGoesOn, Next, Step
<1> QED BY <1>1, <1>2, <1>3, <1>4 DEF SimNext, simVars

\* What the steps preserve.
LEMMA NextSimInv == IInv /\ SimInv /\ [SimNext]_simVars => SimInv'
<1> SUFFICES ASSUME IInv, SimInv, [SimNext]_simVars PROVE SimInv'
  OBVIOUS
<1> USE VarsAssumption
<1>1. CASE UNCHANGED simVars
  BY <1>1 DEF simVars, vars, SimInv, OthersOwn
<1>2. ASSUME NEW v \in Vars, BadLine \/ DoubleFree(v) PROVE SimInv'
  BY <1>2 DEF BadLine, DoubleFree, NextLine, vars, SimInv
<1>3. ASSUME BadLine PROVE SimInv'
  BY <1>3 DEF BadLine, NextLine, vars, SimInv
<1>4. ASSUME NEW v \in Vars, NEW bytes \in Sizes, AllocRefused(v, bytes) PROVE SimInv'
  <2>1. /\ var = NULL /\ var' = var /\ pc' = pc /\ status' = "OUTOFMEMORY"
        /\ var_map' = [var_map EXCEPT ![v].mem = NULL]
    BY <1>4 DEF AllocRefused, AllocFail, NextLine
  <2>2. var_map' \in [Vars -> VarStruct]
    BY <2>1 DEF SimInv, VarStruct
  <2> QED BY <2>1, <2>2 DEF SimInv
<1>5. ASSUME NEW v \in Vars, NEW bytes \in Sizes, AllocCall(v, bytes) PROVE SimInv'
  <2>1. /\ var = NULL /\ var' = v /\ pc' = "split" /\ status = "SUCCESS"
        /\ UNCHANGED <<var_map, status, live>>
    BY <1>5 DEF AllocCall, AllocTake, NextLine
  <2>2. OthersOwn'
    BY <2>1 DEF SimInv, OthersOwn
  <2> QED BY <2>1, <2>2 DEF SimInv
<1>6. ASSUME NEW v \in Vars, FreeCall(v) PROVE SimInv'
  <2>1. /\ var = NULL /\ var' = v /\ pc' = "merge" /\ status = "SUCCESS"
        /\ var_map[v].in_use
        /\ live' = live \ {var_map[v].mem}
        /\ UNCHANGED <<var_map, status>>
    BY <1>6 DEF FreeCall, FreeEnter, NextLine
  <2>2. OthersOwn'
    BY <2>1 DEF SimInv, OthersOwn
  <2> QED BY <2>1, <2>2 DEF SimInv
<1>7. CASE AllocDone
  <2>1. /\ pc = "split" /\ pc' = "idle"
        /\ live' = live \cup {page}
        /\ var_map' = [var_map EXCEPT ![var] = [mem |-> page, in_use |-> TRUE]]
        /\ var' = NULL /\ status' = status
    BY <1>7 DEF AllocDone, AllocReturn
  <2>2. page \in Pages /\ page \notin live
    BY <2>1 DEF IInv, TypeOK, ListsMatchDescriptors, InFlight
  <2>3. var \in Vars /\ status = "SUCCESS" /\ OthersOwn
    BY <2>1 DEF SimInv
  <2>4. var_map' \in [Vars -> VarStruct]
    BY <2>1, <2>2 DEF SimInv, VarStruct
  <2>5. /\ var_map'[var] = [mem |-> page, in_use |-> TRUE]
        /\ \A w \in Vars : w # var => var_map'[w] = var_map[w]
    BY <2>1, <2>3 DEF SimInv
  <2>6. OthersOwn'
    <3>1. page # NULL
      BY <2>2, NullAssumption
    <3>2. \A w \in Vars : w # var => var_map[w].mem # page
      BY <2>2, <2>3, <3>1 DEF OthersOwn
    <3> QED BY <2>1, <2>3, <2>5, <3>1, <3>2 DEF OthersOwn
  <2> QED BY <2>1, <2>3, <2>4, <2>6 DEF SimInv
<1>8. CASE FreeDone
  <2>1. /\ pc = "merge" /\ pc' = "idle"
        /\ var_map' = [var_map EXCEPT ![var] = Unused]
        /\ var' = NULL /\ UNCHANGED <<status, live>>
    BY <1>8 DEF FreeDone, FreeInsert
  <2>2. var \in Vars /\ status = "SUCCESS" /\ OthersOwn
    BY <2>1 DEF SimInv
  <2>3. Unused \in VarStruct /\ ~Unused.in_use /\ Unused.mem = NULL
    BY DEF Unused, VarStruct
  <2>4. var_map' \in [Vars -> VarStruct]
    BY <2>1, <2>3 DEF SimInv
  <2>5. var_map'[var] = Unused /\ \A w \in Vars : w # var => var_map'[w] = var_map[w]
    BY <2>1, <2>2 DEF SimInv
  <2>6. OthersOwn'
    BY <2>1, <2>2, <2>3, <2>5 DEF OthersOwn
  <2> QED BY <2>1, <2>2, <2>4, <2>6 DEF SimInv
<1>9. CASE CallGoesOn
  <2>1. /\ pc' = pc /\ live' = live /\ UNCHANGED <<var_map, var, status>>
    BY <1>9 DEF CallGoesOn, AllocSplit, FreeMerge
  <2> QED BY <2>1 DEF SimInv, OthersOwn
<1> QED BY <1>1, <1>2, <1>3, <1>4, <1>5, <1>6, <1>7, <1>8, <1>9 DEF SimNext

\* Both invariants, and with them the allocator's specification.
LEMMA AlwaysSimInv == SimSpec => [](IInv /\ SimInv)
<1>1. SimInit => IInv /\ SimInv
  BY InitIInv, InitSimInv DEF SimInit
<1>2. IInv /\ SimInv /\ [SimNext]_simVars => (IInv /\ SimInv)'
  BY StepIsLegal, NextIInv, NextSimInv
<1> QED BY <1>1, <1>2, PTL DEF SimSpec

-----------------------------------------------------------------------------
(* The theorems *)

\* Whatever its input, parse_free never gives buddy_free anything but an
\* allocated block: the program is one of the callers that Buddy assumes, and
\* all that is proved of Spec holds of it.
THEOREM CallsAreLegal == SimSpec => UsesAllocatorLegally
<1>1. SimInit => Init
  BY DEF SimInit
<1> QED BY <1>1, StepIsLegal, AlwaysSimInv, PTL DEF SimSpec, UsesAllocatorLegally, Spec

\* Between commands the variables in use hold different allocated blocks, and
\* in_use says of a variable what its mem says.
THEOREM VariablesAlwaysOwn == SimSpec => []VariablesOwnBlocks
<1>1. IInv /\ SimInv => VariablesOwnBlocks
  BY VarsAssumption DEF SimInv, OthersOwn, VariablesOwnBlocks, NextLine, Held
<1> QED BY <1>1, AlwaysSimInv, PTL
================================================================================
