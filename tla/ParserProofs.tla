------------------------------ MODULE ParserProofs ------------------------------
(***************************************************************************)
(* What the parser of quash relies on.  The strings that it gets from      *)
(* memory_pool.c never overlap, whatever malloc answers and however many   *)
(* pools are made; and interpret_complex_string_token, which scans a token *)
(* one character at a time, builds what the pieces of the token mean.      *)
(***************************************************************************)
EXTENDS MemoryPool, StringToken, FiniteSetTheorems, SequenceTheorems,
        WellFoundedInduction, TLAPS

-----------------------------------------------------------------------------
(* The pools *)

PoolRecords == [pool : Nat, size : Nat, next : Nat]
Parts == [block : Nat, first : Nat, size : Nat]

\* What the memory manager counts on, of the pools c, the blocks h that are not
\* freed and the parts g that were handed out: a pool knows where the last part
\* of its block ends, and a part is in the block of a pool.
PoolOfBlock(c, h) ==
  /\ c \in Seq(PoolRecords)
  /\ DOMAIN h = {c[k].pool : k \in DOMAIN c} \ {0}
  /\ IsFiniteSet(DOMAIN h)
  /\ \A j, k \in DOMAIN c : j # k /\ c[j].pool = c[k].pool => c[j].pool = 0
  /\ \A k \in DOMAIN c :
       c[k].pool # 0 => c[k].size = h[c[k].pool] /\ c[k].next <= c[k].size
  /\ \A k \in DOMAIN c : c[k].pool = 0 => c[k].size = 0

PartsApart(g) ==
  \A j, k \in DOMAIN g :
    j # k /\ g[j].block = g[k].block =>
      \/ g[j].first + g[j].size <= g[k].first
      \/ g[k].first + g[k].size <= g[j].first

PartsRecorded(c, h, g) ==
  \A part \in DOMAIN g :
    /\ g[part].block \in DOMAIN h
    /\ \A k \in DOMAIN c : c[k].pool = g[part].block => g[part].first + g[part].size <= c[k].next

Store(c, h, g) ==
  PoolOfBlock(c, h) /\ g \in Seq(Parts) /\ PartsApart(g) /\ PartsRecorded(c, h, g)

-----------------------------------------------------------------------------
(* What the operations do to the store *)

\* 2^n is a number: it is how many subsets a set of n elements has.
LEMMA PowerIsNatural ==
  ASSUME NEW n \in Nat
  PROVE  2^n \in Nat
<1>1. IsFiniteSet(1..n) /\ Cardinality(1..n) = n
  BY FS_Interval
<1>2. IsFiniteSet(SUBSET (1..n)) /\ Cardinality(SUBSET (1..n)) = 2^n
  BY <1>1, FS_SUBSET
<1> QED BY <1>2, FS_CardinalityType

\* There is a block that malloc can return.
LEMMA FreshBlock ==
  ASSUME NEW D, IsFiniteSet(D)
  PROVE  \E b \in 1..(Cardinality(D) + 1) : b \notin D
<1>1. Cardinality(D) \in Nat
  BY FS_CardinalityType
<1>2. SUFFICES ASSUME 1..(Cardinality(D) + 1) \subseteq D PROVE FALSE
  OBVIOUS
<1>3. Cardinality(1..(Cardinality(D) + 1)) <= Cardinality(D)
  BY <1>2, FS_Subset
<1>4. Cardinality(1..(Cardinality(D) + 1)) = Cardinality(D) + 1
  BY <1>1, FS_Interval
<1> QED BY <1>1, <1>3, <1>4

\* A pool of a new block holds no part yet.
LEMMA NewBlock ==
  ASSUME NEW c, NEW h, NEW g, Store(c, h, g),
         NEW b \in Nat \ {0}, b \notin DOMAIN h, NEW size \in Nat
  PROVE  Store(Append(c, [pool |-> b, size |-> size, next |-> 0]),
               [x \in DOMAIN h \cup {b} |-> IF x = b THEN size ELSE h[x]], g)
<1> DEFINE r == [pool |-> b, size |-> size, next |-> 0]
           c2 == Append(c, r)
           h2 == [x \in DOMAIN h \cup {b} |-> IF x = b THEN size ELSE h[x]]
<1>1. c \in Seq(PoolRecords) /\ r \in PoolRecords
  BY DEF Store, PoolOfBlock, PoolRecords
<1>2. /\ c2 \in Seq(PoolRecords) /\ Len(c) \in Nat
      /\ DOMAIN c = 1..Len(c) /\ DOMAIN c2 = 1..(Len(c) + 1)
      /\ \A k \in DOMAIN c : c2[k] = c[k]
      /\ c2[Len(c) + 1] = r
  BY <1>1
<1>3. r.pool = b /\ r.size = size /\ r.next = 0
  OBVIOUS
<1>4. /\ DOMAIN h2 = DOMAIN h \cup {b} /\ h2[b] = size
      /\ \A x \in DOMAIN h : h2[x] = h[x]
  OBVIOUS
<1> HIDE DEF r, c2, h2
<1>5. \A k \in DOMAIN c : c[k].pool # 0 => c[k].pool \in DOMAIN h
  BY DEF Store, PoolOfBlock
<1>6. \A k \in DOMAIN c2 : k \in DOMAIN c \/ k = Len(c) + 1
  BY <1>2
<1>7. DOMAIN c \subseteq DOMAIN c2 /\ Len(c) + 1 \in DOMAIN c2
  BY <1>2
<1>8. DOMAIN h2 = {c2[k].pool : k \in DOMAIN c2} \ {0}
  <2>1. ASSUME NEW x \in DOMAIN h2 PROVE x \in {c2[k].pool : k \in DOMAIN c2} \ {0}
    <3>1. CASE x = b
      BY <3>1, <1>2, <1>3, <1>7
    <3>2. CASE x \in DOMAIN h
      BY <3>2, <1>2, <1>7 DEF Store, PoolOfBlock
    <3> QED BY <2>1, <1>4, <3>1, <3>2
  <2>2. ASSUME NEW k \in DOMAIN c2, c2[k].pool # 0 PROVE c2[k].pool \in DOMAIN h2
    BY <2>2, <1>2, <1>3, <1>4, <1>5, <1>6
  <2> QED BY <2>1, <2>2
<1>9. IsFiniteSet(DOMAIN h2)
  <2>1. IsFiniteSet(DOMAIN h)
    BY DEF Store, PoolOfBlock
  <2>2. IsFiniteSet(DOMAIN h \cup {b})
    BY <2>1, FS_AddElement
  <2> QED BY <2>2, <1>4
<1>10. ASSUME NEW j \in DOMAIN c2, NEW k \in DOMAIN c2, j # k, c2[j].pool = c2[k].pool
       PROVE  c2[j].pool = 0
  BY <1>10, <1>2, <1>3, <1>5, <1>6 DEF Store, PoolOfBlock
<1>11. ASSUME NEW k \in DOMAIN c2, c2[k].pool # 0
       PROVE  c2[k].size = h2[c2[k].pool] /\ c2[k].next <= c2[k].size
  <2>1. CASE k \in DOMAIN c
    <3>1. c2[k] = c[k] /\ c[k].pool \in DOMAIN h
      BY <2>1, <1>2, <1>5, <1>11
    <3>2. c[k].size = h[c[k].pool] /\ c[k].next <= c[k].size
      BY <2>1, <3>1, <1>11 DEF Store, PoolOfBlock
    <3> QED BY <3>1, <3>2, <1>4
  <2>2. CASE k = Len(c) + 1
    BY <2>2, <1>2, <1>3, <1>4
  <2> QED BY <1>6, <2>1, <2>2
<1>12. PartsRecorded(c2, h2, g)
  BY <1>2, <1>3, <1>4, <1>6 DEF Store, PartsRecorded
<1>13. PoolOfBlock(c2, h2)
  <2>1. \A k \in DOMAIN c2 : c2[k].pool = 0 => c2[k].size = 0
    BY <1>2, <1>3, <1>6 DEF Store, PoolOfBlock
  <2> QED BY <1>2, <1>8, <1>9, <1>10, <1>11, <2>1 DEF PoolOfBlock
<1>14. Store(c2, h2, g)
  BY <1>12, <1>13 DEF Store
<1> QED BY <1>14 DEF c2, h2, r

\* A pool without a block changes nothing else.
LEMMA NewPlaceholder ==
  ASSUME NEW c, NEW h, NEW g, Store(c, h, g)
  PROVE  Store(Append(c, NullPool), h, g)
<1> DEFINE r == NullPool
           c2 == Append(c, r)
<1>1. c \in Seq(PoolRecords) /\ r \in PoolRecords
  BY DEF Store, PoolOfBlock, PoolRecords, NullPool
<1>2. /\ c2 \in Seq(PoolRecords) /\ Len(c) \in Nat
      /\ DOMAIN c = 1..Len(c) /\ DOMAIN c2 = 1..(Len(c) + 1)
      /\ \A k \in DOMAIN c : c2[k] = c[k]
      /\ c2[Len(c) + 1] = r
  BY <1>1
<1>3. r.pool = 0 /\ r.size = 0
  BY DEF NullPool
<1> HIDE DEF r, c2
<1>4. \A k \in DOMAIN c2 : k \in DOMAIN c \/ k = Len(c) + 1
  BY <1>2
<1>5. DOMAIN c \subseteq DOMAIN c2
  BY <1>2
<1>6. DOMAIN h = {c2[k].pool : k \in DOMAIN c2} \ {0}
  <2>1. ASSUME NEW x \in DOMAIN h PROVE x \in {c2[k].pool : k \in DOMAIN c2} \ {0}
    BY <1>2, <1>5 DEF Store, PoolOfBlock
  <2>2. ASSUME NEW k \in DOMAIN c2, c2[k].pool # 0 PROVE c2[k].pool \in DOMAIN h
    BY <2>2, <1>2, <1>3, <1>4 DEF Store, PoolOfBlock
  <2> QED BY <2>1, <2>2
<1>7. ASSUME NEW j \in DOMAIN c2, NEW k \in DOMAIN c2, j # k, c2[j].pool = c2[k].pool
      PROVE  c2[j].pool = 0
  BY <1>7, <1>2, <1>3, <1>4 DEF Store, PoolOfBlock
<1>8. ASSUME NEW k \in DOMAIN c2, c2[k].pool # 0
      PROVE  c2[k].size = h[c2[k].pool] /\ c2[k].next <= c2[k].size
  BY <1>8, <1>2, <1>3, <1>4 DEF Store, PoolOfBlock
<1>9. PartsRecorded(c2, h, g)
  <2>1. 0 \notin DOMAIN h
    BY DEF Store, PoolOfBlock
  <2> QED BY <2>1, <1>2, <1>3, <1>4 DEF Store, PartsRecorded
<1>10. PoolOfBlock(c2, h)
  <2>1. \A k \in DOMAIN c2 : c2[k].pool = 0 => c2[k].size = 0
    BY <1>2, <1>3, <1>4 DEF Store, PoolOfBlock
  <2> QED BY <1>2, <1>6, <1>7, <1>8, <2>1 DEF Store, PoolOfBlock
<1>11. Store(c2, h, g)
  BY <1>9, <1>10 DEF Store
<1> QED BY <1>11 DEF c2, r

\* Setting next leaves the other fields of a pool alone.
LEMMA NextSet ==
  ASSUME NEW old \in PoolRecords, NEW x \in Nat
  PROVE  LET b == [old EXCEPT !.next = x] IN
         /\ b \in PoolRecords
         /\ b.pool = old.pool /\ b.size = old.size /\ b.next = x
BY DEF PoolRecords

\* A part of the last block begins where the parts before it end.
LEMMA NewPart ==
  ASSUME NEW c, NEW h, NEW g, Store(c, h, g), NEW w \in Nat,
         Len(c) # 0, c[Len(c)].pool # 0, c[Len(c)].next + w <= c[Len(c)].size
  PROVE  Store([c EXCEPT ![Len(c)] = [c[Len(c)] EXCEPT !.next = @ + w]], h,
               Append(g, [block |-> c[Len(c)].pool, first |-> c[Len(c)].next, size |-> w]))
<1> DEFINE n == Len(c)
           old == c[n]
           r == [old EXCEPT !.next = @ + w]
           c2 == [c EXCEPT ![n] = r]
           p == [block |-> old.pool, first |-> old.next, size |-> w]
           g2 == Append(g, p)
<1>1. /\ c \in Seq(PoolRecords) /\ g \in Seq(Parts)
      /\ n \in Nat \ {0} /\ DOMAIN c = 1..n /\ n \in DOMAIN c
      /\ old \in PoolRecords
  BY DEF Store, PoolOfBlock
<1>2. /\ old.pool \in Nat \ {0} /\ old.size \in Nat /\ old.next \in Nat
      /\ old.next + w <= old.size
  BY <1>1 DEF PoolRecords
<1>3. /\ r.pool = old.pool /\ r.size = old.size /\ r.next = old.next + w
      /\ r \in PoolRecords
  <2>1. old.next + w \in Nat
    BY <1>2
  <2> HIDE DEF old
  <2>2. LET b == [old EXCEPT !.next = old.next + w] IN
        /\ b \in PoolRecords
        /\ b.pool = old.pool /\ b.size = old.size /\ b.next = old.next + w
    BY <1>1, <2>1, NextSet
  <2> QED BY <2>2
<1>4. /\ p.block = old.pool /\ p.first = old.next /\ p.size = w /\ p \in Parts
  BY <1>2 DEF Parts
<1>5. /\ c2 \in Seq(PoolRecords) /\ DOMAIN c2 = DOMAIN c /\ c2[n] = r
      /\ \A k \in DOMAIN c : k # n => c2[k] = c[k]
  <2> HIDE DEF r
  <2>1. c2 \in [1..n -> PoolRecords]
    BY <1>1, <1>3
  <2> QED BY <2>1, <1>1
<1>6. /\ g2 \in Seq(Parts) /\ Len(g) \in Nat
      /\ DOMAIN g = 1..Len(g) /\ DOMAIN g2 = 1..(Len(g) + 1)
      /\ \A k \in DOMAIN g : g2[k] = g[k]
      /\ g2[Len(g) + 1] = p
  <2> HIDE DEF p
  <2> QED BY <1>1, <1>4
<1>7. c[n] = old
  OBVIOUS
<1> HIDE DEF n, old, r, c2, p, g2
<1>8. ASSUME NEW k \in DOMAIN c PROVE c2[k].pool = c[k].pool /\ c2[k].size = c[k].size
  <2>1. CASE k = n
    BY <1>3, <1>5, <1>7, <2>1
  <2>2. CASE k # n
    BY <1>5, <2>2
  <2> QED BY <2>1, <2>2
<1>9. ASSUME NEW k \in DOMAIN c PROVE c[k].next \in Nat /\ c[k].pool \in Nat
  <2>1. c[k] \in PoolRecords
    BY <1>1
  <2> QED BY <2>1 DEF PoolRecords
<1>10. ASSUME NEW k \in DOMAIN c PROVE c2[k].next >= c[k].next
  <2>1. CASE k = n
    BY <1>2, <1>3, <1>5, <1>7, <2>1
  <2>2. CASE k # n
    BY <1>5, <1>9, <2>2
  <2> QED BY <2>1, <2>2
<1>11. ASSUME NEW part \in DOMAIN g PROVE g[part].first \in Nat /\ g[part].size \in Nat
  <2>1. g[part] \in Parts
    BY <1>1
  <2> QED BY <2>1 DEF Parts
<1>12. PoolOfBlock(c2, h)
  <2>1. DOMAIN h = {c2[k].pool : k \in DOMAIN c2} \ {0}
    <3>1. DOMAIN h = {c[k].pool : k \in DOMAIN c} \ {0}
      BY DEF Store, PoolOfBlock
    <3>2. {c2[k].pool : k \in DOMAIN c2} = {c[k].pool : k \in DOMAIN c}
      BY <1>5, <1>8
    <3> QED BY <3>1, <3>2
  <2>2. \A j, k \in DOMAIN c2 : j # k /\ c2[j].pool = c2[k].pool => c2[j].pool = 0
    <3>1. \A j, k \in DOMAIN c : j # k /\ c[j].pool = c[k].pool => c[j].pool = 0
      BY DEF Store, PoolOfBlock
    <3>2. \A k \in DOMAIN c : c2[k].pool = c[k].pool
      BY <1>8
    <3> QED BY <1>5, <3>1, <3>2
  <2>3. ASSUME NEW k \in DOMAIN c2, c2[k].pool # 0
        PROVE  c2[k].size = h[c2[k].pool] /\ c2[k].next <= c2[k].size
    <3>1. k \in DOMAIN c /\ c[k].pool # 0
      BY <2>3, <1>5, <1>8
    <3>2. c[k].size = h[c[k].pool] /\ c[k].next <= c[k].size
      BY <3>1 DEF Store, PoolOfBlock
    <3> QED BY <3>1, <3>2, <1>2, <1>3, <1>5, <1>7, <1>8
  <2>4. \A k \in DOMAIN c2 : c2[k].pool = 0 => c2[k].size = 0
    BY <1>5, <1>8 DEF Store, PoolOfBlock
  <2> QED BY <1>5, <2>1, <2>2, <2>3, <2>4 DEF Store, PoolOfBlock
<1>13. \A part \in DOMAIN g : g[part].block = old.pool => g[part].first + g[part].size <= old.next
  BY <1>1, <1>7 DEF Store, PartsRecorded
<1>14. \A part \in DOMAIN g2 : part \in DOMAIN g \/ part = Len(g) + 1
  BY <1>6
<1>15. PartsApart(g2)
  <2> SUFFICES ASSUME NEW j \in DOMAIN g2, NEW k \in DOMAIN g2, j # k,
                      g2[j].block = g2[k].block
               PROVE  \/ g2[j].first + g2[j].size <= g2[k].first
                      \/ g2[k].first + g2[k].size <= g2[j].first
    BY DEF PartsApart
  <2>1. CASE j \in DOMAIN g /\ k \in DOMAIN g
    BY <2>1, <1>6 DEF Store, PartsApart
  <2>2. CASE j \in DOMAIN g /\ k = Len(g) + 1
    BY <2>2, <1>4, <1>6, <1>13
  <2>3. CASE k \in DOMAIN g /\ j = Len(g) + 1
    BY <2>3, <1>4, <1>6, <1>13
  <2> QED BY <1>14, <2>1, <2>2, <2>3
<1>16. PartsRecorded(c2, h, g2)
  <2> SUFFICES ASSUME NEW part \in DOMAIN g2
               PROVE  /\ g2[part].block \in DOMAIN h
                      /\ \A k \in DOMAIN c2 : c2[k].pool = g2[part].block =>
                           g2[part].first + g2[part].size <= c2[k].next
    BY DEF PartsRecorded
  <2>1. CASE part \in DOMAIN g
    <3>1. g2[part] = g[part] /\ g[part].block \in DOMAIN h
      BY <2>1, <1>6 DEF Store, PartsRecorded
    <3>2. ASSUME NEW k \in DOMAIN c2, c2[k].pool = g[part].block
          PROVE  g[part].first + g[part].size <= c2[k].next
      <4>1. k \in DOMAIN c /\ c[k].pool = g[part].block
        BY <3>2, <1>5, <1>8
      <4>2. g[part].first + g[part].size <= c[k].next
        BY <2>1, <4>1 DEF Store, PartsRecorded
      <4>3. c2[k].next >= c[k].next /\ c[k].next \in Nat
        BY <4>1, <1>9, <1>10
      <4>4. g[part].first \in Nat /\ g[part].size \in Nat
        BY <2>1, <1>11
      <4>5. c2[k].next \in Nat
        BY <4>1, <4>3, <1>2, <1>3, <1>5
      <4> QED BY <4>2, <4>3, <4>4, <4>5
    <3> QED BY <3>1, <3>2
  <2>2. CASE part = Len(g) + 1
    <3>1. g2[part].block = old.pool /\ g2[part].first + g2[part].size = r.next
      BY <2>2, <1>3, <1>4, <1>6
    <3>2. old.pool \in DOMAIN h
      BY <1>1, <1>2, <1>7 DEF Store, PoolOfBlock
    <3>3. ASSUME NEW k \in DOMAIN c2, c2[k].pool = old.pool PROVE k = n
      BY <3>3, <1>1, <1>2, <1>5, <1>7, <1>8 DEF Store, PoolOfBlock
    <3>4. r.next \in Nat
      BY <1>2, <1>3
    <3> QED BY <3>1, <3>2, <3>3, <3>4, <1>5
  <2> QED BY <1>14, <2>1, <2>2
<1>17. Store(c2, h, g2)
  BY <1>6, <1>12, <1>15, <1>16 DEF Store
<1> QED BY <1>17 DEF c2, g2, p, r, old, n

\* Before there is any pool.
LEMMA EmptyStore ==
  ASSUME NEW h, DOMAIN h = {}
  PROVE  Store(<<>>, h, <<>>)
<1>1. IsFiniteSet(DOMAIN h)
  BY FS_EmptySet
<1>2. <<>> \in Seq(PoolRecords) /\ <<>> \in Seq(Parts) /\ DOMAIN <<>> = {}
  OBVIOUS
<1> QED BY <1>1, <1>2 DEF Store, PoolOfBlock, PartsApart, PartsRecorded
-----------------------------------------------------------------------------
(* The deque of the pools *)

\* An index that has gone around the buffer once at most.
LEMMA WrapOnce ==
  ASSUME NEW n \in Nat \ {0}, NEW a \in 0..(2 * n - 1)
  PROVE  a % n = IF a < n THEN a ELSE a - n
<1>1. CASE a < n
  BY <1>1
<1>2. CASE a >= n
  <2> DEFINE q == a \div n
  <2>1. /\ q \in Int /\ a % n \in 0..(n - 1)
        /\ a = n * q + (a % n)
    OBVIOUS
  <2>2. ~(q <= 0)
    <3>1. q <= 0 => n * q <= 0
      BY <2>1
    <3> QED BY <1>2, <2>1, <3>1
  <2>3. ~(q >= 2)
    <3>1. q >= 2 => n * q >= 2 * n
      BY <2>1
    <3> QED BY <2>1, <3>1
  <2>4. q = 1
    BY <2>1, <2>2, <2>3
  <2> QED BY <1>2, <2>1, <2>4
<1> QED BY <1>1, <1>2

\* Pools are never popped, so that they begin at the first slot.
IsRow(d) ==
  /\ DOMAIN d = {"data", "cap", "front", "back", "destructor"}
  /\ d.cap \in Nat \ {0}
  /\ d.front = 0
  /\ d.back \in 0..(d.cap - 1)
  /\ d.data \in [0..(d.cap - 1) -> PoolRecords]

\* What the deque answers then.
LEMMA RowFacts ==
  ASSUME NEW d, IsRow(d)
  PROVE  /\ Pools!Valid(d)
         /\ d.back \in Nat
         /\ Pools!length(d) = d.back
         /\ Pools!is_empty(d) <=> d.back = 0
         /\ \A k \in 0..(d.cap - 1) : Pools!Slot(d, k) = d.data[k]
         /\ Pools!Contents(d) = [k \in 1..d.back |-> d.data[k - 1]]
         /\ d.back # 0 => Pools!Last(d) = d.back - 1
<1>1. d.cap \in Nat \ {0} /\ d.front = 0 /\ d.back \in 0..(d.cap - 1)
  BY DEF IsRow
<1>2. \A k \in 0..(d.cap - 1) : (d.front + k) % d.cap = k
  BY <1>1, WrapOnce
<1>3. Pools!length(d) = d.back
  <2> DEFINE a == d.back - d.front + d.cap
  <2>1. a \in 0..(2 * d.cap - 1) /\ ~(a < d.cap) /\ a - d.cap = d.back
    BY <1>1
  <2> HIDE DEF a
  <2>2. a % d.cap = d.back
    BY <1>1, <2>1, WrapOnce
  <2> QED BY <2>2 DEF Pools!length, a
<1>4. \A k \in 0..(d.cap - 1) : Pools!Slot(d, k) = d.data[k]
  BY <1>2 DEF Pools!Slot
<1>5. Pools!Contents(d) = [k \in 1..d.back |-> d.data[k - 1]]
  <2>1. Pools!Contents(d) = [k \in 1..d.back |-> Pools!Slot(d, k - 1)]
    BY <1>3 DEF Pools!Contents
  <2>2. \A k \in 1..d.back : k - 1 \in 0..(d.cap - 1)
    BY <1>1
  <2> QED BY <1>4, <2>1, <2>2
<1>6. ASSUME d.back # 0 PROVE Pools!Last(d) = d.back - 1
  <2> DEFINE a == d.back + d.cap - 1
  <2>1. a \in 0..(2 * d.cap - 1) /\ ~(a < d.cap) /\ a - d.cap = d.back - 1
    BY <1>1, <1>6
  <2> HIDE DEF a
  <2>2. a % d.cap = d.back - 1
    BY <1>1, <2>1, WrapOnce
  <2> QED BY <2>2 DEF Pools!Last, a
<1> QED BY <1>1, <1>3, <1>4, <1>5, <1>6 DEF Pools!Valid, Pools!is_empty

\* The peeks are the first and the last of the contents.
LEMMA RowPeeks ==
  ASSUME NEW d, IsRow(d), d.back # 0
  PROVE  /\ Len(Pools!Contents(d)) = d.back
         /\ Pools!peek_front(d) = Pools!Contents(d)[1]
         /\ Pools!peek_back(d) = Pools!Contents(d)[d.back]
<1>1. d.back \in Nat \ {0} /\ d.front = 0
  BY RowFacts DEF IsRow
<1>2. Pools!Contents(d) = [k \in 1..d.back |-> d.data[k - 1]]
  BY RowFacts
<1>3. Pools!Last(d) = d.back - 1
  BY RowFacts
<1> QED BY <1>1, <1>2, <1>3 DEF Pools!peek_front, Pools!peek_back

\* A pool is added behind the others, in a larger buffer when it is full.
LEMMA RowPush ==
  ASSUME NEW d, IsRow(d), NEW e \in PoolRecords
  PROVE  /\ IsRow(Pools!push_back(d, e))
         /\ Pools!Contents(Pools!push_back(d, e)) = Append(Pools!Contents(d), e)
<1> DEFINE g == Pools!on_push(d)
           p == Pools!push_back(d, e)
<1>1. /\ d.cap \in Nat \ {0} /\ d.front = 0 /\ d.back \in 0..(d.cap - 1)
      /\ d.data \in [0..(d.cap - 1) -> PoolRecords]
      /\ DOMAIN d = {"data", "cap", "front", "back", "destructor"}
  BY DEF IsRow
<1>2. (d.back + 1) % d.cap = IF d.back + 1 < d.cap THEN d.back + 1 ELSE 0
  <2> DEFINE a == d.back + 1
  <2>1. a \in 0..(2 * d.cap - 1) /\ (~(a < d.cap) => a - d.cap = 0)
    BY <1>1
  <2> HIDE DEF a
  <2>2. a % d.cap = IF a < d.cap THEN a ELSE 0
    BY <1>1, <2>1, WrapOnce
  <2> QED BY <2>2 DEF a
<1>3. /\ IsRow(g) /\ g.back = d.back /\ g.back + 1 < g.cap
      /\ \A k \in 0..(d.back - 1) : g.data[k] = d.data[k]
  <2>1. CASE d.back + 1 < d.cap
    <3>1. g = d
      BY <1>1, <1>2, <2>1 DEF Pools!on_push
    <3> QED BY <1>1, <2>1, <3>1
  <2>2. CASE ~(d.back + 1 < d.cap)
    <3>1. d.back = d.cap - 1 /\ d.front = (d.back + 1) % d.cap
      BY <1>1, <1>2, <2>2
    <3> DEFINE new == [k \in 0..(2 * d.cap - 1) |-> IF k < d.cap - 1 THEN Pools!Slot(d, k)
                                                                    ELSE NullPool]
    <3>2. g = [data |-> new, cap |-> 2 * d.cap, front |-> 0, back |-> d.cap - 1,
               destructor |-> d.destructor]
      BY <3>1 DEF Pools!on_push
    <3>3. \A k \in 0..(d.back - 1) : new[k] = d.data[k]
      <4>1. \A k \in 0..(d.back - 1) : new[k] = Pools!Slot(d, k)
        BY <1>1, <3>1
      <4>2. \A k \in 0..(d.back - 1) : k \in 0..(d.cap - 1)
        BY <1>1
      <4> QED BY <4>1, <4>2, RowFacts
    <3>4. new \in [0..(2 * d.cap - 1) -> PoolRecords]
      <4>1. NullPool \in PoolRecords
        BY DEF NullPool, PoolRecords
      <4>2. ASSUME NEW k \in 0..(2 * d.cap - 1), k < d.cap - 1
            PROVE  Pools!Slot(d, k) \in PoolRecords
        <5>1. k \in 0..(d.cap - 1)
          BY <1>1, <4>2
        <5> QED BY <5>1, <1>1, RowFacts
      <4> QED BY <4>1, <4>2
    <3> HIDE DEF new, g
    <3>5. /\ g.data = new /\ g.cap = 2 * d.cap /\ g.front = 0 /\ g.back = d.cap - 1
          /\ DOMAIN g = {"data", "cap", "front", "back", "destructor"}
      BY <3>2
    <3>6. IsRow(g)
      BY <1>1, <3>4, <3>5 DEF IsRow
    <3>7. g.back = d.back /\ g.back + 1 < g.cap
      BY <1>1, <3>1, <3>5
    <3> QED BY <3>3, <3>5, <3>6, <3>7
  <2> QED BY <2>1, <2>2
<1> HIDE DEF g
<1>4. /\ g.cap \in Nat \ {0} /\ g.front = 0 /\ g.back \in 0..(g.cap - 1)
      /\ g.data \in [0..(g.cap - 1) -> PoolRecords]
      /\ DOMAIN g = {"data", "cap", "front", "back", "destructor"}
  BY <1>3 DEF IsRow
<1>5. (g.back + 1) % g.cap = g.back + 1
  <2> DEFINE a == g.back + 1
  <2>1. a \in 0..(2 * g.cap - 1) /\ a < g.cap
    BY <1>3, <1>4
  <2> HIDE DEF a
  <2>2. a % g.cap = a
    BY <1>4, <2>1, WrapOnce
  <2> QED BY <2>2 DEF a
<1> DEFINE data == [g.data EXCEPT ![g.back] = e]
<1>6. p = [g EXCEPT !.data = data, !.back = (g.back + 1) % g.cap]
  BY DEF Pools!push_back, g
<1>7. /\ data \in [0..(g.cap - 1) -> PoolRecords] /\ data[g.back] = e
      /\ \A k \in 0..(g.back - 1) : data[k] = g.data[k]
  BY <1>4
<1> HIDE DEF p, data
<1>8. /\ p.data = data /\ p.back = g.back + 1 /\ p.cap = g.cap /\ p.front = 0
      /\ DOMAIN p = {"data", "cap", "front", "back", "destructor"}
  BY <1>4, <1>5, <1>6
<1>9. IsRow(p)
  BY <1>3, <1>4, <1>7, <1>8 DEF IsRow
<1>10. Pools!Contents(p) = [k \in 1..(d.back + 1) |-> data[k - 1]]
  BY <1>3, <1>8, <1>9, RowFacts
<1>11. /\ Pools!Contents(d) = [k \in 1..d.back |-> d.data[k - 1]]
       /\ Len(Pools!Contents(d)) = d.back
  BY <1>1, RowFacts
<1>12. Append(Pools!Contents(d), e) = [k \in 1..(d.back + 1) |->
         IF k = d.back + 1 THEN e ELSE d.data[k - 1]]
  BY <1>1, <1>11
<1>13. ASSUME NEW k \in 1..(d.back + 1)
       PROVE  data[k - 1] = IF k = d.back + 1 THEN e ELSE d.data[k - 1]
  <2>1. CASE k = d.back + 1
    <3>1. k - 1 = g.back
      BY <1>1, <1>3, <2>1
    <3> QED BY <2>1, <3>1, <1>7
  <2>2. CASE k # d.back + 1
    <3>1. k - 1 \in 0..(d.back - 1) /\ k - 1 \in 0..(g.back - 1)
      BY <1>1, <1>3, <2>2
    <3>2. data[k - 1] = g.data[k - 1] /\ g.data[k - 1] = d.data[k - 1]
      BY <1>3, <1>7, <3>1
    <3> QED BY <2>2, <3>2
  <2> QED BY <2>1, <2>2
<1>14. Pools!Contents(p) = Append(Pools!Contents(d), e)
  BY <1>10, <1>12, <1>13
<1> QED BY <1>9, <1>14 DEF p

\* The record of the last pool is replaced.
LEMMA RowUpdate ==
  ASSUME NEW d, IsRow(d), d.back # 0, NEW e \in PoolRecords
  PROVE  /\ IsRow(Pools!update_back(d, e))
         /\ Pools!Contents(Pools!update_back(d, e)) = [Pools!Contents(d) EXCEPT ![d.back] = e]
<1> DEFINE p == Pools!update_back(d, e)
           data == [d.data EXCEPT ![d.back - 1] = e]
<1>1. /\ d.cap \in Nat \ {0} /\ d.front = 0 /\ d.back \in 1..(d.cap - 1)
      /\ d.data \in [0..(d.cap - 1) -> PoolRecords]
      /\ DOMAIN d = {"data", "cap", "front", "back", "destructor"}
  BY DEF IsRow
<1>2. p = [d EXCEPT !.data = data]
  BY RowFacts DEF Pools!update_back
<1>3. /\ data \in [0..(d.cap - 1) -> PoolRecords] /\ data[d.back - 1] = e
      /\ \A k \in 0..(d.back - 2) : data[k] = d.data[k]
  BY <1>1
<1> HIDE DEF p, data
<1>4. /\ p.data = data /\ p.back = d.back /\ p.cap = d.cap /\ p.front = 0
      /\ DOMAIN p = {"data", "cap", "front", "back", "destructor"}
  BY <1>1, <1>2
<1>5. IsRow(p)
  BY <1>1, <1>3, <1>4 DEF IsRow
<1>6. Pools!Contents(p) = [k \in 1..d.back |-> data[k - 1]]
  BY <1>4, <1>5, RowFacts
<1>7. Pools!Contents(d) = [k \in 1..d.back |-> d.data[k - 1]]
  BY RowFacts
<1>8. ASSUME NEW k \in 1..d.back
      PROVE  data[k - 1] = IF k = d.back THEN e ELSE d.data[k - 1]
  <2>1. CASE k = d.back
    BY <2>1, <1>3
  <2>2. CASE k # d.back
    <3>1. k - 1 \in 0..(d.back - 2)
      BY <1>1, <2>2
    <3> QED BY <2>2, <3>1, <1>3
  <2> QED BY <2>1, <2>2
<1>9. [Pools!Contents(d) EXCEPT ![d.back] = e]
        = [k \in 1..d.back |-> IF k = d.back THEN e ELSE d.data[k - 1]]
  BY <1>7
<1>10. Pools!Contents(p) = [Pools!Contents(d) EXCEPT ![d.back] = e]
  BY <1>6, <1>8, <1>9
<1> QED BY <1>5, <1>10 DEF p

\* A new deque has no pools.
LEMMA RowNew ==
  LET d == Pools!new_destructable(POOL_CAP, TRUE)
  IN IsRow(d) /\ Pools!Contents(d) = <<>>
<1> DEFINE d == Pools!new_destructable(POOL_CAP, TRUE)
           data == [k \in 0..(POOL_CAP - 1) |-> NullPool]
<1>1. POOL_CAP \in Nat \ {0}
  BY PoolAssumption
<1>2. /\ d.data = data /\ d.cap = POOL_CAP /\ d.front = 0 /\ d.back = 0
      /\ DOMAIN d = {"data", "cap", "front", "back", "destructor"}
  BY <1>1 DEF Pools!new_destructable
<1>3. data \in [0..(POOL_CAP - 1) -> PoolRecords]
  BY DEF NullPool, PoolRecords
<1> HIDE DEF d, data
<1>4. IsRow(d) /\ d.back = 0
  BY <1>1, <1>2, <1>3 DEF IsRow
<1>5. Pools!Contents(d) = [k \in 1..0 |-> d.data[k - 1]]
  BY <1>4, RowFacts
<1>6. Pools!Contents(d) = <<>>
  BY <1>5
<1> QED BY <1>4, <1>6 DEF d

-----------------------------------------------------------------------------
(* The inductive invariant *)

PoolTypeOK ==
  /\ Pools!Valid(pool_deq) => IsRow(pool_deq)
  /\ pool \in PoolRecords
  /\ wanted \in Nat /\ failed \in Nat
  /\ given \in Seq(Parts)
  /\ pool_at \in {"out", "fit", "low", "exit"}

\* In memory_pool_alloc pool is the copy of the last record, except while a
\* block is looked for, and the last pool has a block between two calls.
InCall ==
  /\ pool_at = "fit" => AllPools # <<>> /\ pool = AllPools[Len(AllPools)]
  /\ pool_at \in {"fit", "low"} => wanted # 0 /\ Pools!Valid(pool_deq)
  /\ pool_at = "out" /\ Pools!Valid(pool_deq) =>
       AllPools # <<>> /\ AllPools[Len(AllPools)].pool # 0

\* At the end everything is freed, and parts of it may have been handed out.
AtExit == DOMAIN heap = {} /\ ~Pools!Valid(pool_deq) /\ PartsApart(given)

PoolInv ==
  /\ PoolTypeOK /\ InCall
  /\ IF pool_at = "exit" THEN AtExit ELSE Store(AllPools, heap, given)

LEMMA InvariantSound ==
  ASSUME PoolInv
  PROVE  PoolsSound
<1>1. CASE pool_at = "exit"
  <2>1. AllPools = <<>> /\ Blocks = {}
    BY <1>1 DEF PoolInv, AtExit, AllPools, Blocks
  <2>2. DOMAIN AllPools = {}
    BY <2>1
  <2> QED BY <1>1, <2>1, <2>2
          DEF PoolInv, AtExit, PartsApart, PoolsSound, GivenApart, BlocksOwned
<1>2. CASE pool_at # "exit"
  <2>1. Store(AllPools, heap, given)
    BY <1>2 DEF PoolInv
  <2>2. BlocksOwned
    BY <2>1 DEF Store, PoolOfBlock, BlocksOwned, Blocks
  <2>3. ASSUME NEW part \in DOMAIN given
        PROVE  given[part].block \in DOMAIN heap
               /\ given[part].first + given[part].size <= heap[given[part].block]
    <3>1. given[part].block \in DOMAIN heap
      BY <2>1, <2>3 DEF Store, PartsRecorded
    <3>2. PICK k \in DOMAIN AllPools : AllPools[k].pool = given[part].block /\ AllPools[k].pool # 0
      BY <2>1, <3>1 DEF Store, PoolOfBlock
    <3>3. /\ AllPools[k].size = heap[given[part].block] /\ AllPools[k].next <= AllPools[k].size
          /\ given[part].first + given[part].size <= AllPools[k].next
      BY <2>1, <2>3, <3>2 DEF Store, PoolOfBlock, PartsRecorded
    <3>4. AllPools[k] \in PoolRecords /\ given[part] \in Parts
      BY <2>1, <2>3 DEF Store, PoolOfBlock
    <3>5. /\ AllPools[k].size \in Nat /\ AllPools[k].next \in Nat
          /\ given[part].first \in Nat /\ given[part].size \in Nat
      BY <3>4 DEF PoolRecords, Parts
    <3> QED BY <3>1, <3>3, <3>5
  <2>4. GivenApart
    BY <2>1, <2>3 DEF Store, PartsApart, GivenApart
  <2> QED BY <2>2, <2>4 DEF PoolsSound
<1> QED BY <1>1, <1>2

\* The pools of a deque with pools.
LEMMA PoolFacts ==
  ASSUME PoolInv, Pools!Valid(pool_deq)
  PROVE  /\ IsRow(pool_deq) /\ AllPools = Pools!Contents(pool_deq)
         /\ AllPools \in Seq(PoolRecords) /\ Len(AllPools) = pool_deq.back
         /\ Store(AllPools, heap, given)
         /\ Pools!is_empty(pool_deq) <=> AllPools = <<>>
         /\ pool_deq.back # 0 =>
              Pools!peek_back(pool_deq) = AllPools[Len(AllPools)]
<1>1. IsRow(pool_deq) /\ AllPools = Pools!Contents(pool_deq)
  BY DEF PoolInv, PoolTypeOK, AllPools
<1>2. Store(AllPools, heap, given)
  BY DEF PoolInv, AtExit
<1>3. AllPools \in Seq(PoolRecords)
  BY <1>2 DEF Store, PoolOfBlock
<1>4. AllPools = [k \in 1..pool_deq.back |-> pool_deq.data[k - 1]] /\ pool_deq.back \in Nat
      /\ (Pools!is_empty(pool_deq) <=> pool_deq.back = 0)
  BY <1>1, RowFacts
<1>5. Len(AllPools) = pool_deq.back
  BY <1>4
<1>6. Pools!is_empty(pool_deq) <=> AllPools = <<>>
  BY <1>3, <1>4, <1>5
<1>7. pool_deq.back # 0 => Pools!peek_back(pool_deq) = AllPools[Len(AllPools)]
  BY <1>1, <1>5, RowPeeks
<1> QED BY <1>1, <1>2, <1>3, <1>5, <1>6, <1>7

-----------------------------------------------------------------------------
(* The steps *)

\* The pools after a pool was added to those of d.
LEMMA AddStep ==
  ASSUME NEW d, IsRow(d), NEW p \in PoolRecords, Add(d, p)
  PROVE  /\ IsRow(pool_deq') /\ Pools!Valid(pool_deq') /\ pool' = p
         /\ AllPools' = Append(Pools!Contents(d), p)
<1>1. pool_deq' = Pools!push_back(d, p) /\ pool' = p
  BY DEF Add
<1>2. IsRow(pool_deq') /\ Pools!Contents(pool_deq') = Append(Pools!Contents(d), p)
  BY <1>1, RowPush
<1>3. Pools!Valid(pool_deq')
  BY <1>2, RowFacts
<1> QED BY <1>1, <1>2, <1>3 DEF AllPools

LEMMA LastOfAppend ==
  ASSUME NEW S, NEW c \in Seq(S), NEW p \in S
  PROVE  Append(c, p) # <<>> /\ Append(c, p)[Len(Append(c, p))] = p
OBVIOUS

\* Whether malloc is successful or not, when a pool is added to the deque d.
LEMMA AddPoolStep ==
  ASSUME PoolInv, NEW d, IsRow(d), Pools!Contents(d) = AllPools,
         Store(AllPools, heap, given), wanted' \in Nat \ {0}, given' = given,
         NEW size \in Nat, NEW at \in {"out", "fit"}, AddPool(d, size, at)
  PROVE  PoolInv'
<1>1. CASE AddBlock(d, size) /\ pool_at' = at /\ failed' = failed
  <2> DEFINE block == CHOOSE b \in 1..(Cardinality(DOMAIN heap) + 1) : b \notin DOMAIN heap
             r == [pool |-> block, size |-> size, next |-> 0]
             h2 == [b \in DOMAIN heap \cup {block} |-> IF b = block THEN size ELSE heap[b]]
  <2>1. heap' = h2 /\ Add(d, r)
    BY <1>1 DEF AddBlock
  <2>2. block \in Nat \ {0} /\ block \notin DOMAIN heap
    <3>1. IsFiniteSet(DOMAIN heap)
      BY DEF Store, PoolOfBlock
    <3>2. block \in 1..(Cardinality(DOMAIN heap) + 1) /\ block \notin DOMAIN heap
      BY <3>1, FreshBlock
    <3>3. Cardinality(DOMAIN heap) \in Nat
      BY <3>1, FS_CardinalityType
    <3> HIDE DEF block
    <3> QED BY <3>2, <3>3
  <2> HIDE DEF block
  <2>3. Store(Append(AllPools, r), h2, given)
    BY <2>2, NewBlock
  <2>4. r \in PoolRecords /\ r.pool # 0
    BY <2>2 DEF PoolRecords
  <2> HIDE DEF r, h2
  <2>5. /\ IsRow(pool_deq') /\ Pools!Valid(pool_deq') /\ pool' = r
        /\ AllPools' = Append(AllPools, r)
    BY <2>1, <2>4, AddStep
  <2>6. AllPools \in Seq(PoolRecords)
    BY DEF Store, PoolOfBlock
  <2>7. AllPools' # <<>> /\ AllPools'[Len(AllPools')] = r
    BY <2>4, <2>5, <2>6, LastOfAppend
  <2>8. Store(AllPools', heap', given')
    BY <2>1, <2>3, <2>5
  <2>9. PoolTypeOK'
    BY <1>1, <2>4, <2>5 DEF PoolInv, PoolTypeOK
  <2>10. InCall'
    BY <2>4, <2>5, <2>7 DEF InCall
  <2> QED BY <1>1, <2>8, <2>9, <2>10 DEF PoolInv
<1>2. CASE pool_deq' = d /\ pool_at' = "low" /\ failed' = size /\ UNCHANGED <<pool, heap>>
  <2>1. Pools!Valid(pool_deq') /\ AllPools' = AllPools
    BY <1>2, RowFacts DEF AllPools
  <2>2. PoolTypeOK'
    BY <1>2 DEF PoolInv, PoolTypeOK
  <2>3. InCall'
    BY <1>2, <2>1 DEF InCall
  <2>4. Store(AllPools', heap', given')
    BY <1>2, <2>1
  <2> QED BY <1>2, <2>2, <2>3, <2>4 DEF PoolInv
<1> QED BY <1>1, <1>2 DEF AddPool

LEMMA InitializeStep ==
  ASSUME PoolInv, NEW size \in FirstSizes, initialize_memory_pool(size)
  PROVE  PoolInv'
<1> DEFINE d == Pools!new_destructable(POOL_CAP, TRUE)
           s == IF size = 0 THEN 1 ELSE size
<1>1. /\ pool_at = "out" /\ ~Pools!Valid(pool_deq) /\ wanted' = 1 /\ given' = given
      /\ AddPool(d, s, "out")
  BY DEF initialize_memory_pool
<1>2. AllPools = <<>> /\ Store(AllPools, heap, given)
  BY <1>1 DEF AllPools, PoolInv
<1>3. IsRow(d) /\ Pools!Contents(d) = AllPools
  BY <1>2, RowNew
<1>4. s \in Nat
  BY PoolAssumption
<1> HIDE DEF d, s
<1> QED BY <1>1, <1>2, <1>3, <1>4, AddPoolStep

LEMMA AllocStep ==
  ASSUME PoolInv, NEW size \in PoolSizes, memory_pool_alloc(size)
  PROVE  PoolInv'
<1>1. /\ pool_at = "out" /\ Pools!Valid(pool_deq) /\ wanted' = size
      /\ UNCHANGED <<pool_deq, failed, heap, given>>
  BY DEF memory_pool_alloc
<1>2. /\ AllPools # <<>> /\ AllPools[Len(AllPools)].pool # 0
      /\ AllPools' = AllPools
  BY <1>1 DEF PoolInv, InCall, AllPools
<1>3. /\ AllPools \in Seq(PoolRecords) /\ Store(AllPools, heap, given)
      /\ ~Pools!is_empty(pool_deq)
      /\ Pools!peek_back(pool_deq) = AllPools[Len(AllPools)]
  <2>1. Len(AllPools) = pool_deq.back /\ AllPools \in Seq(PoolRecords)
    BY <1>1, PoolFacts
  <2>2. pool_deq.back # 0
    BY <1>2, <2>1
  <2> QED BY <1>1, <1>2, <2>2, PoolFacts
<1>4. AllPools[Len(AllPools)] \in PoolRecords
  BY <1>2, <1>3
<1>5. pool_at' = "fit" /\ pool' = AllPools[Len(AllPools)]
  BY <1>2, <1>3 DEF memory_pool_alloc
<1>6. size \in Nat \ {0}
  BY PoolAssumption
<1>7. PoolTypeOK'
  BY <1>1, <1>4, <1>5, <1>6 DEF PoolInv, PoolTypeOK
<1>8. InCall'
  BY <1>1, <1>2, <1>5, <1>6 DEF InCall
<1>9. Store(AllPools', heap', given')
  BY <1>1, <1>2, <1>3
<1> QED BY <1>5, <1>7, <1>8, <1>9 DEF PoolInv

\* A larger block, or a place that makes the next one larger.
LEMMA GrowStep ==
  ASSUME PoolInv, Grow
  PROVE  PoolInv'
<1>1. pool_at = "fit" /\ UNCHANGED <<wanted, given>>
  BY DEF Grow
<1>2. /\ wanted' \in Nat \ {0} /\ Pools!Valid(pool_deq) /\ AllPools # <<>>
  BY <1>1 DEF PoolInv, PoolTypeOK, InCall
<1>3. /\ IsRow(pool_deq) /\ AllPools = Pools!Contents(pool_deq)
      /\ AllPools \in Seq(PoolRecords) /\ Store(AllPools, heap, given)
      /\ Len(AllPools) = pool_deq.back
  BY <1>2, PoolFacts
<1>4. CASE NextSize < wanted
  <2>1. AddPlaceholder /\ UNCHANGED <<heap, failed, pool_at>>
    BY <1>4 DEF Grow
  <2>2. NullPool \in PoolRecords
    BY DEF NullPool, PoolRecords
  <2>3. /\ IsRow(pool_deq') /\ Pools!Valid(pool_deq') /\ pool' = NullPool
        /\ AllPools' = Append(AllPools, NullPool)
    BY <1>3, <2>1, <2>2, AddStep DEF AddPlaceholder
  <2>4. AllPools' # <<>> /\ AllPools'[Len(AllPools')] = NullPool
    BY <1>3, <2>2, <2>3, LastOfAppend
  <2>5. Store(AllPools', heap', given')
    BY <1>1, <1>3, <2>1, <2>3, NewPlaceholder
  <2>6. PoolTypeOK'
    BY <1>1, <2>1, <2>2, <2>3 DEF PoolInv, PoolTypeOK
  <2>7. InCall'
    BY <1>1, <1>2, <2>1, <2>3, <2>4 DEF InCall
  <2> QED BY <1>1, <2>1, <2>5, <2>6, <2>7 DEF PoolInv
<1>5. CASE ~(NextSize < wanted)
  <2>1. AddPool(pool_deq, NextSize, "fit")
    BY <1>5 DEF Grow
  <2>2. pool_deq.back # 0 /\ pool_deq.back \in Nat
    BY <1>2, <1>3
  <2>3. Pools!peek_front(pool_deq) \in PoolRecords
    <3>1. Pools!peek_front(pool_deq) = AllPools[1]
      BY <1>3, <2>2, RowPeeks
    <3>2. 1 \in 1..Len(AllPools)
      BY <1>3, <2>2
    <3>3. AllPools[1] \in PoolRecords
      BY <1>3, <3>2
    <3> QED BY <3>1, <3>3
  <2>4. 2^Pools!length(pool_deq) \in Nat
    <3>1. Pools!length(pool_deq) \in Nat
      BY <1>3, RowFacts
    <3> QED BY <3>1, PowerIsNatural
  <2>5. Pools!peek_front(pool_deq).size \in Nat
    BY <2>3 DEF PoolRecords
  <2>6. NextSize \in Nat
    BY <2>4, <2>5 DEF NextSize
  <2> QED BY <1>1, <1>2, <1>3, <2>1, <2>6, AddPoolStep
<1> QED BY <1>4, <1>5

\* A part of the last block is handed out.
LEMMA GiveStep ==
  ASSUME PoolInv, Give
  PROVE  PoolInv'
<1> DEFINE n == Len(AllPools)
           r == [AllPools[n] EXCEPT !.next = @ + wanted]
           part == [block |-> AllPools[n].pool, first |-> AllPools[n].next, size |-> wanted]
<1>1. pool_at = "fit" /\ Fits /\ UNCHANGED <<wanted, failed, heap>>
  BY DEF Give
<1>2. /\ wanted \in Nat \ {0} /\ Pools!Valid(pool_deq) /\ AllPools # <<>>
      /\ pool = AllPools[n] /\ given \in Seq(Parts)
  BY <1>1 DEF PoolInv, PoolTypeOK, InCall
<1>3. /\ IsRow(pool_deq) /\ AllPools = Pools!Contents(pool_deq)
      /\ AllPools \in Seq(PoolRecords) /\ Store(AllPools, heap, given)
      /\ n = pool_deq.back
  BY <1>2, PoolFacts
<1>4. n \in Nat \ {0} /\ n \in DOMAIN AllPools /\ AllPools[n] \in PoolRecords
  BY <1>2, <1>3
<1>5. Pools!peek_back(pool_deq) = pool
  BY <1>2, <1>3, <1>4, RowPeeks
<1>6. /\ given' = Append(given, part) /\ pool' = r
      /\ pool_deq' = Pools!update_back(pool_deq, r) /\ pool_at' = "out"
  BY <1>2, <1>5 DEF Give
<1>7. AllPools[n].next + wanted <= AllPools[n].size
  BY <1>1, <1>2 DEF Fits
<1>8. AllPools[n].pool # 0
  <2>1. SUFFICES ASSUME AllPools[n].pool = 0 PROVE FALSE
    OBVIOUS
  <2>2. AllPools[n].size = 0
    BY <1>3, <1>4, <2>1 DEF Store, PoolOfBlock
  <2>3. AllPools[n].next \in Nat
    BY <1>4 DEF PoolRecords
  <2> QED BY <1>2, <1>7, <2>2, <2>3
<1>9. Store([AllPools EXCEPT ![n] = r], heap, Append(given, part))
  BY <1>2, <1>3, <1>4, <1>7, <1>8, NewPart
<1>10. r \in PoolRecords /\ r.pool = AllPools[n].pool
  BY <1>2, <1>4 DEF PoolRecords
<1>11. part \in Parts
  BY <1>2, <1>4 DEF PoolRecords, Parts
<1> HIDE DEF r, part
<1>12. /\ IsRow(pool_deq') /\ Pools!Valid(pool_deq')
       /\ AllPools' = [AllPools EXCEPT ![n] = r]
  <2>1. IsRow(pool_deq') /\ Pools!Contents(pool_deq') = [AllPools EXCEPT ![n] = r]
    BY <1>3, <1>4, <1>6, <1>10, RowUpdate
  <2>2. Pools!Valid(pool_deq')
    BY <2>1, RowFacts
  <2> QED BY <2>1, <2>2 DEF AllPools
<1>13. Store(AllPools', heap', given')
  BY <1>1, <1>6, <1>9, <1>12
<1>14. AllPools' # <<>> /\ AllPools'[Len(AllPools')].pool # 0
  BY <1>3, <1>4, <1>8, <1>10, <1>12
<1>15. PoolTypeOK'
  BY <1>1, <1>2, <1>6, <1>10, <1>11, <1>12 DEF PoolInv, PoolTypeOK
<1>16. InCall'
  BY <1>6, <1>12, <1>14 DEF InCall
<1> QED BY <1>6, <1>13, <1>15, <1>16 DEF PoolInv

\* Everything is freed.
LEMMA ReleaseStep ==
  ASSUME PoolInv, Release, Store(AllPools, heap, given)
  PROVE  /\ ~Pools!Valid(pool_deq') /\ AllPools' = <<>>
         /\ DOMAIN heap' = {}
<1>1. DOMAIN heap = Blocks
  BY DEF Store, PoolOfBlock, Blocks
<1>2. DOMAIN heap' = {}
  BY <1>1 DEF Release
<1>3. pool_deq'.cap = 0
  BY DEF Release, Pools!NullDeque
<1> QED BY <1>2, <1>3 DEF AllPools, Pools!Valid

LEMMA LowMemoryStep ==
  ASSUME PoolInv, LowMemory
  PROVE  PoolInv'
<1>1. pool_at = "low" /\ UNCHANGED <<wanted, given>>
  BY DEF LowMemory
<1>2. /\ wanted \in Nat \ {0} /\ failed \in Nat /\ Pools!Valid(pool_deq)
      /\ pool \in PoolRecords /\ given \in Seq(Parts)
  BY <1>1 DEF PoolInv, PoolTypeOK, InCall
<1>3. /\ IsRow(pool_deq) /\ AllPools = Pools!Contents(pool_deq)
      /\ Store(AllPools, heap, given)
  BY <1>2, PoolFacts
<1>4. CASE Release /\ pool_at' = "exit" /\ UNCHANGED <<pool, failed>>
  <2>1. ~Pools!Valid(pool_deq') /\ DOMAIN heap' = {}
    BY <1>3, <1>4, ReleaseStep
  <2>2. PartsApart(given')
    BY <1>1, <1>3 DEF Store
  <2>3. PoolTypeOK'
    BY <1>1, <1>2, <1>4, <2>1 DEF PoolTypeOK
  <2>4. InCall'
    BY <1>4 DEF InCall
  <2> QED BY <1>4, <2>1, <2>2, <2>3, <2>4 DEF PoolInv, AtExit
<1>5. CASE AddPool(pool_deq, Smaller(failed),
                   IF Pools!is_empty(pool_deq) THEN "out" ELSE "fit")
  <2> DEFINE at == IF Pools!is_empty(pool_deq) THEN "out" ELSE "fit"
  <2>1. Smaller(failed) \in Nat
    BY <1>2 DEF Smaller
  <2>2. at \in {"out", "fit"}
    OBVIOUS
  <2>3. AddPool(pool_deq, Smaller(failed), at)
    BY <1>5
  <2> HIDE DEF at
  <2> QED BY <1>1, <1>2, <1>3, <2>1, <2>2, <2>3, AddPoolStep
<1> QED BY <1>4, <1>5 DEF LowMemory

\* After a line, when the deque may have been destroyed already.
LEMMA PoolDestroyStep ==
  ASSUME PoolInv, destroy_memory_pool
  PROVE  PoolInv'
<1>1. /\ pool_at = "out" /\ Release /\ given' = <<>> /\ pool_at' \in {"out", "exit"}
      /\ UNCHANGED <<pool, wanted, failed>>
  BY DEF destroy_memory_pool
<1>2. Store(AllPools, heap, given)
  BY <1>1 DEF PoolInv
<1>3. ~Pools!Valid(pool_deq') /\ AllPools' = <<>> /\ DOMAIN heap' = {}
  BY <1>1, <1>2, ReleaseStep
<1>4. PoolTypeOK'
  BY <1>1, <1>3 DEF PoolInv, PoolTypeOK
<1>5. InCall'
  BY <1>1, <1>3 DEF InCall
<1>6. AtExit'
  BY <1>1, <1>3 DEF AtExit, PartsApart
<1>7. Store(AllPools', heap', given')
  BY <1>1, <1>3, EmptyStore
<1> QED BY <1>4, <1>5, <1>6, <1>7 DEF PoolInv

LEMMA PoolInvInitial ==
  ASSUME PoolInit
  PROVE  PoolInv
<1>1. /\ pool_deq = Pools!NullDeque /\ pool = NullPool /\ wanted = 0 /\ failed = 0
      /\ DOMAIN heap = {} /\ given = <<>> /\ pool_at = "out"
  BY DEF PoolInit
<1>2. ~Pools!Valid(pool_deq) /\ AllPools = <<>>
  BY <1>1 DEF Pools!NullDeque, Pools!Valid, AllPools
<1>3. Store(AllPools, heap, given)
  BY <1>1, <1>2, EmptyStore
<1>4. PoolTypeOK
  BY <1>1, <1>2 DEF PoolTypeOK, NullPool, PoolRecords
<1>5. InCall
  BY <1>1, <1>2 DEF InCall
<1> QED BY <1>1, <1>3, <1>4, <1>5 DEF PoolInv

LEMMA PoolStepKeeps ==
  ASSUME PoolInv, [PoolNext]_poolVars
  PROVE  PoolInv'
<1>1. CASE UNCHANGED poolVars
  <2>1. UNCHANGED <<pool_deq, pool, wanted, failed, heap, given, pool_at>>
    BY <1>1 DEF poolVars
  <2>2. AllPools' = AllPools
    BY <2>1 DEF AllPools
  <2> QED BY <2>1, <2>2 DEF PoolInv, PoolTypeOK, InCall, AtExit
<1>2. CASE PoolStep
  BY <1>2, GrowStep, GiveStep, LowMemoryStep DEF PoolStep
<1>3. CASE destroy_memory_pool
  BY <1>3, PoolDestroyStep
<1>4. ASSUME NEW size \in FirstSizes, initialize_memory_pool(size) PROVE PoolInv'
  BY <1>4, InitializeStep
<1>5. ASSUME NEW size \in PoolSizes, memory_pool_alloc(size) PROVE PoolInv'
  BY <1>5, AllocStep
<1> QED BY <1>1, <1>2, <1>3, <1>4, <1>5 DEF PoolNext

\* What memory_pool_alloc hands out stays whole, and nobody else gets a byte of
\* it; every block is freed, and once: whatever malloc does, for requests and
\* pools of every size (memory_pool.c).
THEOREM StringsStayWhole ==
  PoolInit /\ [][PoolNext]_poolVars => []PoolsSound
<1>1. PoolInit => PoolInv
  BY PoolInvInitial
<1>2. PoolInv /\ [PoolNext]_poolVars => PoolInv'
  BY PoolStepKeeps
<1>3. PoolInv => PoolsSound
  BY InvariantSound
<1> QED BY <1>1, <1>2, <1>3, PTL

\* The assertions of memory_pool_alloc hold, also after a request for which
\* pools without memory were recorded (memory_pool.c).
NoAssertionFails == pool_at # "abort"

THEOREM AllocNeverAborts ==
  PoolInit /\ [][PoolNext]_poolVars => []NoAssertionFails
<1>1. PoolInit => PoolInv
  BY PoolInvInitial
<1>2. PoolInv /\ [PoolNext]_poolVars => PoolInv'
  BY PoolStepKeeps
<1>3. PoolInv => NoAssertionFails
  BY DEF PoolInv, PoolTypeOK, NoAssertionFails
<1> QED BY <1>1, <1>2, <1>3, PTL

-----------------------------------------------------------------------------
(* The tokens: what is known of a place in one *)

\* A character of the meaning of a token, as Active and Literal make them.
Marks == [char : Chars \cup {""}, active : BOOLEAN]

\* Where the sequences of seqs end in a sequence that is made of them.
Cuts(cut, seqs, whole) ==
  /\ cut \in [0..Len(seqs) -> 0..Len(whole)]
  /\ cut[0] = 0 /\ cut[Len(seqs)] = Len(whole)
  /\ \A n \in 1..Len(seqs) :
       /\ cut[n] = cut[n - 1] + Len(seqs[n])
       /\ \A x \in 1..Len(seqs[n]) : whole[cut[n - 1] + x] = seqs[n][x]

\* Where they end in the sequence that FlattenSeq makes of them.
Cut(seqs) == CHOOSE cut : Cuts(cut, seqs, Lists!FlattenSeq(seqs))

\* What the pieces of a token are made of, and what they mean.
Raws(t) == [n \in DOMAIN t |-> RawText(t[n])]
Means(t) == [n \in DOMAIN t |-> Meant(t[n])]

\* The part of a piece's meaning that an element of a quoted section has.
QuotedMeaning(text) ==
  [n \in DOMAIN text |->
     IF text[n] = <<"\\", "'">> THEN <<Literal("'")>>
     ELSE [j \in DOMAIN text[n] |-> Literal(text[n][j])]]

\* The scan is inside piece: it has passed u of its characters and v of those
\* it means.
Passed(piece, u, v) ==
  CASE piece.kind = "plain" -> Len(piece.text) = 2 /\ u = 1 /\ v = 1
    [] piece.kind = "escape" ->
         piece.text[1] \notin Escapable \cup {"newline"} /\ u = 1 /\ v = 1
    [] piece.kind = "quoted" ->
         \E n \in 0..Len(piece.text) :
           \/ u = 1 + Cut(piece.text)[n] /\ v = 1 + Cut(QuotedMeaning(piece.text))[n]
           \/ /\ n < Len(piece.text)
              /\ piece.text[n + 1] \in {<<"\\", "letter">>, <<"\\", "\\">>}
              /\ u = 2 + Cut(piece.text)[n] /\ v = 2 + Cut(QuotedMeaning(piece.text))[n]

\* The scan of t is at j and what is scanned means the characters before k: the
\* place is between two pieces, or inside a piece of some kind.
Between(t, j, k) ==
  \E n \in 0..Len(t) : j = Cut(Raws(t))[n] + 1 /\ k = Cut(Means(t))[n] + 1
Inside(t, kind, j, k) ==
  \E n \in DOMAIN t :
    /\ t[n].kind = kind
    /\ Passed(t[n], j - 1 - Cut(Raws(t))[n - 1], k - 1 - Cut(Means(t))[n - 1])

\* Outside quotes, and not behind a backslash that escapes nothing.
Unquoted(t, j, k) == Between(t, j, k) \/ Inside(t, "plain", j, k)

\* What in_quotes says of the place.
Place(t, j, q, k) ==
  IF q THEN Inside(t, "quoted", j, k)
  ELSE Unquoted(t, j, k) \/ Inside(t, "escape", j, k)

\* The characters of a token, and those it means.
Text(t) == Lists!FlattenSeq(Raws(t))
Characters(t) == Lists!FlattenSeq(Means(t))

\* Piece n of t begins behind a characters, which mean b characters.
Opens(t, n, a, b) ==
  /\ a \in Nat /\ a = Cut(Raws(t))[n - 1]
  /\ b \in Nat /\ b = Cut(Means(t))[n - 1]
  /\ a + Len(RawText(t[n])) <= Len(Text(t))
  /\ b + Len(Meant(t[n])) <= Len(Characters(t))
  /\ \A x \in 1..Len(RawText(t[n])) : Text(t)[a + x] = RawText(t[n])[x]
  /\ \A y \in 1..Len(Meant(t[n])) : Characters(t)[b + y] = Meant(t[n])[y]
  /\ Between(t, a + Len(RawText(t[n])) + 1, b + Len(Meant(t[n])) + 1)

-----------------------------------------------------------------------------
(* Sequences of sequences *)

\* A non-empty set of numbers has a least one: how what holds of a number and,
\* with a number, of the next one is proved of all.
LEMMA LeastNatural ==
  ASSUME NEW T \in SUBSET Nat, T # {}
  PROVE  \E x \in T : \A y \in T : x <= y
<1> PICK n \in T : TRUE
  OBVIOUS
<1> DEFINE U == {0..x : x \in {z \in T : z <= n}}
           R == StrictSubsetOrdering(0..n)
<1>1. U \subseteq SUBSET (0..n) /\ 0..n \in U
  <2>1. n \in {z \in T : z <= n}
    OBVIOUS
  <2>2. \A x \in {z \in T : z <= n} : 0..x \subseteq 0..n
    OBVIOUS
  <2> QED BY <2>1, <2>2
<1>2. IsWellFoundedOn(R, SUBSET (0..n))
  <2>1. IsFiniteSet(0..n)
    BY FS_Interval
  <2>2. FiniteSubsetsOf(0..n) = SUBSET (0..n)
    BY <2>1, FS_FiniteSubsetsOfFinite
  <2>3. IsWellFoundedOn(R, FiniteSubsetsOf(0..n))
    BY FS_StrictSubsetOrderingWellFounded
  <2> HIDE DEF R
  <2> QED BY <2>2, <2>3
<1>3. PICK u \in U : \A v \in U : <<v, u>> \notin R
  BY <1>1, <1>2, WFMin
<1>4. PICK x \in T : x <= n /\ u = 0..x
  OBVIOUS
<1>5. ASSUME NEW y \in T, y < x PROVE FALSE
  <2>1. 0..y \in U
    BY <1>4, <1>5
  <2>2. 0..y \subseteq 0..x /\ 0..y # 0..x
    <3>1. x \in 0..x /\ x \notin 0..y
      BY <1>5
    <3> QED BY <3>1, <1>5
  <2> QED BY <1>1, <1>3, <1>4, <2>1, <2>2 DEF StrictSubsetOrdering
<1> QED BY <1>5

\* Facts of arithmetic.
LEMMA Within ==
  ASSUME NEW p \in Nat, NEW l \in Nat, NEW e \in Nat, p + l <= e, NEW x \in 1..l
  PROVE  p + x \in 1..e
  OBVIOUS

LEMMA StillWithin ==
  ASSUME NEW a \in Nat, NEW b \in Nat, a <= b, NEW c \in Nat
  PROVE  a + c <= b + c
  OBVIOUS

LEMMA FirstOfTwo ==
  ASSUME NEW l, l = 1 \/ l = 2
  PROVE  1 \in 1..l
  OBVIOUS

LEMMA BackByOffset ==
  ASSUME NEW a \in Nat, NEW u \in Nat
  PROVE  (a + u + 1) - 1 - a = u
  OBVIOUS

\* The provers are given sequences one behind the other under a name.
Joined(a, b) == a \o b

\* What the joined sequence is, and where the two are in it.
LEMMA JoinedIs ==
  ASSUME NEW S, NEW a \in Seq(S), NEW b \in Seq(S)
  PROVE  Joined(a, b) \in Seq(S) /\ Len(Joined(a, b)) = Len(a) + Len(b)
  BY DEF Joined

LEMMA JoinedFirst ==
  ASSUME NEW S, NEW a \in Seq(S), NEW b \in Seq(S), NEW x \in 1..Len(a)
  PROVE  Joined(a, b)[x] = a[x]
  BY DEF Joined

LEMMA JoinedSecond ==
  ASSUME NEW S, NEW a \in Seq(S), NEW b \in Seq(S), NEW x \in 1..Len(b)
  PROVE  Joined(a, b)[Len(a) + x] = b[x]
  BY DEF Joined

\* flat[n] is made of the first n sequences: the recursion of FlattenSeq.
Flattened(flat, seqs, m) ==
  flat = [n \in 1..m |-> IF n = 1 THEN seqs[n] ELSE Joined(flat[n - 1], seqs[n])]

\* There is such a function: without one, there is a least m that has none, and
\* the function of m - 1 can be continued.
LEMMA FlattenedExists ==
  ASSUME NEW S, NEW seqs \in Seq(S)
  PROVE  \E flat : Flattened(flat, seqs, Len(seqs))
<1> DEFINE Step(flat, n) == IF n = 1 THEN seqs[n] ELSE Joined(flat[n - 1], seqs[n])
           Upto(flat, m) == flat = [n \in 1..m |-> Step(flat, n)]
           Bare == {m \in 0..Len(seqs) : ~\E flat : Upto(flat, m)}
<1>1. Bare = {}
  <2> SUFFICES ASSUME Bare # {} PROVE FALSE
    OBVIOUS
  <2>1. PICK m \in Bare : \A n \in Bare : m <= n
    <3>1. Bare \in SUBSET Nat
      OBVIOUS
    <3> HIDE DEF Bare
    <3> QED BY <3>1, LeastNatural
  <2>2. CASE m = 0
    <3>1. Upto([n \in 1..0 |-> <<>>], 0)
      OBVIOUS
    <3> QED BY <2>2, <3>1
  <2>3. CASE m # 0
    <3>1. m - 1 \in 0..Len(seqs) /\ m \in Nat /\ ~(m <= m - 1)
      BY <2>3
    <3>2. PICK flat : Upto(flat, m - 1)
      BY <2>1, <3>1
    <3> DEFINE more == [n \in 1..m |-> IF n = m THEN Step(flat, m) ELSE flat[n]]
    <3>3. \A n \in 1..m : more[n] = Step(more, n)
      <4> SUFFICES ASSUME NEW n \in 1..m PROVE more[n] = Step(more, n)
        OBVIOUS
      <4>1. n # 1 => more[n - 1] = flat[n - 1]
        BY <3>1
      <4>2. Step(more, n) = Step(flat, n)
        BY <4>1
      <4>3. CASE n = m
        BY <4>2, <4>3
      <4>4. CASE n # m
        <5>1. n \in 1..(m - 1)
          BY <4>4, <3>1
        <5> QED BY <4>2, <4>4, <5>1, <3>2
      <4> QED BY <4>3, <4>4
    <3>4. Upto(more, m)
      <4>1. more = [n \in 1..m |-> more[n]]
        OBVIOUS
      <4> HIDE DEF more
      <4> QED BY <3>3, <4>1
    <3> QED BY <3>4, <2>1
  <2> QED BY <2>2, <2>3
<1>2. Len(seqs) \in 0..Len(seqs)
  OBVIOUS
<1>3. PICK flat : Upto(flat, Len(seqs))
  BY <1>1, <1>2
<1> QED BY <1>3 DEF Flattened

\* FlattenSeq is the last value of such a function.
LEMMA FlattenSeqUnfolds ==
  ASSUME NEW seqs, Len(seqs) # 0, NEW g, Flattened(g, seqs, Len(seqs))
  PROVE  \E flat : /\ Flattened(flat, seqs, Len(seqs))
                   /\ Lists!FlattenSeq(seqs) = flat[Len(seqs)]
  BY DEF Flattened, Joined, Lists!FlattenSeq

\* The parts of a sequence are found in it where those before them end.
LEMMA PartsAreFound ==
  ASSUME NEW S, NEW seqs \in Seq(Seq(S)), Len(seqs) # 0,
         NEW flat, Flattened(flat, seqs, Len(seqs))
  PROVE  \A m \in 1..Len(seqs) :
           /\ flat[m] \in Seq(S)
           /\ m > 1 => /\ flat[m - 1] \in Seq(S)
                       /\ flat[m] = Joined(flat[m - 1], seqs[m])
<1> DEFINE Wrong == {m \in 1..Len(seqs) : flat[m] \notin Seq(S)}
<1>1. \A n \in 1..Len(seqs) :
        flat[n] = IF n = 1 THEN seqs[n] ELSE Joined(flat[n - 1], seqs[n])
  BY DEF Flattened
<1>2. Wrong = {}
  <2> SUFFICES ASSUME Wrong # {} PROVE FALSE
    OBVIOUS
  <2>1. PICK m \in Wrong : \A n \in Wrong : m <= n
    <3>1. Wrong \in SUBSET Nat
      OBVIOUS
    <3> HIDE DEF Wrong
    <3> QED BY <3>1, LeastNatural
  <2>2. m # 1
    BY <1>1
  <2>3. m - 1 \in 1..Len(seqs) /\ ~(m <= m - 1)
    BY <2>2
  <2>4. flat[m - 1] \in Seq(S) /\ seqs[m] \in Seq(S) /\ m \in 1..Len(seqs)
    BY <2>1, <2>3
  <2>5. flat[m] = Joined(flat[m - 1], seqs[m])
    BY <1>1, <2>2, <2>4
  <2>6. flat[m] \in Seq(S)
    BY <2>4, <2>5, JoinedIs
  <2> QED BY <2>6
<1>3. \A m \in 1..Len(seqs) : flat[m] \in Seq(S)
  BY <1>2
<1>4. \A m \in 1..Len(seqs) : m > 1 => m - 1 \in 1..Len(seqs)
  OBVIOUS
<1> HIDE DEF Wrong
<1> QED BY <1>1, <1>3, <1>4

\* flat[n] is made of the first n of L sequences over S.
Prefixes(flat, seqs, S, L) ==
  /\ Len(seqs) = L
  /\ \A n \in 1..L : seqs[n] \in Seq(S)
  /\ \A n \in 1..L : flat[n] \in Seq(S)
  /\ flat[1] = seqs[1]
  /\ \A n \in 1..L : n > 1 => flat[n] = Joined(flat[n - 1], seqs[n])

\* The lengths of what is made of the first ones are where the next begin.
LEMMA CutsOfPrefixes ==
  ASSUME NEW S, NEW L \in Nat, L # 0, NEW seqs, NEW flat, Prefixes(flat, seqs, S, L)
  PROVE  Cuts([n \in 0..L |-> IF n = 0 THEN 0 ELSE Len(flat[n])], seqs, flat[L])
<1> DEFINE cut == [n \in 0..L |-> IF n = 0 THEN 0 ELSE Len(flat[n])]
<1>1. \A n \in 1..L : flat[n] \in Seq(S) /\ Len(flat[n]) \in Nat
  <2>1. \A n \in 1..L : flat[n] \in Seq(S)
    BY DEF Prefixes
  <2> QED BY <2>1
<1>2. \A n \in 1..L : seqs[n] \in Seq(S)
  BY DEF Prefixes
<1>3. flat[1] = seqs[1]
  BY DEF Prefixes
<1>4. \A n \in 1..L : n > 1 => flat[n] = Joined(flat[n - 1], seqs[n])
  BY DEF Prefixes
<1>5. cut[0] = 0 /\ \A n \in 1..L : cut[n] = Len(flat[n])
  OBVIOUS
<1>6. cut = [n \in 0..L |-> cut[n]] /\ Len(seqs) = L
  BY DEF Prefixes
<1> HIDE DEF cut
<1>7. \A n \in 0..L : cut[n] \in Nat
  BY <1>5, <1>1
<1>8. \A n \in 1..L : Len(seqs[n]) \in Nat
  BY <1>2
<1>9. \A n \in 1..L :
        /\ cut[n] = cut[n - 1] + Len(seqs[n])
        /\ \A x \in 1..Len(seqs[n]) : flat[n][cut[n - 1] + x] = seqs[n][x]
  <2> SUFFICES ASSUME NEW n \in 1..L
               PROVE  /\ cut[n] = cut[n - 1] + Len(seqs[n])
                      /\ \A x \in 1..Len(seqs[n]) : flat[n][cut[n - 1] + x] = seqs[n][x]
    OBVIOUS
  <2>1. CASE n = 1
    <3>1. cut[n - 1] = 0 /\ cut[n] = Len(seqs[n]) /\ flat[n] = seqs[n]
      BY <1>5, <1>3, <2>1
    <3> QED BY <3>1, <1>8
  <2>2. CASE n > 1
    <3>1. n - 1 \in 1..L /\ flat[n - 1] \in Seq(S) /\ seqs[n] \in Seq(S)
      BY <1>1, <1>2, <2>2
    <3>2. flat[n] = Joined(flat[n - 1], seqs[n])
      BY <1>4, <2>2
    <3>3. cut[n] = Len(flat[n]) /\ cut[n - 1] = Len(flat[n - 1])
      BY <1>5, <3>1
    <3>4. Len(flat[n]) = Len(flat[n - 1]) + Len(seqs[n])
      BY <3>1, <3>2, JoinedIs
    <3>5. \A x \in 1..Len(seqs[n]) : flat[n][Len(flat[n - 1]) + x] = seqs[n][x]
      <4> SUFFICES ASSUME NEW x \in 1..Len(seqs[n])
                   PROVE  flat[n][Len(flat[n - 1]) + x] = seqs[n][x]
        OBVIOUS
      <4> DEFINE before == flat[n - 1]
                 part == seqs[n]
      <4>1. before \in Seq(S) /\ part \in Seq(S) /\ x \in 1..Len(part)
        BY <3>1
      <4> HIDE DEF before, part
      <4>2. Joined(before, part)[Len(before) + x] = part[x]
        BY <4>1, JoinedSecond
      <4>3. Joined(flat[n - 1], seqs[n])[Len(flat[n - 1]) + x] = seqs[n][x]
        BY <4>2 DEF before, part
      <4>4. flat[n] = Joined(flat[n - 1], seqs[n])
        BY <3>2
      <4> QED BY <4>3, <4>4, Zenon
    <3> QED BY <3>3, <3>4, <3>5
  <2> QED BY <2>1, <2>2
<1>10. \A n \in 1..L : /\ n - 1 \in 0..L /\ cut[n - 1] \in Nat /\ cut[n] \in Nat
                       /\ cut[n] = cut[n - 1] + Len(seqs[n]) /\ Len(seqs[n]) \in Nat
  <2>1. \A n \in 1..L : cut[n] = cut[n - 1] + Len(seqs[n])
    BY <1>9
  <2> QED BY <1>7, <1>8, <2>1
<1> DEFINE Found(k, m) == /\ cut[k] <= cut[m]
                          /\ \A x \in 1..Len(seqs[k]) : flat[m][cut[k - 1] + x] = seqs[k][x]
<1>11. ASSUME NEW k \in 1..L PROVE \A m \in k..L : Found(k, m)
  <2> DEFINE Wrong == {m \in k..L : ~Found(k, m)}
  <2> SUFFICES ASSUME Wrong # {} PROVE FALSE
    OBVIOUS
  <2>1. PICK m \in Wrong : \A n \in Wrong : m <= n
    <3> HIDE DEF Found
    <3>1. Wrong \in SUBSET Nat
      OBVIOUS
    <3> HIDE DEF Wrong
    <3> QED BY <3>1, LeastNatural
  <2>2. Found(k, k)
    BY <1>7, <1>9
  <2>3. m \in k..L /\ ~Found(k, m)
    BY <2>1
  <2> HIDE DEF Found
  <2>4. m # k
    BY <2>2, <2>3
  <2>5. m - 1 \in k..L /\ ~(m <= m - 1) /\ m > 1 /\ m \in 1..L /\ m - 1 \in 1..L
    BY <2>3, <2>4
  <2>6. Found(k, m - 1)
    BY <2>1, <2>5
  <2> HIDE DEF Wrong
  <2>7. flat[m - 1] \in Seq(S) /\ flat[m] = Joined(flat[m - 1], seqs[m]) /\ seqs[m] \in Seq(S)
    BY <1>1, <1>2, <1>4, <2>5
  <2>8. /\ cut[m - 1] = Len(flat[m - 1]) /\ cut[m] = cut[m - 1] + Len(seqs[m])
        /\ cut[m] \in Nat /\ cut[m - 1] \in Nat /\ cut[k] \in Nat /\ Len(seqs[m]) \in Nat
    BY <1>5, <1>10, <2>5
  <2>9. cut[k] <= cut[m]
    <3>1. cut[k] <= cut[m - 1]
      BY <2>6 DEF Found
    <3> DEFINE d == Len(seqs[m])
    <3>2. /\ cut[m] = cut[m - 1] + d /\ d \in Nat
          /\ cut[m] \in Nat /\ cut[m - 1] \in Nat /\ cut[k] \in Nat
      BY <2>8
    <3> HIDE DEF d
    <3> QED BY <3>1, <3>2
  <2>10. ASSUME NEW x \in 1..Len(seqs[k]) PROVE flat[m][cut[k - 1] + x] = seqs[k][x]
    <3>1. cut[k - 1] \in Nat /\ cut[k] = cut[k - 1] + Len(seqs[k]) /\ Len(seqs[k]) \in Nat
      BY <1>10
    <3>2. cut[k] <= cut[m - 1] /\ flat[m - 1][cut[k - 1] + x] = seqs[k][x]
      BY <2>6 DEF Found
    <3>3. cut[k - 1] + x \in 1..Len(flat[m - 1])
      <4> DEFINE d == Len(seqs[k])
                 e == Len(flat[m - 1])
      <4>1. /\ cut[k] = cut[k - 1] + d /\ d \in Nat /\ cut[k - 1] \in Nat
            /\ cut[k] <= cut[m - 1] /\ cut[m - 1] = e /\ e \in Nat
            /\ x \in 1..d
        BY <3>1, <3>2, <2>8
      <4> HIDE DEF d, e
      <4>2. cut[k - 1] + d <= e
        BY <4>1
      <4>3. cut[k - 1] + x \in 1..e
        BY <4>1, <4>2, Within
      <4> QED BY <4>3 DEF e
    <3>4. Joined(flat[m - 1], seqs[m])[cut[k - 1] + x] = flat[m - 1][cut[k - 1] + x]
      BY <3>3, <2>7, JoinedFirst
    <3> QED BY <3>2, <2>7, <3>4
  <2>11. Found(k, m)
    BY <2>9, <2>10 DEF Found
  <2> QED BY <2>3, <2>11
<1>12. L \in 1..L
  OBVIOUS
<1>13. cut[L] = Len(flat[L])
  BY <1>5, <1>12
<1>14. cut \in [0..L -> 0..Len(flat[L])]
  <2>1. \A n \in 1..L : cut[n] <= cut[L]
    BY <1>11, <1>12
  <2>2. \A n \in 0..L : cut[n] \in 0..Len(flat[L])
    BY <1>5, <1>7, <1>12, <1>13, <2>1
  <2> QED BY <1>6, <2>2
<1>15. \A n \in 1..L : \A x \in 1..Len(seqs[n]) : flat[L][cut[n - 1] + x] = seqs[n][x]
  BY <1>11, <1>12
<1> HIDE DEF Found
<1>16. Cuts(cut, seqs, flat[L])
  BY <1>5, <1>9, <1>13, <1>14, <1>15, <1>6 DEF Cuts
<1> QED BY <1>16 DEF cut

\* A sequence that is made of others is one over the same elements, and they
\* end where Cut says.
LEMMA CutsExist ==
  ASSUME NEW S, NEW seqs \in Seq(Seq(S))
  PROVE  /\ Lists!FlattenSeq(seqs) \in Seq(S)
         /\ Cuts(Cut(seqs), seqs, Lists!FlattenSeq(seqs))
<1> DEFINE whole == Lists!FlattenSeq(seqs)
           L == Len(seqs)
<1>1. CASE L = 0
  <2>1. seqs = <<>> /\ whole = <<>>
    BY <1>1 DEF Lists!FlattenSeq
  <2>2. Cuts([n \in {0} |-> 0], seqs, whole)
    BY <1>1, <2>1 DEF Cuts
  <2> QED BY <2>1, <2>2 DEF Cut
<1>2. CASE L # 0
  <2>1. PICK flat : Flattened(flat, seqs, L) /\ whole = flat[L]
    BY <1>2, FlattenedExists, FlattenSeqUnfolds
  <2>2. \A m \in 1..L : /\ flat[m] \in Seq(S)
                        /\ m > 1 => /\ flat[m - 1] \in Seq(S)
                                    /\ flat[m] = Joined(flat[m - 1], seqs[m])
    BY <1>2, <2>1, PartsAreFound
  <2>3. L \in Nat /\ 1 \in 1..L /\ L \in 1..L
    BY <1>2
  <2>4. flat[1] = seqs[1]
    BY <2>1, <2>3 DEF Flattened
  <2>5. \A n \in 1..L : seqs[n] \in Seq(S)
    OBVIOUS
  <2>6. \A n \in 1..L : flat[n] \in Seq(S)
    BY <2>2
  <2>7. \A n \in 1..L : n > 1 => flat[n] = Joined(flat[n - 1], seqs[n])
    BY <2>2
  <2> DEFINE cut == [n \in 0..L |-> IF n = 0 THEN 0 ELSE Len(flat[n])]
  <2>8. Prefixes(flat, seqs, S, L)
    BY <2>4, <2>5, <2>6, <2>7 DEF Prefixes
  <2> HIDE DEF L
  <2>9. Cuts(cut, seqs, flat[L])
    BY <1>2, <2>3, <2>8, CutsOfPrefixes
  <2>10. whole \in Seq(S)
    BY <2>1, <2>3, <2>6
  <2> HIDE DEF cut, whole
  <2>11. \E c : Cuts(c, seqs, whole)
    BY <2>1, <2>9
  <2>12. Cuts(Cut(seqs), seqs, whole)
    BY <2>11 DEF Cut, whole
  <2> QED BY <2>10, <2>12 DEF whole
<1> QED BY <1>1, <1>2

-----------------------------------------------------------------------------
(* The characters of a piece *)

\* A plain piece is read as it is, and means its characters.
LEMMA PlainPiece ==
  ASSUME NEW piece \in Pieces, piece.kind = "plain"
  PROVE  /\ RawText(piece) = piece.text
         /\ piece.text \in Seq(Plain)
         /\ Len(piece.text) \in 1..2
         /\ Meant(piece) = [x \in DOMAIN piece.text |-> Active(piece.text[x])]
<1>1. piece.text \in {<<c>> : c \in Plain} \cup {<<"$", "letter">>}
  BY DEF Pieces
<1>2. piece.text \in Seq(Plain) /\ Len(piece.text) \in 1..2
  <2>1. CASE piece.text \in {<<c>> : c \in Plain}
    <3>1. PICK c \in Plain : piece.text = <<c>>
      BY <2>1
    <3> QED BY <3>1
  <2>2. CASE piece.text = <<"$", "letter">>
    BY <2>2 DEF Plain, Chars
  <2> QED BY <1>1, <2>1, <2>2
<1> QED BY <1>2 DEF RawText, Meant

\* Two elements, one behind the other.
LEMMA TwoJoined ==
  ASSUME NEW S, NEW a \in S, NEW b \in S
  PROVE  /\ <<a>> \o <<b>> \in Seq(S) /\ Len(<<a>> \o <<b>>) = 2
         /\ (<<a>> \o <<b>>)[1] = a /\ (<<a>> \o <<b>>)[2] = b
<1>1. <<a>> \in Seq(S) /\ <<b>> \in Seq(S)
  OBVIOUS
<1> QED BY <1>1

\* An escape is a backslash and the character behind it.
LEMMA EscapePiece ==
  ASSUME NEW piece \in Pieces, piece.kind = "escape"
  PROVE  \E c \in Chars :
           /\ piece.text = <<c>>
           /\ RawText(piece) \in Seq(Chars) /\ Len(RawText(piece)) = 2
           /\ RawText(piece)[1] = "\\" /\ RawText(piece)[2] = c
<1>1. PICK c \in Chars : piece.text = <<c>>
  BY DEF Pieces
<1>2. RawText(piece) = <<"\\">> \o <<c>>
  BY <1>1 DEF RawText
<1>3. "\\" \in Chars
  BY DEF Chars
<1> QED BY <1>1, <1>2, <1>3, TwoJoined

\* What it means depends on the character.
LEMMA EscapeMeans ==
  ASSUME NEW piece, piece.kind = "escape", NEW c, piece.text = <<c>>
  PROVE  /\ c \in Escapable => Meant(piece) = <<Literal(c)>>
         /\ c = "newline" => Meant(piece) = <<Literal("")>>
         /\ c \notin Escapable \cup {"newline"} => Meant(piece) = <<Literal("\\"), Literal(c)>>
<1>1. Meant(piece) = CASE c \in Escapable -> <<Literal(c)>>
                       [] c = "newline"   -> <<Literal("")>>
                       [] OTHER           -> <<Literal("\\"), Literal(c)>>
  BY DEF Meant
<1>2. ~("newline" \in Escapable)
  BY DEF Escapable
<1> QED BY <1>1, <1>2

\* A quoted section is its elements between two quotes.
LEMMA QuotedPiece ==
  ASSUME NEW piece \in Pieces, piece.kind = "quoted"
  PROVE  /\ piece.text \in Seq(Quoted)
         /\ RawText(piece) = <<"'">> \o Lists!FlattenSeq(piece.text) \o <<"'">>
         /\ Meant(piece) = <<Literal("")>> \o Lists!FlattenSeq(QuotedMeaning(piece.text))
<1>1. piece.text \in UNION {[1..n -> Quoted] : n \in 0..MAX_QUOTED}
  BY DEF Pieces
<1>2. PICK n \in 0..MAX_QUOTED : piece.text \in [1..n -> Quoted]
  BY <1>1
<1>3. piece.text \in Seq(Quoted)
  <2>1. n \in Nat
    BY TokenAssumption
  <2> QED BY <1>2, <2>1
<1> QED BY <1>3 DEF RawText, Meant, QuotedMeaning

\* The elements of a quoted section.
LEMMA QuotedElements ==
  ASSUME NEW text \in Quoted
  PROVE  \/ \E c \in {"letter", "$", "newline"} : text = <<c>>
         \/ text = <<"\\", "letter">>
         \/ text = <<"\\", "\\">>
         \/ text = <<"\\", "'">>
  BY DEF Quoted

\* A sequence d that is c behind a, or between a and b.
IsPreceded(d, a, c) ==
  /\ Len(d) = Len(c) + 1 /\ d[1] = a
  /\ \A x \in 1..Len(c) : d[x + 1] = c[x]
IsEnclosed(d, a, c, b) ==
  /\ Len(d) = Len(c) + 2
  /\ d[1] = a /\ d[Len(c) + 2] = b
  /\ \A x \in 1..Len(c) : d[x + 1] = c[x]

\* An element before a sequence, one behind it, and one on either side.
LEMMA Preceded ==
  ASSUME NEW S, NEW a \in S, NEW c \in Seq(S)
  PROVE  <<a>> \o c \in Seq(S) /\ IsPreceded(<<a>> \o c, a, c)
<1>1. <<a>> \in Seq(S)
  OBVIOUS
<1> QED BY <1>1 DEF IsPreceded

LEMMA FollowedBy ==
  ASSUME NEW S, NEW b \in S, NEW c \in Seq(S), NEW d, d = c \o <<b>>
  PROVE  /\ d \in Seq(S) /\ Len(d) = Len(c) + 1 /\ d[Len(c) + 1] = b
         /\ \A x \in 1..Len(c) : d[x] = c[x]
<1>1. <<b>> \in Seq(S)
  OBVIOUS
<1> QED BY <1>1

LEMMA Enclosed ==
  ASSUME NEW S, NEW a \in S, NEW b \in S, NEW c \in Seq(S)
  PROVE  <<a>> \o c \o <<b>> \in Seq(S) /\ IsEnclosed(<<a>> \o c \o <<b>>, a, c, b)
<1> DEFINE e == <<a>> \o c
           d == e \o <<b>>
<1>1. /\ e \in Seq(S) /\ Len(e) = Len(c) + 1 /\ e[1] = a
      /\ \A x \in 1..Len(c) : e[x + 1] = c[x]
  BY Preceded DEF IsPreceded
<1> HIDE DEF e
<1>3. /\ d \in Seq(S) /\ Len(d) = Len(e) + 1 /\ d[Len(e) + 1] = b
      /\ \A x \in 1..Len(e) : d[x] = e[x]
  BY <1>1, FollowedBy
<1> HIDE DEF d
<1>4. Len(c) \in Nat
  OBVIOUS
<1>5. d[1] = a /\ d[Len(c) + 2] = b /\ Len(d) = Len(c) + 2
  BY <1>1, <1>3, <1>4
<1>6. \A x \in 1..Len(c) : d[x + 1] = c[x]
  BY <1>1, <1>3, <1>4
<1>7. d \in Seq(S) /\ IsEnclosed(d, a, c, b)
  BY <1>3, <1>5, <1>6 DEF IsEnclosed
<1> QED BY <1>7 DEF d, e

\* A quoted section is made of its elements.
LEMMA QuotedTyped ==
  ASSUME NEW text \in Seq(Quoted)
  PROVE  /\ text \in Seq(Seq(Chars)) /\ QuotedMeaning(text) \in Seq(Seq(Marks))
         /\ Len(QuotedMeaning(text)) = Len(text)
<1>1. \A e \in Quoted : e \in Seq(Chars)
  <2> SUFFICES ASSUME NEW e \in Quoted PROVE e \in Seq(Chars)
    OBVIOUS
  <2>1. {"letter", "$", "newline", "\\", "'"} \subseteq Chars
    BY DEF Chars
  <2>2. /\ \A c \in Chars : <<c>> \in Seq(Chars)
        /\ \A c, d \in Chars : <<c, d>> \in Seq(Chars)
    OBVIOUS
  <2> HIDE DEF Chars
  <2> QED BY <2>1, <2>2, QuotedElements
<1>2. \A n \in 1..Len(text) : text[n] \in Quoted
  OBVIOUS
<1>3. text \in Seq(Seq(Chars))
  BY <1>1, <1>2
<1>4. \A n \in 1..Len(text) : text[n] \in Seq(Chars)
  BY <1>1, <1>2
<1>5. \A c \in Chars : Literal(c) \in Marks
  BY DEF Literal, Marks
<1>6. <<Literal("'")>> \in Seq(Marks)
  BY <1>5 DEF Chars
<1> DEFINE m(n) == IF text[n] = <<"\\", "'">> THEN <<Literal("'")>>
                   ELSE [j \in DOMAIN text[n] |-> Literal(text[n][j])]
<1>7. \A n \in 1..Len(text) : m(n) \in Seq(Marks)
  <2> SUFFICES ASSUME NEW n \in 1..Len(text) PROVE m(n) \in Seq(Marks)
    OBVIOUS
  <2>1. text[n] \in Seq(Chars)
    BY <1>4
  <2>2. PICK e \in Seq(Chars) : e = text[n]
    BY <2>1
  <2>3. [j \in DOMAIN e |-> Literal(e[j])] \in Seq(Marks)
    <3>1. \A j \in 1..Len(e) : Literal(e[j]) \in Marks
      BY <1>5
    <3> HIDE DEF Marks
    <3> QED BY <3>1
  <2> QED BY <1>6, <2>2, <2>3
<1>8. DOMAIN text = 1..Len(text) /\ Len(text) \in Nat
  OBVIOUS
<1>9. QuotedMeaning(text) = [n \in 1..Len(text) |-> m(n)]
  BY <1>8 DEF QuotedMeaning
<1> HIDE DEF m
<1> DEFINE T == Seq(Marks)
<1>10. QuotedMeaning(text) \in Seq(Seq(Marks)) /\ Len(QuotedMeaning(text)) = Len(text)
  <2>1. \A n \in 1..Len(text) : m(n) \in T
    BY <1>7
  <2> HIDE DEF T
  <2>2. QuotedMeaning(text) \in Seq(T) /\ Len(QuotedMeaning(text)) = Len(text)
    BY <1>8, <1>9, <2>1
  <2> QED BY <2>2 DEF T
<1> QED BY <1>3, <1>10

\* Where the elements of a quoted section are in it, and what they mean.
Section(piece, r, m) ==
  LET text == piece.text
      means == QuotedMeaning(piece.text)
  IN  /\ r = Cut(text) /\ m = Cut(means)
      /\ r[0] = 0 /\ m[0] = 0
      /\ \A n \in 0..Len(text) : r[n] \in Nat /\ m[n] \in Nat
      /\ \A n \in 0..Len(text) : r[n] <= r[Len(text)] /\ m[n] <= m[Len(text)]
      /\ \A n \in 1..Len(text) : r[n] = r[n - 1] + Len(text[n]) /\ m[n] = m[n - 1] + Len(means[n])
      /\ Len(RawText(piece)) = r[Len(text)] + 2 /\ Len(Meant(piece)) = m[Len(text)] + 1
      /\ RawText(piece)[1] = "'" /\ RawText(piece)[r[Len(text)] + 2] = "'"
      /\ Meant(piece)[1] = Literal("")
      /\ \A n \in 1..Len(text) : \A x \in 1..Len(text[n]) :
           RawText(piece)[r[n - 1] + x + 1] = text[n][x]
      /\ \A n \in 1..Len(text) : \A x \in 1..Len(means[n]) :
           Meant(piece)[m[n - 1] + x + 1] = means[n][x]

\* What is in a sequence that is made of others is in it where those before end.
LEMMA CutsBound ==
  ASSUME NEW S, NEW cut, NEW seqs \in Seq(Seq(S)), NEW whole \in Seq(S),
         Cuts(cut, seqs, whole)
  PROVE  /\ \A n \in 0..Len(seqs) : cut[n] \in Nat /\ cut[n] <= Len(whole)
         /\ \A n \in 1..Len(seqs) : \A x \in 1..Len(seqs[n]) :
              cut[n - 1] + x \in 1..Len(whole)
<1>1. \A n \in 0..Len(seqs) : cut[n] \in 0..Len(whole)
  BY DEF Cuts
<1>2. \A n \in 1..Len(seqs) : cut[n] = cut[n - 1] + Len(seqs[n])
  BY DEF Cuts
<1>3. Len(whole) \in Nat /\ Len(seqs) \in Nat
  OBVIOUS
<1>4. \A n \in 0..Len(seqs) : cut[n] \in Nat /\ cut[n] <= Len(whole)
  BY <1>1, <1>3
<1>5. ASSUME NEW n \in 1..Len(seqs), NEW x \in 1..Len(seqs[n])
      PROVE  cut[n - 1] + x \in 1..Len(whole)
  <2> DEFINE l == Len(seqs[n])
  <2>1. seqs[n] \in Seq(S)
    OBVIOUS
  <2>2. l \in Nat
    BY <2>1
  <2>3. /\ cut[n] = cut[n - 1] + l /\ x \in 1..l
        /\ n \in 0..Len(seqs) /\ n - 1 \in 0..Len(seqs)
    BY <1>2, <1>3
  <2>4. cut[n - 1] \in Nat /\ cut[n] \in Nat /\ cut[n] <= Len(whole)
    BY <1>4, <2>3
  <2> DEFINE first == cut[n - 1]
             last == cut[n]
             w == Len(whole)
  <2>5. /\ first \in Nat /\ last \in Nat /\ w \in Nat /\ last <= w
        /\ last = first + l /\ x \in 1..l
    BY <2>3, <2>4, <1>3
  <2> HIDE DEF l, first, last, w
  <2>6. first + x \in 1..w
    BY <2>2, <2>5, Within
  <2> QED BY <2>6 DEF first, w
<1> QED BY <1>4, <1>5

\* Each sequence is found in the whole where the one before it ends.
LEMMA CutsPart ==
  ASSUME NEW cut, NEW seqs, NEW whole, Cuts(cut, seqs, whole), NEW n \in 1..Len(seqs)
  PROVE  /\ cut[n] = cut[n - 1] + Len(seqs[n])
         /\ \A x \in 1..Len(seqs[n]) : whole[cut[n - 1] + x] = seqs[n][x]
  BY DEF Cuts

\* Every quoted section has such places.
LEMMA SectionExists ==
  ASSUME NEW piece \in Pieces, piece.kind = "quoted"
  PROVE  /\ RawText(piece) \in Seq(Chars) /\ Meant(piece) \in Seq(Marks)
         /\ \E r, m : Section(piece, r, m)
<1> DEFINE text == piece.text
           means == QuotedMeaning(piece.text)
           r == Cut(text)
           m == Cut(means)
           tf == Lists!FlattenSeq(text)
           mf == Lists!FlattenSeq(means)
<1>1. /\ text \in Seq(Quoted)
      /\ RawText(piece) = <<"'">> \o tf \o <<"'">>
      /\ Meant(piece) = <<Literal("")>> \o mf
  BY QuotedPiece
<1>2. /\ text \in Seq(Seq(Chars)) /\ means \in Seq(Seq(Marks)) /\ Len(means) = Len(text)
  BY <1>1, QuotedTyped
<1> HIDE DEF text, means
<1>3. tf \in Seq(Chars) /\ Cuts(r, text, tf)
  BY <1>2, CutsExist
<1>4. mf \in Seq(Marks) /\ Cuts(m, means, mf)
  BY <1>2, CutsExist
<1> HIDE DEF tf, mf, r, m
<1>5. /\ \A n \in 0..Len(text) : r[n] \in Nat /\ r[n] <= Len(tf)
      /\ \A n \in 1..Len(text) : \A x \in 1..Len(text[n]) : r[n - 1] + x \in 1..Len(tf)
  BY <1>2, <1>3, CutsBound
<1>6. /\ \A n \in 0..Len(means) : m[n] \in Nat /\ m[n] <= Len(mf)
      /\ \A n \in 1..Len(means) : \A x \in 1..Len(means[n]) : m[n - 1] + x \in 1..Len(mf)
  BY <1>2, <1>4, CutsBound
<1>7. /\ r[0] = 0 /\ r[Len(text)] = Len(tf)
      /\ \A n \in 1..Len(text) : r[n] = r[n - 1] + Len(text[n])
      /\ \A n \in 1..Len(text) : \A x \in 1..Len(text[n]) : tf[r[n - 1] + x] = text[n][x]
  BY <1>3 DEF Cuts
<1>8. /\ m[0] = 0 /\ m[Len(means)] = Len(mf)
      /\ \A n \in 1..Len(means) : m[n] = m[n - 1] + Len(means[n])
      /\ \A n \in 1..Len(means) : \A x \in 1..Len(means[n]) : mf[m[n - 1] + x] = means[n][x]
  BY <1>4 DEF Cuts
<1>9. "'" \in Chars /\ Literal("") \in Marks
  BY DEF Chars, Literal, Marks
<1> DEFINE d == <<"'">> \o tf \o <<"'">>
           e == <<Literal("")>> \o mf
<1>10. d \in Seq(Chars) /\ IsEnclosed(d, "'", tf, "'")
  BY <1>3, <1>9, Enclosed
<1>11. e \in Seq(Marks) /\ IsPreceded(e, Literal(""), mf)
  BY <1>4, <1>9, Preceded
<1>12. d = RawText(piece) /\ e = Meant(piece)
  BY <1>1
<1> HIDE DEF d, e
<1>13. Section(piece, r, m)
  <2>1. \A n \in 1..Len(text) : \A x \in 1..Len(text[n]) : d[r[n - 1] + x + 1] = text[n][x]
    BY <1>5, <1>7, <1>10 DEF IsEnclosed
  <2>2. \A n \in 1..Len(text) : \A x \in 1..Len(means[n]) : e[m[n - 1] + x + 1] = means[n][x]
    BY <1>2, <1>6, <1>8, <1>11 DEF IsPreceded
  <2>3. \A n \in 0..Len(text) : r[n] \in Nat /\ m[n] \in Nat
    BY <1>2, <1>5, <1>6
  <2>4. \A n \in 0..Len(text) : r[n] <= r[Len(text)] /\ m[n] <= m[Len(text)]
    BY <1>2, <1>5, <1>6, <1>7, <1>8
  <2>5. \A n \in 1..Len(text) : r[n] = r[n - 1] + Len(text[n]) /\ m[n] = m[n - 1] + Len(means[n])
    BY <1>2, <1>7, <1>8
  <2>6. Len(d) = r[Len(text)] + 2 /\ Len(e) = m[Len(text)] + 1 /\ d[r[Len(text)] + 2] = "'"
    BY <1>2, <1>7, <1>8, <1>10, <1>11 DEF IsEnclosed, IsPreceded
  <2> HIDE DEF Literal
  <2>7. /\ r = Cut(piece.text) /\ m = Cut(QuotedMeaning(piece.text))
        /\ r[0] = 0 /\ m[0] = 0 /\ d[1] = "'" /\ e[1] = Literal("")
    BY <1>7, <1>8, <1>10, <1>11 DEF r, m, text, means, IsEnclosed, IsPreceded
  <2> QED BY <2>1, <2>2, <2>3, <2>4, <2>5, <2>6, <2>7, <1>12 DEF Section, text, means
<1>14. RawText(piece) \in Seq(Chars) /\ Meant(piece) \in Seq(Marks)
  BY <1>10, <1>11, <1>12
<1> QED BY <1>13, <1>14

-----------------------------------------------------------------------------
(* The pieces of a token *)

\* The characters of a piece and those it means are sequences, and not empty.
LEMMA PieceTyped ==
  ASSUME NEW piece \in Pieces
  PROVE  /\ piece.kind \in {"plain", "escape", "quoted"}
         /\ RawText(piece) \in Seq(Chars) /\ Len(RawText(piece)) > 0
         /\ Meant(piece) \in Seq(Marks)
<1>1. piece.kind \in {"plain", "escape", "quoted"}
  BY DEF Pieces
<1>2. CASE piece.kind = "plain"
  <2>1. /\ RawText(piece) = piece.text /\ piece.text \in Seq(Plain)
        /\ Len(piece.text) \in 1..2
        /\ Meant(piece) = [x \in DOMAIN piece.text |-> Active(piece.text[x])]
    BY <1>2, PlainPiece
  <2>2. PICK text \in Seq(Plain) : text = piece.text
    BY <2>1
  <2>3. Plain \subseteq Chars
    BY DEF Plain
  <2>4. \A c \in Chars : Active(c) \in Marks
    BY DEF Active, Marks
  <2>5. [x \in DOMAIN text |-> Active(text[x])] \in Seq(Marks)
    <3>1. \A x \in 1..Len(text) : Active(text[x]) \in Marks
      BY <2>3, <2>4
    <3> HIDE DEF Marks
    <3> QED BY <3>1
  <2>6. text \in Seq(Chars)
    BY <2>3
  <2>7. RawText(piece) \in Seq(Chars)
    BY <2>1, <2>2, <2>6
  <2>8. Meant(piece) \in Seq(Marks)
    BY <2>1, <2>2, <2>5
  <2>9. Len(RawText(piece)) > 0
    <3>1. RawText(piece) = piece.text
      BY <2>1
    <3> DEFINE l == Len(RawText(piece))
    <3>2. l \in 1..2
      BY <2>1, <3>1, Zenon
    <3> HIDE DEF l
    <3>3. l > 0
      BY <3>2
    <3> QED BY <3>3 DEF l
  <2> QED BY <1>1, <2>7, <2>8, <2>9
<1>3. CASE piece.kind = "escape"
  <2>1. PICK c \in Chars : /\ piece.text = <<c>>
                           /\ RawText(piece) \in Seq(Chars) /\ Len(RawText(piece)) = 2
    BY <1>3, EscapePiece
  <2>2. /\ c \in Escapable => Meant(piece) = <<Literal(c)>>
        /\ c = "newline" => Meant(piece) = <<Literal("")>>
        /\ c \notin Escapable \cup {"newline"} => Meant(piece) = <<Literal("\\"), Literal(c)>>
    BY <1>3, <2>1, EscapeMeans
  <2>3. Literal(c) \in Marks /\ Literal("\\") \in Marks /\ Literal("") \in Marks
    BY DEF Literal, Marks, Chars
  <2>4. /\ \A x \in Marks : <<x>> \in Seq(Marks)
        /\ \A x, y \in Marks : <<x, y>> \in Seq(Marks)
    OBVIOUS
  <2>5. Meant(piece) \in Seq(Marks)
    BY <2>2, <2>3, <2>4
  <2>6. RawText(piece) \in Seq(Chars) /\ Len(RawText(piece)) > 0
    <3>1. Len(RawText(piece)) = 2
      BY <2>1
    <3> QED BY <2>1, <3>1
  <2> QED BY <1>1, <2>5, <2>6
<1>4. CASE piece.kind = "quoted"
  <2>1. PICK r, m : Section(piece, r, m)
    BY <1>4, SectionExists
  <2>2. Len(RawText(piece)) = r[Len(piece.text)] + 2 /\ r[Len(piece.text)] \in Nat
    <3>1. piece.text \in Seq(Quoted)
      BY <1>4, QuotedPiece
    <3>2. Len(piece.text) \in 0..Len(piece.text)
      BY <3>1
    <3> QED BY <2>1, <3>2 DEF Section
  <2> QED BY <1>1, <1>4, <2>2, SectionExists
<1> QED BY <1>1, <1>2, <1>3, <1>4

\* A token is a sequence of pieces.
LEMMA TokenTyped ==
  ASSUME NEW t \in Tokens
  PROVE  /\ Len(t) \in Nat /\ DOMAIN t = 1..Len(t)
         /\ \A n \in 1..Len(t) : t[n] \in Pieces
         /\ Raws(t) \in Seq(Seq(Chars)) /\ Len(Raws(t)) = Len(t)
         /\ Means(t) \in Seq(Seq(Marks)) /\ Len(Means(t)) = Len(t)
         /\ \A n \in 1..Len(t) : Raws(t)[n] = RawText(t[n]) /\ Means(t)[n] = Meant(t[n])
<1>1. PICK n \in 1..MAX_PIECES : t \in [1..n -> Pieces]
  BY DEF Tokens
<1>2. t \in Seq(Pieces) /\ n \in Nat
  <2>1. n \in Nat
    BY TokenAssumption
  <2> QED BY <1>1, <2>1
<1>3. Len(t) \in Nat /\ DOMAIN t = 1..Len(t) /\ \A k \in 1..Len(t) : t[k] \in Pieces
  BY <1>2
<1> DEFINE R == Seq(Chars)
           M == Seq(Marks)
<1>4. \A k \in 1..Len(t) : RawText(t[k]) \in R /\ Meant(t[k]) \in M
  BY <1>3, PieceTyped
<1> HIDE DEF R, M
<1>5. Raws(t) = [k \in 1..Len(t) |-> RawText(t[k])] /\ Means(t) = [k \in 1..Len(t) |-> Meant(t[k])]
  BY <1>3 DEF Raws, Means
<1>6. /\ Raws(t) \in Seq(R) /\ Len(Raws(t)) = Len(t)
      /\ Means(t) \in Seq(M) /\ Len(Means(t)) = Len(t)
  BY <1>3, <1>4, <1>5
<1>7. \A k \in 1..Len(t) : Raws(t)[k] = RawText(t[k]) /\ Means(t)[k] = Meant(t[k])
  BY <1>5
<1> QED BY <1>3, <1>6, <1>7 DEF R, M

\* Every piece begins somewhere; where it ends, the next begins or the token ends.
LEMMA PieceOpens ==
  ASSUME NEW t \in Tokens, NEW n \in 1..Len(t)
  PROVE  \E a, b : Opens(t, n, a, b)
<1> DEFINE r == Cut(Raws(t))
           m == Cut(Means(t))
<1>1. /\ Len(t) \in Nat
      /\ Raws(t) \in Seq(Seq(Chars)) /\ Len(Raws(t)) = Len(t)
      /\ Means(t) \in Seq(Seq(Marks)) /\ Len(Means(t)) = Len(t)
      /\ \A k \in 1..Len(t) : Raws(t)[k] = RawText(t[k]) /\ Means(t)[k] = Meant(t[k])
  BY TokenTyped
<1>2. Text(t) \in Seq(Chars) /\ Cuts(r, Raws(t), Text(t))
  BY <1>1, CutsExist DEF Text
<1>3. Characters(t) \in Seq(Marks) /\ Cuts(m, Means(t), Characters(t))
  BY <1>1, CutsExist DEF Characters
<1> HIDE DEF r, m
<1>4. \A k \in 0..Len(t) : r[k] \in Nat /\ r[k] <= Len(Text(t))
  BY <1>1, <1>2, CutsBound
<1>5. \A k \in 0..Len(t) : m[k] \in Nat /\ m[k] <= Len(Characters(t))
  BY <1>1, <1>3, CutsBound
<1>6. /\ r[n] = r[n - 1] + Len(RawText(t[n]))
      /\ \A x \in 1..Len(RawText(t[n])) : Text(t)[r[n - 1] + x] = RawText(t[n])[x]
  <2>1. Raws(t)[n] = RawText(t[n]) /\ n \in 1..Len(Raws(t))
    BY <1>1
  <2>2. /\ r[n] = r[n - 1] + Len(Raws(t)[n])
        /\ \A x \in 1..Len(Raws(t)[n]) : Text(t)[r[n - 1] + x] = Raws(t)[n][x]
    BY <1>2, <2>1, CutsPart
  <2> QED BY <2>1, <2>2
<1>7. /\ m[n] = m[n - 1] + Len(Meant(t[n]))
      /\ \A x \in 1..Len(Meant(t[n])) : Characters(t)[m[n - 1] + x] = Meant(t[n])[x]
  <2>1. Means(t)[n] = Meant(t[n]) /\ n \in 1..Len(Means(t))
    BY <1>1
  <2>2. /\ m[n] = m[n - 1] + Len(Means(t)[n])
        /\ \A x \in 1..Len(Means(t)[n]) : Characters(t)[m[n - 1] + x] = Means(t)[n][x]
    BY <1>3, <2>1, CutsPart
  <2> QED BY <2>1, <2>2
<1>8. n \in 0..Len(t) /\ n - 1 \in 0..Len(t)
  BY <1>1
<1>9. Between(t, r[n] + 1, m[n] + 1)
  BY <1>8 DEF Between, r, m
<1>10. Opens(t, n, r[n - 1], m[n - 1])
  <2>1. r[n - 1] \in Nat /\ m[n - 1] \in Nat /\ r[n] <= Len(Text(t)) /\ m[n] <= Len(Characters(t))
    BY <1>4, <1>5, <1>8
  <2>2. r[n - 1] = Cut(Raws(t))[n - 1] /\ m[n - 1] = Cut(Means(t))[n - 1]
    BY DEF r, m
  <2> QED BY <1>6, <1>7, <1>9, <2>1, <2>2 DEF Opens
<1> QED BY <1>10

\* Between two pieces, the next one opens; behind the last, the token ends.
LEMMA BetweenOpens ==
  ASSUME NEW t \in Tokens, NEW j, NEW k, Between(t, j, k)
  PROVE  \/ j = Len(Text(t)) + 1 /\ k = Len(Characters(t)) + 1
         \/ \E n \in 1..Len(t) : \E a, b : Opens(t, n, a, b) /\ j = a + 1 /\ k = b + 1
<1>1. /\ Len(t) \in Nat
      /\ Raws(t) \in Seq(Seq(Chars)) /\ Len(Raws(t)) = Len(t)
      /\ Means(t) \in Seq(Seq(Marks)) /\ Len(Means(t)) = Len(t)
  BY TokenTyped
<1>2. PICK n \in 0..Len(t) : j = Cut(Raws(t))[n] + 1 /\ k = Cut(Means(t))[n] + 1
  BY DEF Between
<1>3. CASE n = Len(t)
  <2>1. Cut(Raws(t))[n] = Len(Text(t))
    <3>1. Cuts(Cut(Raws(t)), Raws(t), Text(t))
      BY <1>1, CutsExist DEF Text
    <3> QED BY <1>1, <1>3, <3>1 DEF Cuts
  <2>2. Cut(Means(t))[n] = Len(Characters(t))
    <3>1. Cuts(Cut(Means(t)), Means(t), Characters(t))
      BY <1>1, CutsExist DEF Characters
    <3> QED BY <1>1, <1>3, <3>1 DEF Cuts
  <2> QED BY <1>2, <2>1, <2>2
<1>4. CASE n # Len(t)
  <2>1. n + 1 \in 1..Len(t) /\ (n + 1) - 1 = n
    BY <1>1, <1>4
  <2>2. PICK a, b : Opens(t, n + 1, a, b)
    BY <2>1, PieceOpens
  <2>3. a = Cut(Raws(t))[n] /\ b = Cut(Means(t))[n]
    BY <2>1, <2>2 DEF Opens
  <2> QED BY <1>2, <2>1, <2>2, <2>3
<1> QED BY <1>3, <1>4

-----------------------------------------------------------------------------
(* What the scan reads at a place, and the place behind it *)

\* At j there is c, and the character of the meaning at k is mark.
Reads(t, j, c, k, mark) ==
  /\ j \in 1..Len(Text(t)) /\ Text(t)[j] = c
  /\ k \in 1..Len(Characters(t)) /\ Characters(t)[k] = mark

\* A character of a piece, and one of those it means.
LEMMA PieceReads ==
  ASSUME NEW t \in Tokens, NEW n \in 1..Len(t), NEW a, NEW b, Opens(t, n, a, b),
         NEW x \in 1..Len(RawText(t[n])), NEW y \in 1..Len(Meant(t[n]))
  PROVE  Reads(t, a + x, RawText(t[n])[x], b + y, Meant(t[n])[y])
<1> DEFINE r == Len(RawText(t[n]))
           m == Len(Meant(t[n]))
           rt == Len(Text(t))
           mt == Len(Characters(t))
<1>1. t[n] \in Pieces
  BY TokenTyped
<1>2. RawText(t[n]) \in Seq(Chars) /\ Meant(t[n]) \in Seq(Marks)
  BY <1>1, PieceTyped
<1>3. r \in Nat /\ m \in Nat
  BY <1>2
<1>4. /\ Raws(t) \in Seq(Seq(Chars)) /\ Means(t) \in Seq(Seq(Marks))
  BY TokenTyped
<1>5. Text(t) \in Seq(Chars) /\ Characters(t) \in Seq(Marks)
  BY <1>4, CutsExist DEF Text, Characters
<1>6. rt \in Nat /\ mt \in Nat
  BY <1>5
<1>7. a \in Nat /\ b \in Nat /\ a + r <= rt /\ b + m <= mt
  BY DEF Opens
<1>8. Text(t)[a + x] = RawText(t[n])[x] /\ Characters(t)[b + y] = Meant(t[n])[y]
  BY DEF Opens
<1>9. x \in 1..r /\ y \in 1..m
  OBVIOUS
<1> HIDE DEF r, m, rt, mt
<1>10. a + x \in 1..rt /\ b + y \in 1..mt
  BY <1>3, <1>6, <1>7, <1>9
<1> QED BY <1>8, <1>10 DEF Reads, rt, mt

\* A place inside a piece.
LEMMA PieceInside ==
  ASSUME NEW t \in Tokens, NEW n \in 1..Len(t), NEW a, NEW b, Opens(t, n, a, b),
         NEW u \in Nat, NEW v \in Nat, Passed(t[n], u, v)
  PROVE  Inside(t, t[n].kind, a + u + 1, b + v + 1)
<1>1. /\ a \in Nat /\ a = Cut(Raws(t))[n - 1]
      /\ b \in Nat /\ b = Cut(Means(t))[n - 1]
  BY DEF Opens
<1>2. (a + u + 1) - 1 - a = u /\ (b + v + 1) - 1 - b = v
  BY <1>1, BackByOffset
<1>3. n \in DOMAIN t
  BY TokenTyped
<1>4. Passed(t[n], (a + u + 1) - 1 - Cut(Raws(t))[n - 1], (b + v + 1) - 1 - Cut(Means(t))[n - 1])
  BY <1>1, <1>2
<1> QED BY <1>3, <1>4 DEF Inside

\* j and k are inside piece n, which begins behind a and b.
IsInside(t, kind, j, k, n, a, b, u, v) ==
  /\ Opens(t, n, a, b) /\ t[n].kind = kind
  /\ a \in Nat /\ b \in Nat /\ u \in Int /\ v \in Int
  /\ Passed(t[n], u, v) /\ j = a + u + 1 /\ k = b + v + 1

\* A place inside a piece is one inside a piece that begins somewhere.
LEMMA InsidePiece ==
  ASSUME NEW t \in Tokens, NEW kind, NEW j \in Nat, NEW k \in Nat, Inside(t, kind, j, k)
  PROVE  \E n \in 1..Len(t) : \E a, b, u, v : IsInside(t, kind, j, k, n, a, b, u, v)
<1>1. PICK n \in 1..Len(t) :
        /\ t[n].kind = kind
        /\ Passed(t[n], j - 1 - Cut(Raws(t))[n - 1], k - 1 - Cut(Means(t))[n - 1])
  BY TokenTyped DEF Inside
<1>2. PICK a, b : Opens(t, n, a, b)
  BY PieceOpens
<1>3. /\ a \in Nat /\ a = Cut(Raws(t))[n - 1]
      /\ b \in Nat /\ b = Cut(Means(t))[n - 1]
  BY <1>2 DEF Opens
<1> DEFINE u == j - 1 - a
           v == k - 1 - b
<1>4. u \in Int /\ v \in Int /\ j = a + u + 1 /\ k = b + v + 1
  <2>1. a \in Int /\ b \in Int
    BY <1>3
  <2> QED BY <2>1
<1>5. u = j - 1 - Cut(Raws(t))[n - 1] /\ v = k - 1 - Cut(Means(t))[n - 1]
  BY <1>3
<1> HIDE DEF u, v
<1>6. Passed(t[n], u, v)
  BY <1>1, <1>5, Zenon
<1>7. IsInside(t, kind, j, k, n, a, b, u, v)
  BY <1>1, <1>2, <1>3, <1>4, <1>6, Zenon DEF IsInside
<1> QED BY <1>7

\* A plain character is read as it is, outside quotes and behind no backslash.
LEMMA PlainStep ==
  ASSUME NEW t \in Tokens, NEW n \in 1..Len(t), NEW a, NEW b, Opens(t, n, a, b),
         t[n].kind = "plain", NEW x \in 1..Len(t[n].text)
  PROVE  \E c \in Plain :
           Reads(t, a + x, c, b + x, Active(c)) /\ Unquoted(t, a + x + 1, b + x + 1)
<1>1. t[n] \in Pieces
  BY TokenTyped
<1>2. /\ RawText(t[n]) = t[n].text
      /\ t[n].text \in Seq(Plain)
      /\ Len(t[n].text) \in 1..2
      /\ Meant(t[n]) = [y \in DOMAIN t[n].text |-> Active(t[n].text[y])]
  BY <1>1, PlainPiece
<1>3. DOMAIN t[n].text = 1..Len(t[n].text) /\ t[n].text[x] \in Plain
  BY <1>2
<1>4. Len(Meant(t[n])) = Len(t[n].text) /\ Meant(t[n])[x] = Active(t[n].text[x])
  <2>1. Meant(t[n]) = [y \in 1..Len(t[n].text) |-> Active(t[n].text[y])]
    BY <1>2, <1>3
  <2>2. Len(t[n].text) \in Nat
    BY <1>2
  <2> HIDE DEF Active
  <2> QED BY <2>1, <2>2
<1>5. Reads(t, a + x, t[n].text[x], b + x, Active(t[n].text[x]))
  <2>1. x \in 1..Len(RawText(t[n])) /\ x \in 1..Len(Meant(t[n]))
    BY <1>2, <1>4
  <2>2. Reads(t, a + x, RawText(t[n])[x], b + x, Meant(t[n])[x])
    BY <2>1, PieceReads
  <2> QED BY <2>2, <1>2, <1>4
<1>6. CASE x = Len(t[n].text)
  <2>1. Between(t, a + Len(RawText(t[n])) + 1, b + Len(Meant(t[n])) + 1)
    BY DEF Opens
  <2>2. Between(t, a + x + 1, b + x + 1)
    BY <2>1, <1>2, <1>4, <1>6
  <2> QED BY <1>3, <1>5, <2>2 DEF Unquoted
<1>7. CASE x # Len(t[n].text)
  <2>1. Len(t[n].text) = 2 /\ x = 1
    BY <1>2, <1>7
  <2>2. Passed(t[n], 1, 1)
    BY <2>1 DEF Passed
  <2>3. Inside(t, "plain", a + 1 + 1, b + 1 + 1)
    BY <2>2, PieceInside
  <2> QED BY <1>3, <1>5, <2>1, <2>3 DEF Unquoted
<1> QED BY <1>6, <1>7

\* An escaped character means itself, but an escaped newline nothing; behind a
\* backslash that escapes nothing the character is read as it is.
Escapes(t, a, b, c) ==
  /\ a \in Nat /\ a + 2 \in 1..Len(Text(t)) /\ Text(t)[a + 2] = c
  /\ c \in Escapable => /\ Reads(t, a + 1, "\\", b + 1, Literal(c))
                        /\ Between(t, a + 3, b + 2)
  /\ c = "newline" => /\ Reads(t, a + 1, "\\", b + 1, Literal(""))
                      /\ Between(t, a + 3, b + 2)
  /\ c \notin Escapable \cup {"newline"} =>
       /\ Reads(t, a + 1, "\\", b + 1, Literal("\\"))
       /\ Inside(t, "escape", a + 2, b + 2)

\* An escape does what Escapes says of its character.
LEMMA EscapeStep ==
  ASSUME NEW t \in Tokens, NEW n \in 1..Len(t), NEW a, NEW b, Opens(t, n, a, b),
         t[n].kind = "escape"
  PROVE  \E c \in Chars : Escapes(t, a, b, c)
<1>1. t[n] \in Pieces
  BY TokenTyped
<1>2. PICK c \in Chars :
        /\ t[n].text = <<c>>
        /\ RawText(t[n]) \in Seq(Chars) /\ Len(RawText(t[n])) = 2
        /\ RawText(t[n])[1] = "\\" /\ RawText(t[n])[2] = c
  BY <1>1, EscapePiece
<1>3. /\ c \in Escapable => Meant(t[n]) = <<Literal(c)>>
      /\ c = "newline" => Meant(t[n]) = <<Literal("")>>
      /\ c \notin Escapable \cup {"newline"} => Meant(t[n]) = <<Literal("\\"), Literal(c)>>
  BY <1>2, EscapeMeans
<1>4. /\ \A m : Len(<<m>>) = 1 /\ <<m>>[1] = m
      /\ \A m, l : Len(<<m, l>>) = 2 /\ <<m, l>>[1] = m
  OBVIOUS
<1>5. 1 \in 1..Len(RawText(t[n])) /\ 2 \in 1..Len(RawText(t[n]))
  BY <1>2
<1>6. Len(Meant(t[n])) = 1 \/ Len(Meant(t[n])) = 2
  BY <1>3, <1>4, Zenon
<1>7. 1 \in 1..Len(Meant(t[n]))
  BY <1>6, FirstOfTwo
<1>8. Reads(t, a + 1, "\\", b + 1, Meant(t[n])[1])
  BY <1>2, <1>5, <1>7, PieceReads
<1>9. Reads(t, a + 2, c, b + 1, Meant(t[n])[1])
  BY <1>2, <1>5, <1>7, PieceReads
<1>10. a + 2 \in 1..Len(Text(t)) /\ Text(t)[a + 2] = c
  BY <1>9 DEF Reads
<1>11. /\ a \in Nat /\ b \in Nat
       /\ Between(t, a + Len(RawText(t[n])) + 1, b + Len(Meant(t[n])) + 1)
  BY DEF Opens
<1>12. CASE c \in Escapable
  <2>1. c # "newline" /\ Meant(t[n]) = <<Literal(c)>>
    BY <1>3, <1>12 DEF Escapable
  <2>2. Len(Meant(t[n])) = 1 /\ Meant(t[n])[1] = Literal(c)
    BY <1>4, <2>1
  <2>3. a + 2 + 1 = a + 3 /\ b + 1 + 1 = b + 2
    BY <1>11
  <2>4. Between(t, a + 3, b + 2)
    BY <1>2, <1>11, <2>2, <2>3
  <2> QED BY <1>8, <1>10, <1>11, <1>12, <2>1, <2>2, <2>4 DEF Escapes
<1>13. CASE c = "newline"
  <2>1. c \notin Escapable /\ Meant(t[n]) = <<Literal("")>>
    BY <1>3, <1>13 DEF Escapable
  <2>2. Len(Meant(t[n])) = 1 /\ Meant(t[n])[1] = Literal("")
    BY <1>4, <2>1
  <2>3. a + 2 + 1 = a + 3 /\ b + 1 + 1 = b + 2
    BY <1>11
  <2>4. Between(t, a + 3, b + 2)
    BY <1>2, <1>11, <2>2, <2>3
  <2> QED BY <1>8, <1>10, <1>11, <1>13, <2>1, <2>2, <2>4 DEF Escapes
<1>14. CASE c \notin Escapable \cup {"newline"}
  <2>1. Meant(t[n])[1] = Literal("\\")
    <3>1. Meant(t[n]) = <<Literal("\\"), Literal(c)>>
      BY <1>3, <1>14
    <3>2. <<Literal("\\"), Literal(c)>>[1] = Literal("\\")
      OBVIOUS
    <3> QED BY <3>1, <3>2
  <2>2. t[n].text[1] = c
    BY <1>2
  <2>3. Passed(t[n], 1, 1)
    BY <1>14, <2>2 DEF Passed
  <2>4. Inside(t, "escape", a + 1 + 1, b + 1 + 1)
    BY <2>3, PieceInside
  <2>5. a + 1 + 1 = a + 2 /\ b + 1 + 1 = b + 2
    BY <1>11
  <2> QED BY <1>8, <1>10, <1>11, <1>14, <2>1, <2>4, <2>5 DEF Escapes
<1> QED BY <1>12, <1>13, <1>14

\* Behind a backslash that escapes nothing, the character is read as it is.
LEMMA EscapedStep ==
  ASSUME NEW t \in Tokens, NEW j \in Nat, NEW k \in Nat, Inside(t, "escape", j, k)
  PROVE  \E c \in Chars \ (Escapable \cup {"newline"}) :
           Reads(t, j, c, k, Literal(c)) /\ Between(t, j + 1, k + 1)
<1>0. PICK n \in 1..Len(t) : \E a, b, u, v : IsInside(t, "escape", j, k, n, a, b, u, v)
  BY InsidePiece
<1>1. PICK a, b, u, v :
        /\ Opens(t, n, a, b) /\ t[n].kind = "escape"
        /\ a \in Nat /\ b \in Nat /\ Passed(t[n], u, v) /\ j = a + u + 1 /\ k = b + v + 1
  BY <1>0 DEF IsInside
<1>2. t[n].text[1] \notin Escapable \cup {"newline"} /\ u = 1 /\ v = 1
  BY <1>1 DEF Passed
<1>3. t[n] \in Pieces
  BY TokenTyped
<1>4. PICK c \in Chars :
        /\ t[n].text = <<c>>
        /\ RawText(t[n]) \in Seq(Chars) /\ Len(RawText(t[n])) = 2
        /\ RawText(t[n])[1] = "\\" /\ RawText(t[n])[2] = c
  BY <1>1, <1>3, EscapePiece
<1>5. c \notin Escapable \cup {"newline"}
  BY <1>2, <1>4
<1>6. Meant(t[n]) = <<Literal("\\"), Literal(c)>>
  BY <1>1, <1>4, <1>5, EscapeMeans
<1>7. Len(Meant(t[n])) = 2 /\ Meant(t[n])[2] = Literal(c)
  BY <1>6
<1>8. 2 \in 1..Len(RawText(t[n])) /\ 2 \in 1..Len(Meant(t[n]))
  BY <1>4, <1>7
<1>9. Reads(t, a + 2, c, b + 2, Literal(c))
  <2>1. Reads(t, a + 2, RawText(t[n])[2], b + 2, Meant(t[n])[2])
    BY <1>1, <1>8, PieceReads
  <2> QED BY <2>1, <1>4, <1>7
<1>10. Between(t, a + 2 + 1, b + 2 + 1)
  BY <1>1, <1>4, <1>7 DEF Opens
<1>11. j = a + 2 /\ k = b + 2
  BY <1>1, <1>2
<1> QED BY <1>5, <1>9, <1>10, <1>11

\* An element of a quoted section: a character, one behind a backslash that
\* escapes nothing, or an escaped quote.
Single(e, w, c) ==
  /\ c \in {"letter", "$", "newline"}
  /\ Len(e) = 1 /\ e[1] = c /\ Len(w) = 1 /\ w[1] = Literal(c)
Pair(e, w, c) ==
  /\ c \in {"letter", "\\"} /\ e = <<"\\", c>>
  /\ Len(e) = 2 /\ e[1] = "\\" /\ e[2] = c
  /\ Len(w) = 2 /\ w[1] = Literal("\\") /\ w[2] = Literal(c)
EscapedQuote(e, w) ==
  Len(e) = 2 /\ e[1] = "\\" /\ e[2] = "'" /\ Len(w) = 1 /\ w[1] = Literal("'")

\* An element of a quoted section is one of the three kinds.
LEMMA ElementMeans ==
  ASSUME NEW text \in Seq(Quoted), NEW n \in 1..Len(text)
  PROVE  \/ \E c : Single(text[n], QuotedMeaning(text)[n], c)
         \/ \E c : Pair(text[n], QuotedMeaning(text)[n], c)
         \/ EscapedQuote(text[n], QuotedMeaning(text)[n])
<1> DEFINE e == text[n]
           w == QuotedMeaning(text)[n]
<1>1. e \in Quoted
  OBVIOUS
<1>2. w = IF e = <<"\\", "'">> THEN <<Literal("'")>> ELSE [j \in DOMAIN e |-> Literal(e[j])]
  BY DEF QuotedMeaning
<1> HIDE DEF e, w
<1>3. CASE \E c \in {"letter", "$", "newline"} : e = <<c>>
  <2>1. PICK c \in {"letter", "$", "newline"} : e = <<c>>
    BY <1>3
  <2>2. Len(e) = 1 /\ e[1] = c /\ DOMAIN e = 1..1 /\ e # <<"\\", "'">>
    BY <2>1
  <2>3. w = [j \in 1..1 |-> Literal(e[j])]
    BY <1>2, <2>2
  <2>4. Len(w) = 1 /\ w[1] = Literal(c)
    BY <2>2, <2>3
  <2> QED BY <2>2, <2>4 DEF Single, e, w
<1>4. CASE e = <<"\\", "letter">> \/ e = <<"\\", "\\">>
  <2>1. PICK c \in {"letter", "\\"} : e = <<"\\", c>>
    BY <1>4
  <2>2. Len(e) = 2 /\ e[1] = "\\" /\ e[2] = c /\ DOMAIN e = 1..2 /\ e # <<"\\", "'">>
    BY <2>1
  <2>3. w = [j \in 1..2 |-> Literal(e[j])]
    BY <1>2, <2>2
  <2>4. Len(w) = 2 /\ w[1] = Literal("\\") /\ w[2] = Literal(c)
    BY <2>2, <2>3
  <2>5. Pair(e, w, c)
    BY <2>1, <2>2, <2>4 DEF Pair
  <2> QED BY <2>5 DEF e, w
<1>5. CASE e = <<"\\", "'">>
  <2>1. Len(e) = 2 /\ e[1] = "\\" /\ e[2] = "'"
    BY <1>5
  <2>2. w = <<Literal("'")>>
    BY <1>2, <1>5
  <2>3. Len(w) = 1 /\ w[1] = Literal("'")
    BY <2>2
  <2> QED BY <2>1, <2>3 DEF EscapedQuote, e, w
<1> QED BY <1>1, <1>3, <1>4, <1>5, QuotedElements

\* Element n + 1 of a quoted section.
ElementAt(piece, r, m, n, e, w) ==
  /\ n \in Nat /\ n + 1 \in 1..Len(piece.text) /\ n + 1 \in 0..Len(piece.text)
  /\ e = piece.text[n + 1] /\ w = QuotedMeaning(piece.text)[n + 1]
  /\ r = Cut(piece.text) /\ m = Cut(QuotedMeaning(piece.text))
  /\ r[n] \in Nat /\ m[n] \in Nat
  /\ r[n + 1] = r[n] + Len(e) /\ m[n + 1] = m[n] + Len(w)
  /\ r[n + 1] + 2 <= Len(RawText(piece)) /\ m[n + 1] + 1 <= Len(Meant(piece))
  /\ \A x \in 1..Len(e) : RawText(piece)[r[n] + x + 1] = e[x]
  /\ \A x \in 1..Len(w) : Meant(piece)[m[n] + x + 1] = w[x]

\* Element n is read where those before it end.
LEMMA ElementIsAt ==
  ASSUME NEW piece \in Pieces, piece.kind = "quoted", NEW r, NEW m, Section(piece, r, m),
         NEW n \in 0..Len(piece.text), n # Len(piece.text)
  PROVE  ElementAt(piece, r, m, n, piece.text[n + 1], QuotedMeaning(piece.text)[n + 1])
<1> DEFINE text == piece.text
           means == QuotedMeaning(piece.text)
<1>1. text \in Seq(Quoted)
  BY QuotedPiece
<1>2. Len(text) \in Nat
  BY <1>1
<1>3. /\ n \in Nat /\ n + 1 \in 1..Len(text) /\ n + 1 \in 0..Len(text) /\ (n + 1) - 1 = n
      /\ Len(text) \in 0..Len(text)
  BY <1>2
<1>4. /\ r = Cut(text) /\ m = Cut(means)
      /\ \A k \in 0..Len(text) : r[k] \in Nat /\ m[k] \in Nat
      /\ \A k \in 0..Len(text) : r[k] <= r[Len(text)] /\ m[k] <= m[Len(text)]
      /\ \A k \in 1..Len(text) : r[k] = r[k - 1] + Len(text[k]) /\ m[k] = m[k - 1] + Len(means[k])
  BY DEF Section
<1>5. Len(RawText(piece)) = r[Len(text)] + 2 /\ Len(Meant(piece)) = m[Len(text)] + 1
  BY DEF Section
<1>6. /\ \A k \in 1..Len(text) : \A x \in 1..Len(text[k]) :
           RawText(piece)[r[k - 1] + x + 1] = text[k][x]
      /\ \A k \in 1..Len(text) : \A x \in 1..Len(means[k]) :
           Meant(piece)[m[k - 1] + x + 1] = means[k][x]
  BY DEF Section
<1> HIDE DEF text, means
<1>7. /\ r[n] \in Nat /\ m[n] \in Nat
      /\ r[n + 1] = r[n] + Len(text[n + 1]) /\ m[n + 1] = m[n] + Len(means[n + 1])
  BY <1>3, <1>4
<1>8. r[n + 1] + 2 <= Len(RawText(piece)) /\ m[n + 1] + 1 <= Len(Meant(piece))
  <2>1. /\ r[n + 1] <= r[Len(text)] /\ m[n + 1] <= m[Len(text)]
        /\ r[n + 1] \in Nat /\ m[n + 1] \in Nat /\ r[Len(text)] \in Nat /\ m[Len(text)] \in Nat
    BY <1>3, <1>4
  <2>2. r[n + 1] + 2 <= r[Len(text)] + 2 /\ m[n + 1] + 1 <= m[Len(text)] + 1
    BY <2>1, StillWithin
  <2> QED BY <2>2, <1>5
<1>9. /\ \A x \in 1..Len(text[n + 1]) : RawText(piece)[r[n] + x + 1] = text[n + 1][x]
      /\ \A x \in 1..Len(means[n + 1]) : Meant(piece)[m[n] + x + 1] = means[n + 1][x]
  BY <1>3, <1>6
<1> QED BY <1>3, <1>4, <1>7, <1>8, <1>9 DEF ElementAt, text, means

\* In a quoted section, the scan comes to its end or it takes c for x.
Ends(piece, u, v) ==
  u + 1 = Len(RawText(piece)) /\ RawText(piece)[u + 1] = "'" /\ v = Len(Meant(piece))
\* The next character is c, and the next one it means is x.
Takes(piece, u, v, c, x) ==
  /\ u + 1 \in 1..Len(RawText(piece)) /\ RawText(piece)[u + 1] = c
  /\ v + 1 \in 1..Len(Meant(piece)) /\ Meant(piece)[v + 1] = Literal(x)
\* The character behind the next one is, or is not, a quote.
IsFollowedBy(piece, u, quote) ==
  u + 2 \in 1..Len(RawText(piece)) /\ (RawText(piece)[u + 2] = "'") = quote
\* What the scan does in a quoted section, in the piece's own numbers.
QuotedGoes(piece, u, v) ==
  \/ Ends(piece, u, v)
  \/ \E c \in {"letter", "$", "newline"} :
       Takes(piece, u, v, c, c) /\ Passed(piece, u + 1, v + 1)
  \/ Takes(piece, u, v, "\\", "'") /\ IsFollowedBy(piece, u, TRUE) /\ Passed(piece, u + 2, v + 1)
  \/ Takes(piece, u, v, "\\", "\\") /\ IsFollowedBy(piece, u, FALSE) /\ Passed(piece, u + 1, v + 1)

\* Behind some of the elements the scan is inside the section.
LEMMA PassedElements ==
  ASSUME NEW piece, piece.kind = "quoted", NEW n \in 0..Len(piece.text)
  PROVE  /\ Passed(piece, 1 + Cut(piece.text)[n], 1 + Cut(QuotedMeaning(piece.text))[n])
         /\ n < Len(piece.text) /\ piece.text[n + 1] \in {<<"\\", "letter">>, <<"\\", "\\">>} =>
              Passed(piece, 2 + Cut(piece.text)[n], 2 + Cut(QuotedMeaning(piece.text))[n])
  BY DEF Passed

\* What is read where an element begins.
LEMMA ElementStart ==
  ASSUME NEW piece \in Pieces, piece.kind = "quoted", NEW r, NEW m, NEW n, NEW e, NEW w,
         ElementAt(piece, r, m, n, e, w)
  PROVE  QuotedGoes(piece, 1 + r[n], 1 + m[n])
<1> DEFINE u == 1 + r[n]
           v == 1 + m[n]
           rl == Len(RawText(piece))
           ml == Len(Meant(piece))
<1>1. piece.text \in Seq(Quoted)
  BY QuotedPiece
<1>2. /\ n \in Nat /\ n + 1 \in 1..Len(piece.text) /\ n + 1 \in 0..Len(piece.text)
      /\ e = piece.text[n + 1] /\ w = QuotedMeaning(piece.text)[n + 1]
      /\ r = Cut(piece.text) /\ m = Cut(QuotedMeaning(piece.text))
  BY DEF ElementAt
<1>3. /\ r[n] \in Nat /\ m[n] \in Nat
      /\ r[n + 1] = r[n] + Len(e) /\ m[n + 1] = m[n] + Len(w)
      /\ r[n + 1] + 2 <= rl /\ m[n + 1] + 1 <= ml
  BY DEF ElementAt
<1>4. /\ \A x \in 1..Len(e) : RawText(piece)[r[n] + x + 1] = e[x]
      /\ \A x \in 1..Len(w) : Meant(piece)[m[n] + x + 1] = w[x]
  BY DEF ElementAt
<1>5. rl \in Nat /\ ml \in Nat
  <2>1. RawText(piece) \in Seq(Chars) /\ Meant(piece) \in Seq(Marks)
    BY PieceTyped
  <2> QED BY <2>1
<1>6. Passed(piece, 1 + r[n + 1], 1 + m[n + 1])
  BY <1>2, PassedElements
<1>7. u \in Nat /\ v \in Nat /\ r[n] + 1 + 1 = u + 1 /\ r[n] + 2 + 1 = u + 2 /\ m[n] + 1 + 1 = v + 1
  <2>1. r[n] \in Nat /\ m[n] \in Nat
    BY <1>3
  <2> QED BY <2>1
<1>8. CASE \E c : Single(e, w, c)
  <2>1. PICK c : Single(e, w, c)
    BY <1>8
  <2>2. Len(e) = 1 /\ e[1] = c /\ Len(w) = 1 /\ w[1] = Literal(c)
       /\ c \in {"letter", "$", "newline"}
    BY <2>1 DEF Single
  <2>3. RawText(piece)[u + 1] = c /\ Meant(piece)[v + 1] = Literal(c)
    BY <1>4, <1>7, <2>2
  <2>4. 1 + r[n + 1] = u + 1 /\ 1 + m[n + 1] = v + 1
    BY <1>3, <2>2
  <2> HIDE DEF rl, ml
  <2>5. u + 1 \in 1..rl /\ v + 1 \in 1..ml
    BY <1>3, <1>5, <2>2
  <2>6. Takes(piece, u, v, c, c) /\ Passed(piece, u + 1, v + 1)
    BY <1>6, <2>3, <2>4, <2>5 DEF Takes, rl, ml
  <2> QED BY <2>2, <2>6 DEF QuotedGoes
<1>9. CASE \E c : Pair(e, w, c)
  <2>1. PICK c : Pair(e, w, c)
    BY <1>9
  <2>2. /\ Len(e) = 2 /\ e[1] = "\\" /\ e[2] = c /\ Len(w) = 2 /\ w[1] = Literal("\\")
        /\ c # "'" /\ e \in {<<"\\", "letter">>, <<"\\", "\\">>}
    BY <2>1 DEF Pair
  <2>3. RawText(piece)[u + 1] = "\\" /\ RawText(piece)[u + 2] = c
       /\ Meant(piece)[v + 1] = Literal("\\")
    BY <1>4, <1>7, <2>2
  <2>4. 2 + r[n] = u + 1 /\ 2 + m[n] = v + 1
    BY <1>3
  <2>5. Passed(piece, u + 1, v + 1)
    <3>1. n \in 0..Len(piece.text) /\ n < Len(piece.text)
      BY <1>1, <1>2
    <3>2. Passed(piece, 2 + r[n], 2 + m[n])
      BY <1>2, <2>2, <3>1, PassedElements
    <3> QED BY <2>4, <3>2
  <2> HIDE DEF rl, ml
  <2>6. u + 1 \in 1..rl /\ u + 2 \in 1..rl /\ v + 1 \in 1..ml
    BY <1>3, <1>5, <2>2
  <2>7. Takes(piece, u, v, "\\", "\\") /\ IsFollowedBy(piece, u, FALSE)
    BY <2>2, <2>3, <2>6 DEF Takes, IsFollowedBy, rl, ml
  <2> QED BY <2>5, <2>7 DEF QuotedGoes
<1>10. CASE EscapedQuote(e, w)
  <2>1. Len(e) = 2 /\ e[1] = "\\" /\ e[2] = "'" /\ Len(w) = 1 /\ w[1] = Literal("'")
    BY <1>10 DEF EscapedQuote
  <2>2. RawText(piece)[u + 1] = "\\" /\ RawText(piece)[u + 2] = "'"
       /\ Meant(piece)[v + 1] = Literal("'")
    BY <1>4, <1>7, <2>1
  <2>3. 1 + r[n + 1] = u + 2 /\ 1 + m[n + 1] = v + 1
    BY <1>3, <2>1
  <2> HIDE DEF rl, ml
  <2>4. u + 1 \in 1..rl /\ u + 2 \in 1..rl /\ v + 1 \in 1..ml
    BY <1>3, <1>5, <2>1
  <2>5. Takes(piece, u, v, "\\", "'") /\ IsFollowedBy(piece, u, TRUE) /\ Passed(piece, u + 2, v + 1)
    BY <1>6, <2>2, <2>3, <2>4 DEF Takes, IsFollowedBy, rl, ml
  <2> QED BY <2>5 DEF QuotedGoes
<1> QED BY <1>1, <1>2, <1>8, <1>9, <1>10, ElementMeans

\* What is read behind the backslash of an element.
LEMMA ElementMiddle ==
  ASSUME NEW piece \in Pieces, piece.kind = "quoted", ~EndsWithBackslash(piece),
         NEW r, NEW m, Section(piece, r, m), NEW n \in 0..Len(piece.text), n < Len(piece.text),
         piece.text[n + 1] \in {<<"\\", "letter">>, <<"\\", "\\">>}
  PROVE  QuotedGoes(piece, 2 + r[n], 2 + m[n])
<1> DEFINE u == 2 + r[n]
           v == 2 + m[n]
           rl == Len(RawText(piece))
           ml == Len(Meant(piece))
           e == piece.text[n + 1]
           w == QuotedMeaning(piece.text)[n + 1]
<1>1. piece.text \in Seq(Quoted) /\ Len(piece.text) \in Nat
  <2>1. piece.text \in Seq(Quoted)
    BY QuotedPiece
  <2> QED BY <2>1
<1>2. ElementAt(piece, r, m, n, e, w)
  BY <1>1, ElementIsAt
<1>3. PICK c : Pair(e, w, c)
  <2>1. n + 1 \in 1..Len(piece.text)
    BY <1>1
  <2>2. \/ \E c : Single(e, w, c)
        \/ \E c : Pair(e, w, c)
        \/ EscapedQuote(e, w)
    BY <1>1, <2>1, ElementMeans
  <2>3. e[2] # "'" /\ Len(e) = 2
    OBVIOUS
  <2> QED BY <2>2, <2>3 DEF Single, EscapedQuote
<1> HIDE DEF e, w
<1>4. /\ Len(e) = 2 /\ e[2] = c /\ Len(w) = 2 /\ w[2] = Literal(c)
      /\ c \in {"letter", "\\"} /\ e = <<"\\", c>>
  BY <1>3 DEF Pair
<1>5. /\ n \in Nat /\ n + 1 \in 1..Len(piece.text) /\ n + 1 \in 0..Len(piece.text)
      /\ e = piece.text[n + 1]
      /\ r = Cut(piece.text) /\ m = Cut(QuotedMeaning(piece.text))
  BY <1>2 DEF ElementAt
<1>6. /\ r[n] \in Nat /\ m[n] \in Nat
      /\ r[n + 1] = r[n] + Len(e) /\ m[n + 1] = m[n] + Len(w)
      /\ r[n + 1] + 2 <= rl /\ m[n + 1] + 1 <= ml
  BY <1>2 DEF ElementAt
<1>7. /\ \A x \in 1..Len(e) : RawText(piece)[r[n] + x + 1] = e[x]
      /\ \A x \in 1..Len(w) : Meant(piece)[m[n] + x + 1] = w[x]
  BY <1>2 DEF ElementAt
<1>8. rl \in Nat /\ ml \in Nat
  <2>1. RawText(piece) \in Seq(Chars) /\ Meant(piece) \in Seq(Marks)
    BY PieceTyped
  <2> QED BY <2>1
<1>9. r[n] + 2 + 1 = u + 1 /\ m[n] + 2 + 1 = v + 1 /\ 1 + r[n + 1] = u + 1 /\ 1 + m[n + 1] = v + 1
  <2>1. r[n] \in Nat /\ m[n] \in Nat /\ r[n + 1] = r[n] + 2 /\ m[n + 1] = m[n] + 2
    BY <1>4, <1>6
  <2> QED BY <2>1
<1>10. RawText(piece)[u + 1] = c /\ Meant(piece)[v + 1] = Literal(c)
  BY <1>4, <1>7, <1>9
<1>11. Passed(piece, u + 1, v + 1)
  <2>1. Passed(piece, 1 + r[n + 1], 1 + m[n + 1])
    BY <1>5, PassedElements
  <2> QED BY <1>9, <2>1
<1> HIDE DEF rl, ml
<1>12. u + 1 \in 1..rl /\ u + 2 \in 1..rl /\ v + 1 \in 1..ml
  <2>1. /\ r[n] \in Nat /\ m[n] \in Nat /\ r[n + 1] = r[n] + 2 /\ m[n + 1] = m[n] + 2
        /\ r[n + 1] + 2 <= rl /\ m[n + 1] + 1 <= ml
    BY <1>4, <1>6
  <2> DEFINE p == r[n]
             q == m[n]
  <2>2. p \in Nat /\ q \in Nat /\ p + 2 + 2 <= rl /\ q + 2 + 1 <= ml
    BY <2>1
  <2> HIDE DEF p, q
  <2>3. 2 + p + 1 \in 1..rl /\ 2 + p + 2 \in 1..rl /\ 2 + q + 1 \in 1..ml
    BY <1>8, <2>2
  <2> QED BY <2>3 DEF p, q
<1>13. Takes(piece, u, v, c, c)
  BY <1>10, <1>12 DEF Takes, rl, ml
<1>14. CASE c = "letter"
  BY <1>11, <1>13, <1>14 DEF QuotedGoes
<1>15. CASE c = "\\"
  <2>1. n + 1 # Len(piece.text)
    <3>1. n + 1 = Len(piece.text) => EndsWithBackslash(piece)
      <4> SUFFICES ASSUME n + 1 = Len(piece.text) PROVE EndsWithBackslash(piece)
        OBVIOUS
      <4>1. piece.text[Len(piece.text)] = <<"\\", "\\">>
        BY <1>4, <1>5, <1>15
      <4>2. piece.text # <<>>
        BY <1>5
      <4> QED BY <4>1, <4>2 DEF EndsWithBackslash, Lists!Last
    <3> QED BY <3>1
  <2> DEFINE f == piece.text[n + 1 + 1]
             g == QuotedMeaning(piece.text)[n + 1 + 1]
  <2>2. ElementAt(piece, r, m, n + 1, f, g)
    BY <1>5, <2>1, ElementIsAt
  <2>3. /\ \A x \in 1..Len(f) : RawText(piece)[r[n + 1] + x + 1] = f[x]
        /\ n + 1 + 1 \in 1..Len(piece.text)
    BY <2>2 DEF ElementAt
  <2>4. \/ \E d : Single(f, g, d)
        \/ \E d : Pair(f, g, d)
        \/ EscapedQuote(f, g)
    BY <1>1, <2>3, ElementMeans
  <2> HIDE DEF f, g
  <2>5. 1 \in 1..Len(f) /\ f[1] # "'"
    BY <2>4 DEF Single, Pair, EscapedQuote
  <2>6. RawText(piece)[r[n + 1] + 1 + 1] = f[1]
    BY <2>3, <2>5
  <2>7. r[n + 1] + 1 + 1 = u + 2
    <3>1. r[n] \in Nat /\ r[n + 1] = r[n] + 2
      BY <1>4, <1>6
    <3> QED BY <3>1
  <2>8. IsFollowedBy(piece, u, FALSE)
    BY <1>12, <2>5, <2>6, <2>7 DEF IsFollowedBy, rl
  <2> QED BY <1>11, <1>13, <1>15, <2>8 DEF QuotedGoes
<1> QED BY <1>4, <1>14, <1>15

\* In a quoted section, every character is read as it is, but an escaped quote
\* for a quote, up to the quote that ends it.
LEMMA QuotedPassed ==
  ASSUME NEW piece \in Pieces, piece.kind = "quoted", ~EndsWithBackslash(piece),
         NEW u, NEW v, Passed(piece, u, v)
  PROVE  u \in Nat /\ v \in Nat /\ QuotedGoes(piece, u, v)
<1>1. PICK r, m : Section(piece, r, m)
  BY SectionExists
<1>2. r = Cut(piece.text) /\ m = Cut(QuotedMeaning(piece.text))
  BY <1>1 DEF Section
<1>3. PICK n \in 0..Len(piece.text) :
        \/ u = 1 + r[n] /\ v = 1 + m[n]
        \/ /\ n < Len(piece.text)
           /\ piece.text[n + 1] \in {<<"\\", "letter">>, <<"\\", "\\">>}
           /\ u = 2 + r[n] /\ v = 2 + m[n]
  BY <1>2 DEF Passed
<1>4. r[n] \in Nat /\ m[n] \in Nat
  BY <1>1 DEF Section
<1>5. CASE u = 1 + r[n] /\ v = 1 + m[n] /\ n = Len(piece.text)
  <2>1. /\ Len(RawText(piece)) = r[n] + 2 /\ Len(Meant(piece)) = m[n] + 1
        /\ RawText(piece)[r[n] + 2] = "'"
    BY <1>1, <1>5 DEF Section
  <2>2. u + 1 = r[n] + 2 /\ v = m[n] + 1
    BY <1>4, <1>5
  <2>3. Ends(piece, u, v)
    BY <2>1, <2>2 DEF Ends
  <2>4. u \in Nat /\ v \in Nat
    BY <1>4, <1>5
  <2> QED BY <2>3, <2>4 DEF QuotedGoes
<1>6. CASE u = 1 + r[n] /\ v = 1 + m[n] /\ n # Len(piece.text)
  <2>1. ElementAt(piece, r, m, n, piece.text[n + 1], QuotedMeaning(piece.text)[n + 1])
    BY <1>1, <1>6, ElementIsAt
  <2>2. QuotedGoes(piece, 1 + r[n], 1 + m[n])
    BY <2>1, ElementStart
  <2>3. u \in Nat /\ v \in Nat
    BY <1>4, <1>6
  <2> QED BY <1>6, <2>2, <2>3
<1>7. CASE /\ n < Len(piece.text)
           /\ piece.text[n + 1] \in {<<"\\", "letter">>, <<"\\", "\\">>}
           /\ u = 2 + r[n] /\ v = 2 + m[n]
  <2>1. QuotedGoes(piece, 2 + r[n], 2 + m[n])
    BY <1>1, <1>7, ElementMiddle
  <2>2. u \in Nat /\ v \in Nat
    BY <1>4, <1>7
  <2> QED BY <1>7, <2>1, <2>2
<1> QED BY <1>3, <1>5, <1>6, <1>7

-----------------------------------------------------------------------------
(* The steps of the scan *)

\* The quote that opens a section separates what is before it.
LEMMA SectionStart ==
  ASSUME NEW t \in Tokens, NEW n \in 1..Len(t), NEW a, NEW b, Opens(t, n, a, b),
         t[n].kind = "quoted"
  PROVE  Reads(t, a + 1, "'", b + 1, Literal("")) /\ Inside(t, "quoted", a + 2, b + 2)
<1>1. t[n] \in Pieces
  BY TokenTyped
<1>2. PICK r, m : Section(t[n], r, m)
  BY <1>1, SectionExists
<1>3. /\ r = Cut(t[n].text) /\ m = Cut(QuotedMeaning(t[n].text)) /\ r[0] = 0 /\ m[0] = 0
      /\ RawText(t[n])[1] = "'" /\ Meant(t[n])[1] = Literal("")
  BY <1>2 DEF Section
<1>4. t[n].text \in Seq(Quoted)
  BY <1>1, QuotedPiece
<1>5. 0 \in 0..Len(t[n].text) /\ Len(t[n].text) \in 0..Len(t[n].text)
  BY <1>4
<1>6. Len(RawText(t[n])) \in Nat /\ Len(RawText(t[n])) > 0
  <2>1. RawText(t[n]) \in Seq(Chars) /\ Len(RawText(t[n])) > 0
    BY <1>1, PieceTyped
  <2> QED BY <2>1
<1>7. 1 \in 1..Len(RawText(t[n]))
  BY <1>6
<1>8. 1 \in 1..Len(Meant(t[n]))
  <2>1. Len(Meant(t[n])) = m[Len(t[n].text)] + 1 /\ m[Len(t[n].text)] \in Nat
    BY <1>2, <1>5 DEF Section
  <2> QED BY <2>1
<1>9. Reads(t, a + 1, "'", b + 1, Literal(""))
  <2>1. Reads(t, a + 1, RawText(t[n])[1], b + 1, Meant(t[n])[1])
    BY <1>7, <1>8, PieceReads
  <2> QED BY <2>1, <1>3
<1>10. Passed(t[n], 1, 1)
  <2>1. Passed(t[n], 1 + r[0], 1 + m[0])
    BY <1>3, <1>5, PassedElements
  <2>2. 1 + r[0] = 1 /\ 1 + m[0] = 1
    <3>1. r[0] = 0 /\ m[0] = 0
      BY <1>3
    <3> QED BY <3>1
  <2> QED BY <2>1, <2>2
<1>11. Inside(t, "quoted", a + 1 + 1, b + 1 + 1)
  BY <1>10, PieceInside
<1>12. a + 1 + 1 = a + 2 /\ b + 1 + 1 = b + 2
  <2>1. a \in Nat /\ b \in Nat
    BY DEF Opens
  <2> QED BY <2>1
<1> QED BY <1>9, <1>11, <1>12

\* The character behind j is, or is not, a quote.
QuoteFollows(t, j, quote) ==
  j + 1 \in 1..Len(Text(t)) /\ (Text(t)[j + 1] = "'") = quote

\* What the scan does in quotes.
QuotedScan(t, j, k) ==
  \/ j \in 1..Len(Text(t)) /\ Text(t)[j] = "'" /\ Between(t, j + 1, k)
  \/ \E c \in {"letter", "$", "newline"} :
       Reads(t, j, c, k, Literal(c)) /\ Inside(t, "quoted", j + 1, k + 1)
  \/ /\ Reads(t, j, "\\", k, Literal("'")) /\ QuoteFollows(t, j, TRUE)
     /\ Inside(t, "quoted", j + 2, k + 1)
  \/ /\ Reads(t, j, "\\", k, Literal("\\")) /\ QuoteFollows(t, j, FALSE)
     /\ Inside(t, "quoted", j + 1, k + 1)

\* What the scan takes of a piece it reads in the token.
LEMMA TakesReads ==
  ASSUME NEW t \in Tokens, NEW n \in 1..Len(t), NEW a, NEW b, Opens(t, n, a, b),
         NEW u \in Nat, NEW v \in Nat, NEW c, NEW x, Takes(t[n], u, v, c, x)
  PROVE  Reads(t, a + u + 1, c, b + v + 1, Literal(x))
<1>1. /\ u + 1 \in 1..Len(RawText(t[n])) /\ RawText(t[n])[u + 1] = c
      /\ v + 1 \in 1..Len(Meant(t[n])) /\ Meant(t[n])[v + 1] = Literal(x)
  BY DEF Takes
<1>2. Reads(t, a + (u + 1), RawText(t[n])[u + 1], b + (v + 1), Meant(t[n])[v + 1])
  BY <1>1, PieceReads
<1>3. a + (u + 1) = a + u + 1 /\ b + (v + 1) = b + v + 1
  <2>1. a \in Nat /\ b \in Nat
    BY DEF Opens
  <2> QED BY <2>1
<1> QED BY <1>1, <1>2, <1>3

\* A character of a piece is in the token.
LEMMA PieceIn ==
  ASSUME NEW t \in Tokens, NEW n \in 1..Len(t), NEW a, NEW b, Opens(t, n, a, b),
         NEW x \in 1..Len(RawText(t[n]))
  PROVE  a + x \in 1..Len(Text(t)) /\ Text(t)[a + x] = RawText(t[n])[x]
<1> DEFINE r == Len(RawText(t[n]))
           rt == Len(Text(t))
<1>1. r \in Nat
  <2>1. t[n] \in Pieces
    BY TokenTyped
  <2>2. RawText(t[n]) \in Seq(Chars)
    BY <2>1, PieceTyped
  <2> QED BY <2>2
<1>2. rt \in Nat
  <2>1. Raws(t) \in Seq(Seq(Chars))
    BY TokenTyped
  <2>2. Text(t) \in Seq(Chars)
    BY <2>1, CutsExist DEF Text
  <2> QED BY <2>2
<1>3. a \in Nat /\ a + r <= rt /\ Text(t)[a + x] = RawText(t[n])[x] /\ x \in 1..r
  BY DEF Opens
<1> HIDE DEF r, rt
<1>4. a + x \in 1..rt
  BY <1>1, <1>2, <1>3
<1> QED BY <1>3, <1>4 DEF rt

\* The scan of a token without an escaped backslash before a closing quote.
LEMMA QuotedStep ==
  ASSUME NEW t \in Tokens, \A n \in 1..Len(t) : ~EndsWithBackslash(t[n]),
         NEW j \in Nat, NEW k \in Nat, Inside(t, "quoted", j, k)
  PROVE  QuotedScan(t, j, k)
<1>0. PICK n \in 1..Len(t) : \E a, b, u, v : IsInside(t, "quoted", j, k, n, a, b, u, v)
  BY InsidePiece
<1>1. PICK a, b, u, v :
        /\ Opens(t, n, a, b) /\ t[n].kind = "quoted"
        /\ a \in Nat /\ b \in Nat /\ Passed(t[n], u, v) /\ j = a + u + 1 /\ k = b + v + 1
  BY <1>0 DEF IsInside
<1>2. t[n] \in Pieces /\ ~EndsWithBackslash(t[n])
  BY TokenTyped
<1>3. u \in Nat /\ v \in Nat /\ QuotedGoes(t[n], u, v)
  BY <1>1, <1>2, QuotedPassed
<1>4. ASSUME NEW quote \in BOOLEAN, IsFollowedBy(t[n], u, quote) PROVE QuoteFollows(t, j, quote)
  <2>1. u + 2 \in 1..Len(RawText(t[n])) /\ (RawText(t[n])[u + 2] = "'") = quote
    BY <1>4 DEF IsFollowedBy
  <2>2. a + (u + 2) \in 1..Len(Text(t)) /\ Text(t)[a + (u + 2)] = RawText(t[n])[u + 2]
    BY <1>1, <2>1, PieceIn
  <2>3. a + (u + 2) = j + 1
    BY <1>1, <1>3
  <2> QED BY <2>1, <2>2, <2>3 DEF QuoteFollows
<1>5. a + (u + 1) + 1 = j + 1 /\ a + (u + 2) + 1 = j + 2 /\ b + (v + 1) + 1 = k + 1
      /\ u + 1 \in Nat /\ u + 2 \in Nat /\ v + 1 \in Nat
  BY <1>1, <1>3
<1>6. Passed(t[n], u + 1, v + 1) => Inside(t, "quoted", j + 1, k + 1)
  <2>1. Passed(t[n], u + 1, v + 1) => Inside(t, "quoted", a + (u + 1) + 1, b + (v + 1) + 1)
    BY <1>1, <1>5, PieceInside
  <2> QED BY <2>1, <1>5
<1>7. Passed(t[n], u + 2, v + 1) => Inside(t, "quoted", j + 2, k + 1)
  <2>1. Passed(t[n], u + 2, v + 1) => Inside(t, "quoted", a + (u + 2) + 1, b + (v + 1) + 1)
    BY <1>1, <1>5, PieceInside
  <2> QED BY <2>1, <1>5
<1>8. CASE Ends(t[n], u, v)
  <2>1. u + 1 = Len(RawText(t[n])) /\ RawText(t[n])[u + 1] = "'" /\ v = Len(Meant(t[n]))
    BY <1>8 DEF Ends
  <2>2. u + 1 \in 1..(u + 1) /\ a + (u + 1) = j
    BY <1>1, <1>3
  <2>3. j \in 1..Len(Text(t)) /\ Text(t)[j] = "'"
    <3>1. u + 1 \in 1..Len(RawText(t[n]))
      BY <2>1, <2>2
    <3>2. a + (u + 1) \in 1..Len(Text(t)) /\ Text(t)[a + (u + 1)] = RawText(t[n])[u + 1]
      BY <1>1, <3>1, PieceIn
    <3> QED BY <2>1, <2>2, <3>2
  <2>4. Between(t, a + (u + 1) + 1, b + v + 1)
    BY <1>1, <2>1 DEF Opens
  <2> QED BY <1>1, <1>5, <2>3, <2>4 DEF QuotedScan
<1>9. CASE \E c \in {"letter", "$", "newline"} :
             Takes(t[n], u, v, c, c) /\ Passed(t[n], u + 1, v + 1)
  <2>1. PICK c \in {"letter", "$", "newline"} :
          Takes(t[n], u, v, c, c) /\ Passed(t[n], u + 1, v + 1)
    BY <1>9
  <2>2. Reads(t, j, c, k, Literal(c))
    BY <1>1, <1>3, <2>1, TakesReads
  <2> QED BY <1>6, <2>1, <2>2 DEF QuotedScan
<1>10. CASE /\ Takes(t[n], u, v, "\\", "'") /\ IsFollowedBy(t[n], u, TRUE)
            /\ Passed(t[n], u + 2, v + 1)
  <2>1. Reads(t, j, "\\", k, Literal("'"))
    BY <1>1, <1>3, <1>10, TakesReads
  <2> QED BY <1>4, <1>7, <1>10, <2>1 DEF QuotedScan
<1>11. CASE /\ Takes(t[n], u, v, "\\", "\\") /\ IsFollowedBy(t[n], u, FALSE)
            /\ Passed(t[n], u + 1, v + 1)
  <2>1. Reads(t, j, "\\", k, Literal("\\"))
    BY <1>1, <1>3, <1>11, TakesReads
  <2> QED BY <1>4, <1>6, <1>11, <2>1 DEF QuotedScan
<1> QED BY <1>3, <1>8, <1>9, <1>10, <1>11 DEF QuotedGoes

\* What the scan does outside quotes, but behind a backslash: the token ends, a
\* plain character is read, or an escape or a quoted section begins.
LEMMA UnquotedStep ==
  ASSUME NEW t \in Tokens, NEW j \in Nat, NEW k \in Nat, Unquoted(t, j, k)
  PROVE  \/ j = Len(Text(t)) + 1 /\ k = Len(Characters(t)) + 1
         \/ \E c \in Plain : Reads(t, j, c, k, Active(c)) /\ Unquoted(t, j + 1, k + 1)
         \/ \E n \in 1..Len(t) : \E a, b :
              Opens(t, n, a, b) /\ t[n].kind # "plain" /\ j = a + 1 /\ k = b + 1
<1>1. CASE Between(t, j, k)
  <2>1. CASE \E n \in 1..Len(t) : \E a, b : Opens(t, n, a, b) /\ j = a + 1 /\ k = b + 1
    <3>1. PICK n \in 1..Len(t) : \E a, b : Opens(t, n, a, b) /\ j = a + 1 /\ k = b + 1
      BY <2>1
    <3>2. PICK a, b : Opens(t, n, a, b) /\ j = a + 1 /\ k = b + 1
      BY <3>1
    <3>3. CASE t[n].kind = "plain"
      <4>1. Len(t[n].text) \in 1..2
        <5>1. t[n] \in Pieces
          BY TokenTyped
        <5> QED BY <5>1, <3>3, PlainPiece
      <4>2. 1 \in 1..Len(t[n].text)
        <5>1. Len(t[n].text) = 1 \/ Len(t[n].text) = 2
          BY <4>1
        <5> QED BY <5>1, FirstOfTwo
      <4>3. PICK c \in Plain :
              Reads(t, a + 1, c, b + 1, Active(c)) /\ Unquoted(t, a + 1 + 1, b + 1 + 1)
        BY <3>2, <3>3, <4>2, PlainStep
      <4> QED BY <3>2, <4>3
    <3> QED BY <3>2, <3>3
  <2> QED BY <1>1, <2>1, BetweenOpens
<1>2. CASE Inside(t, "plain", j, k)
  <2>0. PICK n \in 1..Len(t) : \E a, b, u, v : IsInside(t, "plain", j, k, n, a, b, u, v)
    BY <1>2, InsidePiece
  <2>1. PICK a, b, u, v :
          /\ Opens(t, n, a, b) /\ t[n].kind = "plain"
          /\ a \in Nat /\ b \in Nat /\ Passed(t[n], u, v) /\ j = a + u + 1 /\ k = b + v + 1
    BY <2>0 DEF IsInside
  <2>2. Len(t[n].text) = 2 /\ u = 1 /\ v = 1
    BY <2>1 DEF Passed
  <2>3. 2 \in 1..Len(t[n].text)
    BY <2>2
  <2>4. PICK c \in Plain :
          Reads(t, a + 2, c, b + 2, Active(c)) /\ Unquoted(t, a + 2 + 1, b + 2 + 1)
    BY <2>1, <2>3, PlainStep
  <2>5. a + 2 = j /\ b + 2 = k
    BY <2>1, <2>2
  <2> QED BY <2>4, <2>5
<1> QED BY <1>1, <1>2 DEF Unquoted

-----------------------------------------------------------------------------
(* The expansion of the variables *)

\* The longest name behind k.
LEMMA NameEndIs ==
  ASSUME NEW chars \in Seq(Marks), NEW k \in 1..Len(chars)
  PROVE  /\ NameEnd(chars, k) \in k..Len(chars)
         /\ IsIdentifier(chars, k, NameEnd(chars, k))
         /\ NameEnd(chars, k) < Len(chars) => ~IsIdentifier(chars, k, NameEnd(chars, k) + 1)
<1> DEFINE Long(n) == n < Len(chars) => ~IsIdentifier(chars, k, n + 1)
           Stops == {n \in k..Len(chars) : Long(n)}
<1>1. Len(chars) \in Stops
  OBVIOUS
<1>2. Stops \in SUBSET Nat
  OBVIOUS
<1> HIDE DEF Stops
<1>3. PICK n \in Stops : \A l \in Stops : n <= l
  BY <1>1, <1>2, LeastNatural
<1>4. n \in k..Len(chars) /\ Long(n)
  BY <1>3 DEF Stops
<1>5. IsIdentifier(chars, k, n)
  <2>1. CASE n = k
    BY <2>1 DEF IsIdentifier
  <2>2. CASE n # k
    <3>1. n - 1 \in k..Len(chars) /\ ~(n <= n - 1) /\ n - 1 < Len(chars) /\ (n - 1) + 1 = n
      BY <1>4, <2>2
    <3>2. n - 1 \notin Stops
      BY <1>3, <3>1
    <3>3. ~Long(n - 1)
      BY <3>1, <3>2 DEF Stops
    <3> QED BY <3>1, <3>3
  <2> QED BY <2>1, <2>2
<1>6. \E l \in k..Len(chars) : /\ IsIdentifier(chars, k, l)
                               /\ l < Len(chars) => ~IsIdentifier(chars, k, l + 1)
  BY <1>4, <1>5
<1> QED BY <1>6 DEF NameEnd

\* Every character, or variable, has an end.
LEMMA AfterIs ==
  ASSUME NEW chars \in Seq(Marks), NEW k \in 1..Len(chars)
  PROVE  After(chars, k) \in (k + 1)..(Len(chars) + 1)
<1>1. NameEnd(chars, k) \in k..Len(chars)
  BY NameEndIs
<1>2. Len(chars) \in Nat
  OBVIOUS
<1> QED BY <1>1, <1>2 DEF After

\* What a character or a variable adds is a string.
LEMMA AddsIs ==
  ASSUME NEW chars \in Seq(Marks), NEW k \in 1..Len(chars)
  PROVE  Adds(chars, k) \in Seq(Chars)
<1>1. \A name : lookup_env(name) \in Seq(Chars)
  <2>1. <<>> \in Seq(Chars)
    OBVIOUS
  <2> QED BY <2>1, TokenAssumption DEF lookup_env
<1>2. chars[k].char \in Chars \cup {""}
  <2>1. chars[k] \in Marks
    OBVIOUS
  <2> QED BY <2>1 DEF Marks
<1>3. <<>> \in Seq(Chars) /\ \A c \in Chars : <<c>> \in Seq(Chars)
  OBVIOUS
<1> QED BY <1>1, <1>2, <1>3 DEF Adds

\* The equation of the recursion in Expanded.
Rest(from, chars, k) ==
  IF k > Len(chars) THEN <<>> ELSE Joined(Adds(chars, k), from[After(chars, k)])
IsExpansion(from, chars) == from = [k \in 1..(Len(chars) + 1) |-> Rest(from, chars, k)]

\* The function exists: without it, there is a shortest end of chars that has
\* none, and that of the characters behind its first can be continued.
LEMMA ExpansionExists ==
  ASSUME NEW chars \in Seq(Marks)
  PROVE  \E from : IsExpansion(from, chars)
<1> DEFINE last == Len(chars) + 1
           Down(from, d) == from = [k \in (last - d)..last |-> Rest(from, chars, k)]
           Bare == {d \in 0..Len(chars) : ~\E from : Down(from, d)}
<1>0. Len(chars) \in Nat /\ last \in Nat
  OBVIOUS
<1> HIDE DEF last
<1>1. Bare = {}
  <2> SUFFICES ASSUME Bare # {} PROVE FALSE
    OBVIOUS
  <2>1. PICK d \in Bare : \A n \in Bare : d <= n
    <3>1. Bare \in SUBSET Nat
      OBVIOUS
    <3> HIDE DEF Bare
    <3> QED BY <3>1, LeastNatural
  <2>2. CASE d = 0
    <3> DEFINE none == [k \in (last - 0)..last |-> <<>>]
    <3>1. \A k \in (last - 0)..last : Rest(none, chars, k) = <<>>
      <4>1. \A k \in (last - 0)..last : k > Len(chars)
        BY <1>0 DEF last
      <4> QED BY <4>1 DEF Rest
    <3>2. Down(none, 0)
      BY <3>1
    <3> QED BY <2>2, <3>2
  <2>3. CASE d # 0
    <3>1. d - 1 \in 0..Len(chars) /\ d \in Nat /\ ~(d <= d - 1)
      BY <2>3
    <3>2. PICK from : Down(from, d - 1)
      BY <2>1, <3>1
    <3> DEFINE first == last - d
    <3>3. first \in 1..Len(chars) /\ last - (d - 1) = first + 1 /\ first \in Nat
      BY <1>0, <2>3 DEF last
    <3> HIDE DEF first
    <3>4. from = [k \in (first + 1)..last |-> Rest(from, chars, k)]
      BY <3>2, <3>3
    <3> DEFINE more == [k \in first..last |-> IF k = first THEN Rest(from, chars, k) ELSE from[k]]
    <3>5. \A k \in first..last : more[k] = Rest(more, chars, k)
      <4> SUFFICES ASSUME NEW k \in first..last PROVE more[k] = Rest(more, chars, k)
        OBVIOUS
      <4>1. Rest(more, chars, k) = Rest(from, chars, k)
        <5>1. CASE k > Len(chars)
          BY <5>1 DEF Rest
        <5>2. CASE ~(k > Len(chars))
          <6>1. k \in 1..Len(chars)
            BY <1>0, <3>3, <5>2 DEF last
          <6>2. After(chars, k) \in (k + 1)..last
            BY <6>1, AfterIs DEF last
          <6>3. After(chars, k) \in first..last /\ After(chars, k) # first
            BY <6>2, <1>0, <3>3
          <6>4. more[After(chars, k)] = from[After(chars, k)]
            BY <6>3
          <6> HIDE DEF more
          <6> QED BY <6>4 DEF Rest
        <5> QED BY <5>1, <5>2
      <4>2. CASE k = first
        BY <4>1, <4>2
      <4>3. CASE k # first
        <5>1. k \in (first + 1)..last
          BY <4>3, <3>3, <1>0
        <5>2. from[k] = Rest(from, chars, k)
          BY <3>4, <5>1
        <5> QED BY <4>1, <4>3, <5>2
      <4> QED BY <4>2, <4>3
    <3>6. more = [k \in first..last |-> Rest(more, chars, k)]
      <4>1. more = [k \in first..last |-> more[k]]
        OBVIOUS
      <4> HIDE DEF more
      <4> QED BY <3>5, <4>1
    <3> HIDE DEF more
    <3>7. Down(more, d)
      BY <3>6 DEF first
    <3> QED BY <3>7, <2>1
  <2> QED BY <2>2, <2>3
<1>2. Len(chars) \in 0..Len(chars) /\ last - Len(chars) = 1
  BY <1>0 DEF last
<1>3. PICK from : Down(from, Len(chars))
  BY <1>1, <1>2
<1>4. from = [k \in 1..last |-> Rest(from, chars, k)]
  BY <1>2, <1>3
<1> QED BY <1>4 DEF IsExpansion, last

\* Expanded is the first value of such a function.
LEMMA ExpandedUnfolds ==
  ASSUME NEW chars, NEW g, IsExpansion(g, chars)
  PROVE  \E from : IsExpansion(from, chars) /\ Expanded(chars) = from[1]
  BY DEF IsExpansion, Expanded, Rest, Joined

\* The expansion is a string.
LEMMA ExpansionTyped ==
  ASSUME NEW chars \in Seq(Marks), NEW from, IsExpansion(from, chars)
  PROVE  /\ \A k \in 1..(Len(chars) + 1) : from[k] \in Seq(Chars)
         /\ from[Len(chars) + 1] = <<>>
         /\ \A k \in 1..Len(chars) :
              from[k] = Joined(Adds(chars, k), from[After(chars, k)])
<1> DEFINE last == Len(chars) + 1
           Wrong == {d \in 0..Len(chars) : from[last - d] \notin Seq(Chars)}
<1>0. Len(chars) \in Nat /\ last \in Nat
  OBVIOUS
<1>1. from[last] = <<>>
  BY <1>0 DEF IsExpansion, Rest
<1>2. \A k \in 1..Len(chars) : from[k] = Joined(Adds(chars, k), from[After(chars, k)])
  BY <1>0 DEF IsExpansion, Rest
<1> HIDE DEF last
<1>3. Wrong = {}
  <2> SUFFICES ASSUME Wrong # {} PROVE FALSE
    OBVIOUS
  <2>1. PICK d \in Wrong : \A n \in Wrong : d <= n
    <3>1. Wrong \in SUBSET Nat
      OBVIOUS
    <3> HIDE DEF Wrong
    <3> QED BY <3>1, LeastNatural
  <2>2. d # 0
    <3>1. <<>> \in Seq(Chars) /\ last - 0 = last
      BY <1>0
    <3> QED BY <1>1, <3>1
  <2> DEFINE k == last - d
  <2>3. k \in 1..Len(chars)
    BY <1>0, <2>2 DEF last
  <2>4. After(chars, k) \in (k + 1)..last
    BY <2>3, AfterIs DEF last
  <2> DEFINE e == last - After(chars, k)
  <2>5. e \in 0..Len(chars) /\ ~(d <= e) /\ last - e = After(chars, k)
    BY <1>0, <2>1, <2>3, <2>4
  <2>6. from[After(chars, k)] \in Seq(Chars)
    <3> HIDE DEF e
    <3>1. e \notin Wrong
      BY <2>1, <2>5
    <3> QED BY <2>5, <3>1
  <2>7. Adds(chars, k) \in Seq(Chars)
    BY <2>3, AddsIs
  <2>8. from[k] \in Seq(Chars)
    BY <1>2, <2>3, <2>6, <2>7, JoinedIs
  <2> QED BY <2>1, <2>8
<1>4. ASSUME NEW k \in 1..last PROVE from[k] \in Seq(Chars)
  <2>1. last - k \in 0..Len(chars) /\ last - (last - k) = k
    BY <1>0 DEF last
  <2> QED BY <1>3, <2>1
<1> QED BY <1>1, <1>2, <1>4 DEF last

-----------------------------------------------------------------------------
(* The scan and the expansion *)

\* An escape and a quoted section begin with a character that is not plain, and
\* that means none that can be part of a variable.
LEMMA OpensLiteral ==
  ASSUME NEW t \in Tokens, NEW n \in 1..Len(t), NEW a, NEW b, Opens(t, n, a, b),
         t[n].kind # "plain"
  PROVE  \E c \in {"\\", "'"} : \E x : Reads(t, a + 1, c, b + 1, Literal(x))
<1>1. t[n].kind \in {"escape", "quoted"}
  <2>1. t[n] \in Pieces
    BY TokenTyped
  <2>2. t[n].kind \in {"plain", "escape", "quoted"}
    BY <2>1, PieceTyped
  <2> QED BY <2>2
<1>2. CASE t[n].kind = "escape"
  <2>1. PICK c \in Chars : Escapes(t, a, b, c)
    BY <1>2, EscapeStep
  <2> QED BY <2>1 DEF Escapes
<1>3. CASE t[n].kind = "quoted"
  <2>1. Reads(t, a + 1, "'", b + 1, Literal(""))
    BY <1>3, SectionStart
  <2> QED BY <2>1
<1> QED BY <1>1, <1>2, <1>3

\* Outside quotes, what is no quote and no backslash is a plain character.
LEMMA PlainIsRead ==
  ASSUME NEW t \in Tokens, NEW j \in 1..Len(Text(t)), NEW k \in Nat, Unquoted(t, j, k),
         Text(t)[j] \notin {"\\", "'"}, Len(Text(t)) \in Nat
  PROVE  /\ Text(t)[j] \in Plain
         /\ Reads(t, j, Text(t)[j], k, Active(Text(t)[j])) /\ Unquoted(t, j + 1, k + 1)
<1>1. j \in Nat /\ j # Len(Text(t)) + 1
  OBVIOUS
<1>2. CASE \E c \in Plain : Reads(t, j, c, k, Active(c)) /\ Unquoted(t, j + 1, k + 1)
  <2>1. PICK c \in Plain : Reads(t, j, c, k, Active(c)) /\ Unquoted(t, j + 1, k + 1)
    BY <1>2
  <2>2. c = Text(t)[j]
    BY <2>1 DEF Reads
  <2> QED BY <2>1, <2>2
<1>3. CASE \E n \in 1..Len(t) : \E a, b :
             Opens(t, n, a, b) /\ t[n].kind # "plain" /\ j = a + 1 /\ k = b + 1
  <2>1. PICK n \in 1..Len(t) : \E a, b :
             Opens(t, n, a, b) /\ t[n].kind # "plain" /\ j = a + 1 /\ k = b + 1
    BY <1>3
  <2>2. PICK a, b : Opens(t, n, a, b) /\ t[n].kind # "plain" /\ j = a + 1 /\ k = b + 1
    BY <2>1
  <2>3. PICK c \in {"\\", "'"} : \E x : Reads(t, a + 1, c, b + 1, Literal(x))
    BY <2>2, OpensLiteral
  <2>4. Text(t)[j] = c
    BY <2>2, <2>3 DEF Reads
  <2> QED BY <2>4
<1> QED BY <1>1, <1>2, <1>3, UnquotedStep

\* Where the characters of a token can be no part of a name, those it means
\* cannot either.
Names(chars, k) == k <= Len(chars) /\ chars[k].active /\ chars[k].char \in IdentifierChars

LEMMA NoNameIsRead ==
  ASSUME NEW t \in Tokens, NEW j \in Nat, NEW k \in Nat, Unquoted(t, j, k),
         Len(Text(t)) \in Nat, Len(Characters(t)) \in Nat,
         j \in 1..Len(Text(t)) => Text(t)[j] \notin IdentifierChars
  PROVE  ~Names(Characters(t), k)
<1>1. CASE j = Len(Text(t)) + 1 /\ k = Len(Characters(t)) + 1
  BY <1>1 DEF Names
<1>2. CASE \E c \in Plain : Reads(t, j, c, k, Active(c)) /\ Unquoted(t, j + 1, k + 1)
  <2>1. PICK c \in Plain : Reads(t, j, c, k, Active(c))
    BY <1>2
  <2>2. c \notin IdentifierChars /\ Characters(t)[k] = Active(c)
    BY <2>1 DEF Reads
  <2>3. Active(c).char = c
    BY DEF Active
  <2> QED BY <2>2, <2>3 DEF Names
<1>3. CASE \E n \in 1..Len(t) : \E a, b :
             Opens(t, n, a, b) /\ t[n].kind # "plain" /\ j = a + 1 /\ k = b + 1
  <2>1. PICK n \in 1..Len(t) : \E a, b :
             Opens(t, n, a, b) /\ t[n].kind # "plain" /\ j = a + 1 /\ k = b + 1
    BY <1>3
  <2>2. PICK a, b : Opens(t, n, a, b) /\ t[n].kind # "plain" /\ j = a + 1 /\ k = b + 1
    BY <2>1
  <2>3. PICK c \in {"\\", "'"} : \E x : Reads(t, a + 1, c, b + 1, Literal(x))
    BY <2>2, OpensLiteral
  <2>4. PICK x : Reads(t, a + 1, c, b + 1, Literal(x))
    BY <2>3
  <2>5. Characters(t)[k] = Literal(x)
    BY <2>2, <2>4 DEF Reads
  <2>6. Literal(x).active = FALSE
    BY DEF Literal
  <2> QED BY <2>5, <2>6 DEF Names
<1> QED BY <1>1, <1>2, <1>3, UnquotedStep

\* The characters of a name are read one after the other.
LEMMA NameIsRead ==
  ASSUME NEW t \in Tokens, NEW j \in Nat, NEW k \in Nat, Unquoted(t, j, k), j > 0,
         Len(Text(t)) \in Nat, NEW last \in Nat, last <= Len(Text(t)),
         \A x \in j..last : Text(t)[x] \in IdentifierChars
  PROVE  /\ \A x \in j..last : /\ Unquoted(t, x + 1, k + (x - j) + 1)
                               /\ Reads(t, x, Text(t)[x], k + (x - j), Active(Text(t)[x]))
<1> DEFINE Good(x) == /\ Unquoted(t, x + 1, k + (x - j) + 1)
                      /\ Reads(t, x, Text(t)[x], k + (x - j), Active(Text(t)[x]))
           Wrong == {x \in j..last : ~Good(x)}
<1>1. ASSUME NEW x \in j..last, Unquoted(t, x, k + (x - j)) PROVE Good(x)
  <2>1. x \in 1..Len(Text(t)) /\ k + (x - j) \in Nat
    OBVIOUS
  <2>2. Text(t)[x] \notin {"\\", "'"}
    BY DEF IdentifierChars
  <2> QED BY <1>1, <2>1, <2>2, PlainIsRead
<1>2. Wrong = {}
  <2> SUFFICES ASSUME Wrong # {} PROVE FALSE
    OBVIOUS
  <2>1. PICK x \in Wrong : \A y \in Wrong : x <= y
    <3> HIDE DEF Good
    <3>1. Wrong \in SUBSET Nat
      OBVIOUS
    <3> HIDE DEF Wrong
    <3> QED BY <3>1, LeastNatural
  <2>2. x \in j..last /\ ~Good(x)
    BY <2>1
  <2>3. CASE x = j
    <3>1. k + (x - j) = k
      BY <2>3
    <3> QED BY <1>1, <2>2, <2>3, <3>1
  <2>4. CASE x # j
    <3>1. x - 1 \in j..last /\ ~(x <= x - 1) /\ (x - 1) + 1 = x
         /\ k + ((x - 1) - j) + 1 = k + (x - j)
      BY <2>2, <2>4
    <3>2. Good(x - 1)
      <4> HIDE DEF Good
      <4> QED BY <2>1, <3>1
    <3>3. Unquoted(t, x, k + (x - j))
      BY <3>1, <3>2
    <3> HIDE DEF Good
    <3> QED BY <1>1, <2>2, <3>3
  <2> QED BY <2>3, <2>4
<1> HIDE DEF Good
<1>3. \A x \in j..last : Good(x)
  BY <1>2
<1> QED BY <1>3 DEF Good

\* A name that cannot be continued is the longest one.
LEMMA NameEndUnique ==
  ASSUME NEW chars \in Seq(Marks), NEW k \in 1..Len(chars), NEW n \in k..Len(chars),
         IsIdentifier(chars, k, n), ~Names(chars, n + 1)
  PROVE  NameEnd(chars, k) = n
<1> DEFINE e == NameEnd(chars, k)
<1>1. /\ e \in k..Len(chars) /\ IsIdentifier(chars, k, e)
      /\ e < Len(chars) => ~IsIdentifier(chars, k, e + 1)
  BY NameEndIs
<1> HIDE DEF e
<1>2. k \in Nat /\ n \in Nat /\ e \in Nat /\ Len(chars) \in Nat
  BY <1>1
<1>3. CASE e < n
  <2>1. IsIdentifier(chars, k, e + 1)
    BY <1>2, <1>3 DEF IsIdentifier
  <2> QED BY <1>1, <1>2, <1>3, <2>1
<1>4. CASE n < e
  <2>1. n + 1 \in (k + 1)..e /\ n + 1 <= Len(chars)
    BY <1>1, <1>2, <1>4
  <2>2. chars[n + 1].active /\ chars[n + 1].char \in IdentifierChars
    BY <1>1, <2>1 DEF IsIdentifier
  <2> QED BY <2>1, <2>2 DEF Names
<1>5. CASE e = n
  BY <1>5 DEF e
<1> QED BY <1>2, <1>3, <1>4, <1>5

-----------------------------------------------------------------------------
(* The string that is built *)

\* Behind b the characters from k on give the token its meaning.
Completes(b, t, k) ==
  \E from : /\ IsExpansion(from, Characters(t))
            /\ Joined(b, from[k]) = Expanded(Characters(t))

\* No quoted section ends with an escaped backslash.
Clear(t) == \A n \in 1..Len(t) : ~EndsWithBackslash(t[n])

\* The inductive invariant: where the scan is, in pieces and in the meaning, and
\* what it has built.
TokenInv ==
  /\ token \in Tokens /\ str = Text(token)
  /\ i \in Nat \ {0} /\ bld \in Seq(Chars) /\ in_quotes \in BOOLEAN
  /\ token_at \in {"scan", "done", "abort"}
  /\ Clear(token) /\ token_at = "scan" =>
       \E k \in Nat : Place(token, i, in_quotes, k) /\ Completes(bld, token, k)
  /\ Clear(token) /\ token_at # "scan" => token_at = "done" /\ bld = Meaning

\* A token is a string, and so is what it means.
LEMMA StringsTyped ==
  ASSUME NEW t \in Tokens
  PROVE  /\ Text(t) \in Seq(Chars) /\ Characters(t) \in Seq(Marks)
         /\ Len(Text(t)) \in Nat /\ Len(Characters(t)) \in Nat
<1>1. Raws(t) \in Seq(Seq(Chars)) /\ Means(t) \in Seq(Seq(Marks))
  BY TokenTyped
<1>2. Text(t) \in Seq(Chars) /\ Characters(t) \in Seq(Marks)
  BY <1>1, CutsExist DEF Text, Characters
<1> QED BY <1>2

\* Three sequences, one behind the other.
LEMMA JoinedAssociative ==
  ASSUME NEW S, NEW a \in Seq(S), NEW b \in Seq(S), NEW c \in Seq(S)
  PROVE  Joined(a, Joined(b, c)) = Joined(Joined(a, b), c)
<1>1. (a \o b) \o c = a \o (b \o c)
  BY ConcatAssociative
<1> QED BY <1>1, Zenon DEF Joined

\* What is added at a place is the beginning of what was still to come.
LEMMA Advances ==
  ASSUME NEW t \in Tokens, NEW k \in 1..Len(Characters(t)), NEW b \in Seq(Chars),
         Completes(b, t, k)
  PROVE  /\ Joined(b, Adds(Characters(t), k)) \in Seq(Chars)
         /\ Completes(Joined(b, Adds(Characters(t), k)), t, After(Characters(t), k))
<1> DEFINE chars == Characters(t)
<1>1. chars \in Seq(Marks) /\ Len(chars) \in Nat
  BY StringsTyped
<1>2. PICK from : IsExpansion(from, chars) /\ Joined(b, from[k]) = Expanded(chars)
  BY DEF Completes
<1> HIDE DEF chars
<1>3. k \in 1..Len(chars)
  BY DEF chars
<1>4. from[k] = Joined(Adds(chars, k), from[After(chars, k)])
  BY <1>1, <1>2, <1>3, ExpansionTyped
<1>5. Adds(chars, k) \in Seq(Chars)
  BY <1>1, <1>3, AddsIs
<1>6. After(chars, k) \in 1..(Len(chars) + 1)
  BY <1>1, <1>3, AfterIs
<1>7. from[After(chars, k)] \in Seq(Chars)
  BY <1>1, <1>2, <1>6, ExpansionTyped
<1>8. Joined(Joined(b, Adds(chars, k)), from[After(chars, k)]) = Expanded(chars)
  BY <1>2, <1>4, <1>5, <1>7, JoinedAssociative
<1>9. Joined(b, Adds(chars, k)) \in Seq(Chars)
  BY <1>5, JoinedIs
<1>10. Completes(Joined(b, Adds(chars, k)), t, After(chars, k))
  BY <1>2, <1>8 DEF Completes, chars
<1> QED BY <1>9, <1>10 DEF chars

\* A character that begins no variable adds itself, or nothing.
Itself(x) == IF x = "" THEN <<>> ELSE <<x>>

\* A character that begins no variable is added, and the next one comes.
LEMMA CharacterMoves ==
  ASSUME NEW t \in Tokens, NEW j, NEW c, NEW k, NEW mark, Reads(t, j, c, k, mark),
         ~IsVariable(Characters(t), k), NEW b \in Seq(Chars), Completes(b, t, k)
  PROVE  /\ b \o Itself(mark.char) \in Seq(Chars)
         /\ Completes(b \o Itself(mark.char), t, k + 1)
<1>1. k \in 1..Len(Characters(t)) /\ Characters(t)[k] = mark
  BY DEF Reads
<1>2. Adds(Characters(t), k) = Itself(mark.char) /\ After(Characters(t), k) = k + 1
  BY <1>1 DEF Adds, After, Itself
<1>3. /\ Joined(b, Adds(Characters(t), k)) \in Seq(Chars)
      /\ Completes(Joined(b, Adds(Characters(t), k)), t, After(Characters(t), k))
  BY <1>1, Advances
<1> QED BY <1>2, <1>3, Zenon DEF Joined

\* A character of an escape or a quoted section begins no variable.
LEMMA LiteralMoves ==
  ASSUME NEW t \in Tokens, NEW j, NEW c, NEW k, NEW x, Reads(t, j, c, k, Literal(x)),
         NEW b \in Seq(Chars), Completes(b, t, k)
  PROVE  b \o Itself(x) \in Seq(Chars) /\ Completes(b \o Itself(x), t, k + 1)
<1>1. ~IsVariable(Characters(t), k)
  <2>1. Characters(t)[k] = Literal(x)
    BY DEF Reads
  <2>2. Literal(x) # Active("$")
    BY DEF Literal, Active
  <2> QED BY <2>1, <2>2 DEF IsVariable
<1>2. Literal(x).char = x
  BY DEF Literal
<1>3. /\ b \o Itself(Literal(x).char) \in Seq(Chars)
      /\ Completes(b \o Itself(Literal(x).char), t, k + 1)
  BY <1>1, CharacterMoves
<1> QED BY <1>2, <1>3, Zenon

\* Where the scan goes on, with text behind what was built.
GoesOn(t, j, q, b) == b \in Seq(Chars) /\ \E k \in Nat : Place(t, j, q, k) /\ Completes(b, t, k)

\* The same, where the scan has a place behind the character.
LEMMA LiteralGoes ==
  ASSUME NEW t \in Tokens, NEW j, NEW c, NEW k \in Nat, NEW x, Reads(t, j, c, k, Literal(x)),
         NEW b \in Seq(Chars), Completes(b, t, k), NEW j1, NEW q1, Place(t, j1, q1, k + 1)
  PROVE  GoesOn(t, j1, q1, b \o Itself(x))
<1>1. b \o Itself(x) \in Seq(Chars) /\ Completes(b \o Itself(x), t, k + 1)
  BY LiteralMoves
<1> QED BY <1>1 DEF GoesOn

-----------------------------------------------------------------------------
(* The steps *)

\* What is known where the scan is.
LEMMA PlaceIsKnown ==
  ASSUME TokenInv, Clear(token), token_at = "scan"
  PROVE  /\ token \in Tokens /\ str = Text(token) /\ i \in Nat /\ bld \in Seq(Chars)
         /\ \E k \in Nat : Place(token, i, in_quotes, k) /\ Completes(bld, token, k)
  BY DEF TokenInv

\* Outside quotes, the character at j is read in one of three ways.
ReadsEscaped(t, j, k) ==
  \E c \in Chars \ (Escapable \cup {"newline"}) :
    Reads(t, j, c, k, Literal(c)) /\ Between(t, j + 1, k + 1)
ReadsPlain(t, j, k) ==
  Unquoted(t, j, k) /\ j \in 1..Len(Text(t)) /\ Text(t)[j] \notin {"\\", "'"}
Begins(t, j, k, n, a, b) ==
  Opens(t, n, a, b) /\ t[n].kind \in {"escape", "quoted"} /\ j = a + 1 /\ k = b + 1

\* There is no fourth way.
LEMMA OutsideReads ==
  ASSUME NEW t \in Tokens, NEW j \in Nat, NEW k \in Nat, Place(t, j, FALSE, k), j <= Len(Text(t))
  PROVE  \/ ReadsEscaped(t, j, k)
         \/ ReadsPlain(t, j, k)
         \/ \E n \in 1..Len(t) : \E a, b : Begins(t, j, k, n, a, b)
<1>1. Unquoted(t, j, k) \/ Inside(t, "escape", j, k)
  BY DEF Place
<1>2. Len(Text(t)) \in Nat
  BY StringsTyped
<1>3. CASE Inside(t, "escape", j, k)
  BY <1>3, EscapedStep DEF ReadsEscaped
<1>4. CASE Unquoted(t, j, k)
  <2>1. CASE \E c \in Plain : Reads(t, j, c, k, Active(c))
    <3>1. PICK c \in Plain : Reads(t, j, c, k, Active(c))
      BY <2>1
    <3>2. Text(t)[j] = c /\ j \in 1..Len(Text(t))
      BY <3>1 DEF Reads
    <3>3. c \notin {"\\", "'"}
      BY DEF Plain
    <3> QED BY <1>4, <3>2, <3>3 DEF ReadsPlain
  <2>2. CASE \E n \in 1..Len(t) : \E a, b :
               Opens(t, n, a, b) /\ t[n].kind # "plain" /\ j = a + 1 /\ k = b + 1
    <3>1. \A n \in 1..Len(t) : t[n].kind \in {"plain", "escape", "quoted"}
      <4>1. \A n \in 1..Len(t) : t[n] \in Pieces
        BY TokenTyped
      <4> QED BY <4>1, PieceTyped
    <3> QED BY <2>2, <3>1 DEF Begins
  <2>3. j # Len(Text(t)) + 1
    BY <1>2
  <2> QED BY <1>4, <2>1, <2>2, <2>3, UnquotedStep
<1> QED BY <1>1, <1>3, <1>4

\* A backslash outside quotes: an escape begins.
LEMMA EscapeGoes ==
  ASSUME TokenInv, Clear(token), Escape
  PROVE  GoesOn(token, i', in_quotes', bld')
<1>1. /\ token_at = "scan" /\ i <= Len(str) /\ str[i] = "\\" /\ in_quotes = FALSE
      /\ in_quotes' = in_quotes
  BY DEF Escape, Here, TokenInv
<1>2. token \in Tokens /\ str = Text(token) /\ i \in Nat /\ bld \in Seq(Chars)
  BY <1>1, PlaceIsKnown
<1>3. PICK k \in Nat : Place(token, i, FALSE, k) /\ Completes(bld, token, k)
  BY <1>1, PlaceIsKnown
<1>4. ~ReadsEscaped(token, i, k) /\ ~ReadsPlain(token, i, k)
  <2>1. "\\" \in Escapable
    BY DEF Escapable
  <2> QED BY <1>1, <1>2, <2>1 DEF Reads, ReadsEscaped, ReadsPlain
<1>5. PICK n \in 1..Len(token) : \E a, b : Begins(token, i, k, n, a, b)
  BY <1>1, <1>2, <1>3, <1>4, OutsideReads
<1>6. PICK a, b : /\ Opens(token, n, a, b) /\ token[n].kind \in {"escape", "quoted"}
                  /\ i = a + 1 /\ k = b + 1
  BY <1>5 DEF Begins
<1>7. token[n].kind = "escape"
  <2>1. SUFFICES ASSUME token[n].kind = "quoted" PROVE FALSE
    BY <1>6
  <2>2. Reads(token, a + 1, "'", b + 1, Literal(""))
    BY <1>2, <1>6, <2>1, SectionStart
  <2> QED BY <1>1, <1>2, <1>6, <2>2 DEF Reads
<1>8. PICK c \in Chars : Escapes(token, a, b, c)
  BY <1>2, <1>6, <1>7, EscapeStep
<1>9. a \in Nat /\ b \in Nat
  BY <1>6 DEF Opens
<1>10. a + 2 = i + 1 /\ a + 3 = i + 2 /\ b + 2 = k + 1 /\ Len(Text(token)) \in Nat
  BY <1>2, <1>6, <1>9, StringsTyped
<1>11. i < Len(str) /\ str[i + 1] = c
  <2>1. a + 2 \in 1..Len(Text(token)) /\ Text(token)[a + 2] = c
    BY <1>8 DEF Escapes
  <2>2. i + 1 \in 1..Len(str) /\ str[i + 1] = c /\ Len(str) \in Nat
    BY <1>2, <1>10, <2>1
  <2> QED BY <1>2, <2>2
<1>12. NextChar(i) = c
  BY <1>11 DEF NextChar
<1>13. CASE c \in Escapable
  <2>1. Reads(token, i, "\\", k, Literal(c)) /\ Place(token, i + 2, FALSE, k + 1)
    BY <1>6, <1>8, <1>10, <1>13 DEF Place, Unquoted, Escapes
  <2>2. c # "newline"
    BY <1>13 DEF Escapable
  <2>3. bld' = bld \o <<c>> /\ i' = i + 2
    BY <1>12, <1>13, <2>2 DEF Escape, Goes
  <2>4. Itself(c) = <<c>>
    BY DEF Itself, Chars
  <2>5. GoesOn(token, i + 2, FALSE, bld \o Itself(c))
    BY <1>2, <1>3, <2>1, LiteralGoes
  <2> QED BY <1>1, <2>3, <2>4, <2>5
<1>14. CASE c = "newline"
  <2>1. Reads(token, i, "\\", k, Literal("")) /\ Place(token, i + 2, FALSE, k + 1)
    BY <1>6, <1>8, <1>10, <1>14 DEF Place, Unquoted, Escapes
  <2>2. c \notin Escapable
    BY <1>14 DEF Escapable
  <2>3. bld' = bld \o <<>> /\ i' = i + 2
    BY <1>12, <1>14, <2>2 DEF Escape, Goes
  <2>4. Itself("") = <<>>
    BY DEF Itself
  <2>5. GoesOn(token, i + 2, FALSE, bld \o Itself(""))
    BY <1>2, <1>3, <2>1, LiteralGoes
  <2> QED BY <1>1, <2>3, <2>4, <2>5
<1>15. CASE c \notin Escapable \cup {"newline"}
  <2>1. Reads(token, i, "\\", k, Literal("\\")) /\ Place(token, i + 1, FALSE, k + 1)
    BY <1>6, <1>8, <1>10, <1>15 DEF Place, Escapes
  <2>3. bld' = bld \o <<"\\">> /\ i' = i + 1
    BY <1>12, <1>15 DEF Escape, Goes
  <2>4. Itself("\\") = <<"\\">>
    BY DEF Itself
  <2>5. GoesOn(token, i + 1, FALSE, bld \o Itself("\\"))
    BY <1>2, <1>3, <2>1, LiteralGoes
  <2> QED BY <1>1, <2>3, <2>4, <2>5
<1> QED BY <1>13, <1>14, <1>15

\* A backslash in quotes: one that escapes a quote, or one that is kept.
LEMMA QuotedEscapeGoes ==
  ASSUME TokenInv, Clear(token), QuotedEscape
  PROVE  GoesOn(token, i', in_quotes', bld')
<1>1. /\ token_at = "scan" /\ i <= Len(str) /\ str[i] = "\\" /\ in_quotes = TRUE
      /\ in_quotes' = in_quotes
  BY DEF QuotedEscape, Here, TokenInv
<1>2. token \in Tokens /\ str = Text(token) /\ i \in Nat /\ bld \in Seq(Chars)
  BY <1>1, PlaceIsKnown
<1>3. PICK k \in Nat : Place(token, i, TRUE, k) /\ Completes(bld, token, k)
  BY <1>1, PlaceIsKnown
<1>4. QuotedScan(token, i, k)
  <2>1. Inside(token, "quoted", i, k)
    BY <1>3 DEF Place
  <2> QED BY <1>2, <2>1, QuotedStep DEF Clear
<1>5. Len(Text(token)) \in Nat
  BY <1>2, StringsTyped
<1>6. CASE /\ Reads(token, i, "\\", k, Literal("'")) /\ QuoteFollows(token, i, TRUE)
           /\ Inside(token, "quoted", i + 2, k + 1)
  <2>1. NextChar(i) = "'"
    BY <1>2, <1>5, <1>6 DEF NextChar, QuoteFollows
  <2>2. bld' = bld \o <<"'">> /\ i' = i + 2
    BY <2>1 DEF QuotedEscape, Goes
  <2>3. Itself("'") = <<"'">>
    BY DEF Itself
  <2>4. Place(token, i + 2, TRUE, k + 1)
    BY <1>6 DEF Place
  <2>5. GoesOn(token, i + 2, TRUE, bld \o Itself("'"))
    BY <1>2, <1>3, <1>6, <2>4, LiteralGoes
  <2> QED BY <1>1, <2>2, <2>3, <2>5
<1>7. CASE /\ Reads(token, i, "\\", k, Literal("\\")) /\ QuoteFollows(token, i, FALSE)
           /\ Inside(token, "quoted", i + 1, k + 1)
  <2>1. NextChar(i) # "'"
    BY <1>2, <1>5, <1>7 DEF NextChar, QuoteFollows
  <2>2. bld' = bld \o <<"\\">> /\ i' = i + 1
    BY <2>1 DEF QuotedEscape, Goes
  <2>3. Itself("\\") = <<"\\">>
    BY DEF Itself
  <2>4. Place(token, i + 1, TRUE, k + 1)
    BY <1>7 DEF Place
  <2>5. GoesOn(token, i + 1, TRUE, bld \o Itself("\\"))
    BY <1>2, <1>3, <1>7, <2>4, LiteralGoes
  <2> QED BY <1>1, <2>2, <2>3, <2>5
<1>8. /\ Text(token)[i] # "'"
      /\ \A c \in {"letter", "$", "newline"} : ~Reads(token, i, c, k, Literal(c))
  BY <1>1, <1>2 DEF Reads
<1> QED BY <1>4, <1>6, <1>7, <1>8 DEF QuotedScan

\* A quote that is not escaped closes a section or opens one.
LEMMA QuoteGoes ==
  ASSUME TokenInv, Clear(token), Quote
  PROVE  GoesOn(token, i', in_quotes', bld')
<1>1. /\ token_at = "scan" /\ i <= Len(str) /\ str[i] = "'" /\ in_quotes \in BOOLEAN
      /\ in_quotes' = ~in_quotes /\ bld' = bld \o <<>> /\ i' = i + 1
  BY DEF Quote, Here, Goes, TokenInv
<1>2. token \in Tokens /\ str = Text(token) /\ i \in Nat /\ bld \in Seq(Chars)
  BY <1>1, PlaceIsKnown
<1>3. PICK k \in Nat : Place(token, i, in_quotes, k) /\ Completes(bld, token, k)
  BY <1>1, PlaceIsKnown
<1>4. bld' = bld
  BY <1>1, <1>2, ConcatEmptySeq
<1>5. CASE in_quotes = TRUE
  <2>1. QuotedScan(token, i, k)
    <3>1. Inside(token, "quoted", i, k)
      BY <1>3, <1>5 DEF Place
    <3> QED BY <1>2, <3>1, QuotedStep DEF Clear
  <2>2. /\ \A x : ~Reads(token, i, "\\", k, x)
        /\ \A c \in {"letter", "$", "newline"} : ~Reads(token, i, c, k, Literal(c))
    BY <1>1, <1>2 DEF Reads
  <2>3. Between(token, i + 1, k)
    BY <2>1, <2>2 DEF QuotedScan
  <2>4. Place(token, i + 1, FALSE, k)
    BY <2>3 DEF Place, Unquoted
  <2> QED BY <1>1, <1>2, <1>3, <1>4, <1>5, <2>4 DEF GoesOn
<1>6. CASE in_quotes = FALSE
  <2>1. ~ReadsEscaped(token, i, k) /\ ~ReadsPlain(token, i, k)
    <3>1. "'" \in Escapable
      BY DEF Escapable
    <3> QED BY <1>1, <1>2, <3>1 DEF Reads, ReadsEscaped, ReadsPlain
  <2>2. Place(token, i, FALSE, k)
    BY <1>3, <1>6
  <2>3. PICK n \in 1..Len(token) : \E a, b : Begins(token, i, k, n, a, b)
    BY <1>1, <1>2, <2>1, <2>2, OutsideReads
  <2>4. PICK a, b : /\ Opens(token, n, a, b) /\ token[n].kind \in {"escape", "quoted"}
                    /\ i = a + 1 /\ k = b + 1
    BY <2>3 DEF Begins
  <2>5. token[n].kind = "quoted"
    <3>1. SUFFICES ASSUME token[n].kind = "escape" PROVE FALSE
      BY <2>4
    <3>2. PICK c \in Chars : Escapes(token, a, b, c)
      BY <1>2, <2>4, <3>1, EscapeStep
    <3>3. \E x : Reads(token, a + 1, "\\", b + 1, x)
      BY <3>2 DEF Escapes
    <3> QED BY <1>1, <1>2, <2>4, <3>3 DEF Reads
  <2>6. a + 2 = i + 1 /\ b + 2 = k + 1
    <3>1. a \in Nat /\ b \in Nat
      BY <2>4 DEF Opens
    <3> QED BY <2>4, <3>1
  <2>7. Reads(token, i, "'", k, Literal("")) /\ Place(token, i + 1, TRUE, k + 1)
    <3>1. Reads(token, a + 1, "'", b + 1, Literal("")) /\ Inside(token, "quoted", a + 2, b + 2)
      BY <1>2, <2>4, <2>5, SectionStart
    <3> QED BY <2>4, <2>6, <3>1 DEF Place
  <2>8. GoesOn(token, i + 1, TRUE, bld \o Itself(""))
    BY <1>2, <1>3, <2>7, LiteralGoes
  <2>9. Itself("") = <<>>
    BY DEF Itself
  <2> QED BY <1>1, <1>6, <2>8, <2>9
<1> QED BY <1>1, <1>5, <1>6

\* A character that is kept begins no variable of the meaning.
LEMMA KeepGoes ==
  ASSUME TokenInv, Clear(token), Keep
  PROVE  GoesOn(token, i', in_quotes', bld')
<1>1. /\ token_at = "scan" /\ i <= Len(str) /\ str[i] \notin {"\\", "'"} /\ in_quotes \in BOOLEAN
      /\ in_quotes' = in_quotes /\ bld' = bld \o <<str[i]>> /\ i' = i + 1
  BY DEF Keep, Goes, TokenInv
<1>2. token \in Tokens /\ str = Text(token) /\ i \in Nat /\ bld \in Seq(Chars)
  BY <1>1, PlaceIsKnown
<1>3. PICK k \in Nat : Place(token, i, in_quotes, k) /\ Completes(bld, token, k)
  BY <1>1, PlaceIsKnown
<1>4. CASE in_quotes = TRUE
  <2>1. QuotedScan(token, i, k)
    <3>1. Inside(token, "quoted", i, k)
      BY <1>3, <1>4 DEF Place
    <3> QED BY <1>2, <3>1, QuotedStep DEF Clear
  <2>2. \A x : ~Reads(token, i, "\\", k, x)
    BY <1>1, <1>2 DEF Reads
  <2>3. PICK c \in {"letter", "$", "newline"} :
          Reads(token, i, c, k, Literal(c)) /\ Inside(token, "quoted", i + 1, k + 1)
    BY <1>1, <1>2, <2>1, <2>2 DEF QuotedScan
  <2>4. c = str[i]
    BY <1>2, <2>3 DEF Reads
  <2>5. Place(token, i + 1, TRUE, k + 1)
    BY <2>3 DEF Place
  <2>6. GoesOn(token, i + 1, TRUE, bld \o Itself(c))
    BY <1>2, <1>3, <2>3, <2>5, LiteralGoes
  <2>7. Itself(c) = <<c>>
    BY DEF Itself
  <2> QED BY <1>1, <1>4, <2>4, <2>6, <2>7
<1>5. CASE in_quotes = FALSE
  <2>1. Place(token, i, FALSE, k)
    BY <1>3, <1>5
  <2>2. ~\E n \in 1..Len(token) : \E a, b : Begins(token, i, k, n, a, b)
    <3> SUFFICES ASSUME NEW n \in 1..Len(token), NEW a, NEW b, Begins(token, i, k, n, a, b)
                 PROVE  FALSE
      OBVIOUS
    <3>1. Opens(token, n, a, b) /\ token[n].kind # "plain" /\ i = a + 1
      BY DEF Begins
    <3>2. PICK c \in {"\\", "'"} : \E x : Reads(token, a + 1, c, b + 1, Literal(x))
      BY <1>2, <3>1, OpensLiteral
    <3> QED BY <1>1, <1>2, <3>1, <3>2 DEF Reads
  <2>3. CASE ReadsEscaped(token, i, k)
    <3>1. PICK c \in Chars \ (Escapable \cup {"newline"}) :
            Reads(token, i, c, k, Literal(c)) /\ Between(token, i + 1, k + 1)
      BY <2>3 DEF ReadsEscaped
    <3>2. c = str[i] /\ c # ""
      BY <1>2, <3>1 DEF Reads, Chars
    <3>3. Place(token, i + 1, FALSE, k + 1)
      BY <3>1 DEF Place, Unquoted
    <3>4. GoesOn(token, i + 1, FALSE, bld \o Itself(c))
      BY <1>2, <1>3, <3>1, <3>3, LiteralGoes
    <3>5. Itself(c) = <<c>>
      BY <3>2 DEF Itself
    <3> QED BY <1>1, <1>5, <3>2, <3>4, <3>5
  <2>4. CASE ReadsPlain(token, i, k)
    <3>0. Len(Text(token)) \in Nat /\ Len(Characters(token)) \in Nat
      BY <1>2, StringsTyped
    <3>1. /\ Unquoted(token, i, k) /\ i \in 1..Len(Text(token))
          /\ Text(token)[i] \notin {"\\", "'"}
      BY <2>4 DEF ReadsPlain
    <3>2. /\ Text(token)[i] \in Plain
          /\ Reads(token, i, Text(token)[i], k, Active(Text(token)[i]))
          /\ Unquoted(token, i + 1, k + 1)
      BY <1>2, <3>0, <3>1, PlainIsRead
    <3>3. ~IsVariable(Characters(token), k)
      <4> SUFFICES ASSUME IsVariable(Characters(token), k) PROVE FALSE
        OBVIOUS
      <4>1. /\ Characters(token)[k] = Active("$") /\ k + 1 <= Len(Characters(token))
            /\ Characters(token)[k + 1] = Active("letter")
        BY <3>0 DEF IsVariable
      <4>2. Active("letter").active = TRUE /\ Active("letter").char = "letter"
            /\ "letter" \in IdentifierChars
        BY DEF Active, IdentifierChars
      <4>3. Names(Characters(token), k + 1)
        BY <4>1, <4>2 DEF Names
      <4>4. i + 1 \in 1..Len(Text(token)) /\ Text(token)[i + 1] \in IdentifierChars
        <5>1. i + 1 \in Nat /\ k + 1 \in Nat
          BY <1>2
        <5> QED BY <1>2, <3>0, <3>2, <4>3, <5>1, NoNameIsRead
      <4>5. Text(token)[i + 1] \notin {"\\", "'"}
        BY <4>4 DEF IdentifierChars
      <4>6. Reads(token, i + 1, Text(token)[i + 1], k + 1, Active(Text(token)[i + 1]))
        <5>1. k + 1 \in Nat
          OBVIOUS
        <5> QED BY <1>2, <3>0, <3>2, <4>4, <4>5, <5>1, PlainIsRead
      <4>7. Text(token)[i + 1] = "letter" /\ Text(token)[i] = "$"
        <5>1. Active(Text(token)[i + 1]) = Active("letter") /\ Active(Text(token)[i]) = Active("$")
          BY <3>2, <4>1, <4>6 DEF Reads
        <5>2. \A c : Active(c).char = c
          BY DEF Active
        <5> QED BY <5>1, <5>2
      <4>8. i < Len(str)
        BY <1>2, <3>0, <4>4
      <4>9. IsDeref
        BY <1>1, <1>2, <1>5, <4>7, <4>8 DEF IsDeref, Here, NextChar
      <4> QED BY <4>9 DEF Keep
    <3>4. Active(str[i]).char = str[i] /\ str[i] # ""
      BY <1>2, <3>2 DEF Active, Plain, Chars
    <3>5. Itself(str[i]) = <<str[i]>>
      BY <3>4 DEF Itself
    <3>6. /\ bld \o Itself(Active(str[i]).char) \in Seq(Chars)
          /\ Completes(bld \o Itself(Active(str[i]).char), token, k + 1)
      BY <1>2, <1>3, <3>2, <3>3, CharacterMoves
    <3>7. bld' \in Seq(Chars) /\ Completes(bld', token, k + 1)
      BY <1>1, <3>4, <3>5, <3>6
    <3>8. Place(token, i + 1, FALSE, k + 1) /\ k + 1 \in Nat
      BY <3>2 DEF Place
    <3> QED BY <1>1, <1>5, <3>7, <3>8 DEF GoesOn
  <2> QED BY <1>1, <1>2, <2>1, <2>2, <2>3, <2>4, OutsideReads
<1> QED BY <1>1, <1>4, <1>5

\* The name that is read at k is the one in the token.
IsNameAt(t, at, k, last, n) ==
  /\ n \in (k + 1)..Len(Characters(t)) /\ n - k = last - at
  /\ IsIdentifier(Characters(t), k, n) /\ ~Names(Characters(t), n + 1)
  /\ \A x \in 1..(n - k) : Characters(t)[k + x].char = Text(t)[at + x]
  /\ Unquoted(t, last + 1, n + 1)

\* The characters that the scan takes for a name are the longest name there.
LEMMA NameIsFound ==
  ASSUME NEW t \in Tokens, NEW at \in Nat, NEW k \in Nat, Unquoted(t, at + 1, k + 1),
         NEW last \in (at + 1)..Len(Text(t)),
         \A x \in (at + 1)..last : Text(t)[x] \in IdentifierChars,
         last + 1 \in 1..Len(Text(t)) => Text(t)[last + 1] \notin IdentifierChars
  PROVE  IsNameAt(t, at, k, last, k + (last - at))
<1> DEFINE n == k + (last - at)
<1>0. /\ Len(Text(t)) \in Nat /\ Len(Characters(t)) \in Nat /\ last \in Nat /\ n \in Nat
      /\ at + 1 \in Nat /\ k + 1 \in Nat /\ last + 1 \in Nat /\ n + 1 \in Nat
      /\ n - k = last - at /\ last <= Len(Text(t)) /\ at + 1 > 0
  BY StringsTyped
<1>1. \A x \in (at + 1)..last :
         /\ Unquoted(t, x + 1, (k + 1) + (x - (at + 1)) + 1)
         /\ Reads(t, x, Text(t)[x], (k + 1) + (x - (at + 1)), Active(Text(t)[x]))
  BY <1>0, NameIsRead
<1>2. ASSUME NEW x \in 1..(n - k)
      PROVE  /\ k + x \in 1..Len(Characters(t))
             /\ Characters(t)[k + x] = Active(Text(t)[at + x])
             /\ Text(t)[at + x] \in IdentifierChars
  <2>1. /\ at + x \in (at + 1)..last
        /\ (k + 1) + ((at + x) - (at + 1)) = k + x
    BY <1>0
  <2>2. Reads(t, at + x, Text(t)[at + x], k + x, Active(Text(t)[at + x]))
    BY <1>1, <2>1
  <2> QED BY <2>1, <2>2 DEF Reads
<1>3. \A c : Active(c).active = TRUE /\ Active(c).char = c
  BY DEF Active
<1>4. n \in (k + 1)..Len(Characters(t))
  <2>1. n - k \in 1..(n - k) /\ k + (n - k) = n
    BY <1>0
  <2>2. n \in 1..Len(Characters(t))
    BY <1>2, <2>1
  <2> QED BY <1>0, <2>2
<1>5. Unquoted(t, last + 1, n + 1)
  <2>1. last \in (at + 1)..last /\ (k + 1) + (last - (at + 1)) + 1 = n + 1
    BY <1>0
  <2> QED BY <1>1, <2>1
<1>6. ~Names(Characters(t), n + 1)
  BY <1>0, <1>5, NoNameIsRead
<1> HIDE DEF n
<1>7. IsIdentifier(Characters(t), k, n)
  <2> SUFFICES ASSUME NEW j \in (k + 1)..n
               PROVE  Characters(t)[j].active /\ Characters(t)[j].char \in IdentifierChars
    BY DEF IsIdentifier
  <2>1. j - k \in 1..(n - k) /\ k + (j - k) = j
    BY <1>0
  <2>2. Characters(t)[j] = Active(Text(t)[at + (j - k)])
       /\ Text(t)[at + (j - k)] \in IdentifierChars
    BY <1>2, <2>1
  <2> QED BY <1>3, <2>2
<1>8. \A x \in 1..(n - k) : Characters(t)[k + x].char = Text(t)[at + x]
  BY <1>2, <1>3
<1>9. IsNameAt(t, at, k, last, n)
  BY <1>0, <1>4, <1>5, <1>6, <1>7, <1>8 DEF IsNameAt
<1> QED BY <1>9 DEF n

\* A variable of the scan is one of the meaning, with the same value.
LEMMA DereferenceGoes ==
  ASSUME TokenInv, Clear(token), Dereference
  PROVE  GoesOn(token, i', in_quotes', bld')
<1>1. /\ token_at = "scan" /\ i <= Len(str) /\ str[i] = "$" /\ in_quotes = FALSE
      /\ NextChar(i) = "letter" /\ in_quotes' = in_quotes
  BY DEF Dereference, IsDeref, Here, TokenInv
<1>2. token \in Tokens /\ str = Text(token) /\ i \in Nat /\ bld \in Seq(Chars)
  BY <1>1, PlaceIsKnown
<1>3. PICK k \in Nat : Place(token, i, FALSE, k) /\ Completes(bld, token, k)
  BY <1>1, PlaceIsKnown
<1>4. PICK last \in (i + 1)..Len(str) :
        /\ \A x \in (i + 1)..last : str[x] \in IdentifierChars
        /\ NextChar(last) \notin IdentifierChars
        /\ bld' = bld \o lookup_env(SubSeq(str, i + 1, last)) /\ i' = last + 1
  BY DEF Dereference, Goes
<1>5. /\ Len(Text(token)) \in Nat /\ Len(Characters(token)) \in Nat
      /\ Characters(token) \in Seq(Marks) /\ Text(token) \in Seq(Chars)
  BY <1>2, StringsTyped
<1>6. ReadsPlain(token, i, k)
  <2>1. ~ReadsEscaped(token, i, k)
    <3>1. "$" \in Escapable
      BY DEF Escapable
    <3> QED BY <1>1, <1>2, <3>1 DEF Reads, ReadsEscaped
  <2>2. ~\E n \in 1..Len(token) : \E a, b : Begins(token, i, k, n, a, b)
    <3> SUFFICES ASSUME NEW n \in 1..Len(token), NEW a, NEW b, Begins(token, i, k, n, a, b)
                 PROVE  FALSE
      OBVIOUS
    <3>1. Opens(token, n, a, b) /\ token[n].kind # "plain" /\ i = a + 1
      BY DEF Begins
    <3>2. PICK c \in {"\\", "'"} : \E x : Reads(token, a + 1, c, b + 1, Literal(x))
      BY <1>2, <3>1, OpensLiteral
    <3> QED BY <1>1, <1>2, <3>1, <3>2 DEF Reads
  <2> QED BY <1>1, <1>2, <1>3, <2>1, <2>2, OutsideReads
<1>7. Reads(token, i, "$", k, Active("$")) /\ Unquoted(token, i + 1, k + 1)
  <2>1. Unquoted(token, i, k) /\ i \in 1..Len(Text(token)) /\ Text(token)[i] \notin {"\\", "'"}
    BY <1>6 DEF ReadsPlain
  <2>2. /\ Reads(token, i, Text(token)[i], k, Active(Text(token)[i]))
        /\ Unquoted(token, i + 1, k + 1)
    BY <1>2, <1>5, <2>1, PlainIsRead
  <2>3. Text(token)[i] = "$"
    BY <1>1, <1>2
  <2> QED BY <2>2, <2>3
<1> DEFINE n == k + (last - i)
<1>8. last + 1 \in 1..Len(Text(token)) => Text(token)[last + 1] \notin IdentifierChars
  <2>1. last + 1 \in 1..Len(Text(token)) => NextChar(last) = Text(token)[last + 1]
    BY <1>2, <1>5 DEF NextChar
  <2> QED BY <1>4, <2>1
<1>9. IsNameAt(token, i, k, last, n)
  <2>1. /\ last \in (i + 1)..Len(Text(token))
        /\ \A x \in (i + 1)..last : Text(token)[x] \in IdentifierChars
    BY <1>2, <1>4
  <2> QED BY <1>2, <1>7, <1>8, <2>1, NameIsFound
<1>10. n - k = last - i /\ n \in Nat /\ last \in Nat /\ last - i \in Nat \ {0}
  BY <1>2, <1>4, <1>5
<1> HIDE DEF n
<1>11. k \in 1..Len(Characters(token)) /\ Characters(token)[k] = Active("$")
  BY <1>7 DEF Reads
<1>12. /\ n \in (k + 1)..Len(Characters(token)) /\ IsIdentifier(Characters(token), k, n)
       /\ ~Names(Characters(token), n + 1) /\ Unquoted(token, last + 1, n + 1)
       /\ \A x \in 1..(n - k) : Characters(token)[k + x].char = Text(token)[i + x]
  BY <1>9 DEF IsNameAt
<1>13. IsVariable(Characters(token), k)
  <2>1. k + 1 \in (k + 1)..n /\ k < Len(Characters(token)) /\ 1 \in 1..(n - k) /\ i < Len(str)
    BY <1>2, <1>4, <1>5, <1>11, <1>12
  <2>2. Characters(token)[k + 1].active /\ Characters(token)[k + 1].char = Text(token)[i + 1]
    BY <1>12, <2>1 DEF IsIdentifier
  <2>3. Text(token)[i + 1] = "letter"
    BY <1>1, <1>2, <2>1 DEF NextChar
  <2>4. Characters(token)[k + 1] \in Marks
    BY <1>5, <1>12, <2>1
  <2>5. Characters(token)[k + 1] = Active("letter")
    BY <2>2, <2>3, <2>4 DEF Marks, Active
  <2> QED BY <1>11, <2>1, <2>5 DEF IsVariable
<1>14. NameEnd(Characters(token), k) = n
  <2>1. n \in k..Len(Characters(token))
    BY <1>11, <1>12
  <2> QED BY <1>5, <1>11, <1>12, <2>1, NameEndUnique
<1>15. [x \in 1..(n - k) |-> Characters(token)[k + x].char] = SubSeq(str, i + 1, last)
  <2>1. \A x \in 1..(last - i) : str[(i + 1) + x - 1] = Characters(token)[k + x].char
    <3> SUFFICES ASSUME NEW x \in 1..(last - i)
                 PROVE  str[(i + 1) + x - 1] = Characters(token)[k + x].char
      OBVIOUS
    <3>1. (i + 1) + x - 1 = i + x /\ x \in 1..(n - k)
      BY <1>2, <1>10
    <3> QED BY <1>2, <1>12, <3>1
  <2>2. SubSeq(str, i + 1, last) = [x \in 1..(last - i) |-> str[(i + 1) + x - 1]]
    <3>1. last - (i + 1) + 1 = last - i
      BY <1>2, <1>10
    <3>2. SubSeq(str, i + 1, last) = [x \in 1..(last - (i + 1) + 1) |-> str[(i + 1) + x - 1]]
      BY <1>2, <1>10
    <3> QED BY <3>1, <3>2
  <2> QED BY <1>10, <2>1, <2>2
<1>16. /\ Adds(Characters(token), k) = lookup_env(SubSeq(str, i + 1, last))
       /\ After(Characters(token), k) = n + 1
  <2>1. Adds(Characters(token), k) =
          lookup_env([x \in 1..(n - k) |-> Characters(token)[k + x].char])
    BY <1>13, <1>14 DEF Adds
  <2> QED BY <1>13, <1>14, <1>15, <2>1 DEF After
<1>17. /\ Joined(bld, Adds(Characters(token), k)) \in Seq(Chars)
       /\ Completes(Joined(bld, Adds(Characters(token), k)), token, After(Characters(token), k))
  BY <1>2, <1>3, <1>11, Advances
<1>18. bld' = Joined(bld, Adds(Characters(token), k))
  BY <1>4, <1>16, Zenon DEF Joined
<1>19. bld' \in Seq(Chars) /\ Completes(bld', token, n + 1)
  BY <1>16, <1>17, <1>18
<1>20. Place(token, last + 1, FALSE, n + 1) /\ n + 1 \in Nat
  BY <1>10, <1>12 DEF Place
<1> QED BY <1>1, <1>4, <1>19, <1>20 DEF GoesOn

\* At the end of the string, the meaning is built and no quote is open.
LEMMA FinishGoes ==
  ASSUME TokenInv, Clear(token), Finish
  PROVE  token_at' = "done" /\ bld' = Meaning
<1>1. /\ token_at = "scan" /\ i > Len(str) /\ in_quotes \in BOOLEAN /\ bld' = bld
      /\ token_at' = IF in_quotes THEN "abort" ELSE "done"
  BY DEF Finish, TokenInv
<1>2. token \in Tokens /\ str = Text(token) /\ i \in Nat /\ bld \in Seq(Chars)
  BY <1>1, PlaceIsKnown
<1>3. PICK k \in Nat : Place(token, i, in_quotes, k) /\ Completes(bld, token, k)
  BY <1>1, PlaceIsKnown
<1>4. i \notin 1..Len(Text(token)) /\ Len(Text(token)) \in Nat /\ Characters(token) \in Seq(Marks)
  BY <1>1, <1>2, StringsTyped
<1>5. \A c, x : ~Reads(token, i, c, k, x)
  BY <1>4 DEF Reads
<1>6. ~in_quotes
  <2> SUFFICES ASSUME in_quotes PROVE FALSE
    OBVIOUS
  <2>1. Inside(token, "quoted", i, k)
    BY <1>3 DEF Place
  <2>2. QuotedScan(token, i, k)
    BY <1>2, <2>1, QuotedStep DEF Clear
  <2> QED BY <1>4, <1>5, <2>2 DEF QuotedScan
<1>7. ~Inside(token, "escape", i, k)
  <2> SUFFICES ASSUME Inside(token, "escape", i, k) PROVE FALSE
    OBVIOUS
  <2>1. \E c \in Chars \ (Escapable \cup {"newline"}) : Reads(token, i, c, k, Literal(c))
    BY <1>2, EscapedStep
  <2> QED BY <1>5, <2>1
<1>8. Unquoted(token, i, k)
  BY <1>3, <1>6, <1>7 DEF Place
<1>9. ~\E n \in 1..Len(token) : \E a, b :
          Opens(token, n, a, b) /\ token[n].kind # "plain" /\ i = a + 1 /\ k = b + 1
  <2> SUFFICES ASSUME NEW n \in 1..Len(token), NEW a, NEW b, Opens(token, n, a, b),
                      token[n].kind # "plain", i = a + 1, k = b + 1
               PROVE  FALSE
    OBVIOUS
  <2>1. \E c \in {"\\", "'"} : \E x : Reads(token, a + 1, c, b + 1, Literal(x))
    BY <1>2, OpensLiteral
  <2> QED BY <1>5, <2>1
<1>10. k = Len(Characters(token)) + 1
  BY <1>2, <1>5, <1>8, <1>9, UnquotedStep
<1>11. PICK from : /\ IsExpansion(from, Characters(token))
                   /\ Joined(bld, from[k]) = Expanded(Characters(token))
  BY <1>3 DEF Completes
<1>12. from[k] = <<>>
  BY <1>4, <1>10, <1>11, ExpansionTyped
<1>13. bld = Expanded(Characters(token))
  <2>1. bld \o <<>> = bld
    BY <1>2, ConcatEmptySeq
  <2> QED BY <1>11, <1>12, <2>1, Zenon DEF Joined
<1>14. Meaning = Expanded(Characters(token))
  BY DEF Meaning, Characters, Means
<1> QED BY <1>1, <1>6, <1>13, <1>14

\* A scan begins before the first piece, with nothing built.
LEMMA TokenInitial ==
  ASSUME TokenInit
  PROVE  TokenInv
<1>1. /\ token \in Tokens /\ str = Text(token) /\ i = 1 /\ bld = <<>> /\ in_quotes = FALSE
      /\ token_at = "scan" /\ bld \in Seq(Chars)
  BY DEF TokenInit, Text, Raws
<1>2. Place(token, 1, FALSE, 1)
  <2>1. /\ Len(token) \in Nat
        /\ Raws(token) \in Seq(Seq(Chars)) /\ Means(token) \in Seq(Seq(Marks))
    BY <1>1, TokenTyped
  <2>2. /\ Cuts(Cut(Raws(token)), Raws(token), Text(token))
        /\ Cuts(Cut(Means(token)), Means(token), Characters(token))
    BY <2>1, CutsExist DEF Text, Characters
  <2>3. Cut(Raws(token))[0] = 0 /\ Cut(Means(token))[0] = 0
    BY <2>2 DEF Cuts
  <2>4. 0 \in 0..Len(token) /\ 1 = 0 + 1
    BY <2>1
  <2>5. 1 = Cut(Raws(token))[0] + 1 /\ 1 = Cut(Means(token))[0] + 1
    BY <2>3
  <2>6. Between(token, 1, 1)
    BY <2>4, <2>5, Zenon DEF Between
  <2> QED BY <2>6 DEF Place, Unquoted
<1>3. Completes(<<>>, token, 1)
  <2>1. Characters(token) \in Seq(Marks) /\ Len(Characters(token)) \in Nat
    BY <1>1, StringsTyped
  <2>2. \E g : IsExpansion(g, Characters(token))
    BY <2>1, ExpansionExists
  <2>3. PICK from : /\ IsExpansion(from, Characters(token))
                    /\ Expanded(Characters(token)) = from[1]
    BY <2>2, ExpandedUnfolds
  <2>4. from[1] \in Seq(Chars)
    <3>1. 1 \in 1..(Len(Characters(token)) + 1)
      BY <2>1
    <3> QED BY <2>1, <2>3, <3>1, ExpansionTyped
  <2>5. <<>> \o from[1] = from[1]
    BY <2>4, ConcatEmptySeq
  <2>6. Joined(<<>>, from[1]) = Expanded(Characters(token))
    BY <2>3, <2>5, Zenon DEF Joined
  <2> QED BY <2>3, <2>6 DEF Completes
<1>4. 1 \in Nat \ {0}
  OBVIOUS
<1>5. \E k \in Nat : Place(token, i, in_quotes, k) /\ Completes(bld, token, k)
  BY <1>1, <1>2, <1>3, <1>4
<1> QED BY <1>1, <1>4, <1>5 DEF TokenInv

\* Whatever the token, a step builds a string.
LEMMA StringIsBuilt ==
  ASSUME TokenInv, TokenNext
  PROVE  /\ token' = token /\ str' = str
         /\ i' \in Nat \ {0} /\ bld' \in Seq(Chars) /\ in_quotes' \in BOOLEAN
         /\ token_at' \in {"scan", "done", "abort"}
         /\ token_at = "scan" /\ (Finish \/ token_at' = "scan")
<1>1. /\ i \in Nat /\ bld \in Seq(Chars) /\ in_quotes \in BOOLEAN /\ str \in Seq(Chars)
      /\ token_at \in {"scan", "done", "abort"}
  BY StringsTyped DEF TokenInv
<1>2. ASSUME NEW text \in Seq(Chars), NEW k \in Nat \ {0}, Goes(text, k), token_at = "scan"
      PROVE  /\ token' = token /\ str' = str /\ i' \in Nat \ {0} /\ bld' \in Seq(Chars)
             /\ token_at' = "scan"
  <2>1. bld \o text \in Seq(Chars)
    BY <1>1
  <2> QED BY <1>2, <2>1 DEF Goes
<1>3. /\ <<>> \in Seq(Chars) /\ \A c \in Chars : <<c>> \in Seq(Chars)
      /\ Escapable \in SUBSET Chars /\ i + 1 \in Nat \ {0} /\ i + 2 \in Nat \ {0}
      /\ "\\" \in Chars /\ "'" \in Chars
  BY <1>1 DEF Escapable, Chars
<1>4. CASE Escape
  <2>1. in_quotes' = in_quotes /\ token_at = "scan"
    BY <1>4 DEF Escape, Here
  <2>2. \E text \in Seq(Chars), k \in Nat \ {0} : Goes(text, k)
    <3>1. CASE NextChar(i) \in Escapable
      <4>1. Goes(<<NextChar(i)>>, i + 2)
        BY <1>4, <3>1 DEF Escape, Escapable
      <4> QED BY <1>3, <3>1, <4>1
    <3>2. CASE NextChar(i) = "newline"
      <4>1. Goes(<<>>, i + 2)
        BY <1>4, <3>2 DEF Escape, Escapable
      <4> QED BY <1>3, <4>1
    <3>3. CASE NextChar(i) \notin Escapable /\ NextChar(i) # "newline"
      <4>1. Goes(<<"\\">>, i + 1)
        BY <1>4, <3>3 DEF Escape
      <4> QED BY <1>3, <4>1
    <3> QED BY <3>1, <3>2, <3>3
  <2> QED BY <1>1, <1>2, <2>1, <2>2
<1>5. CASE QuotedEscape
  <2>1. in_quotes' = in_quotes /\ token_at = "scan"
    BY <1>5 DEF QuotedEscape, Here
  <2>2. \E text \in Seq(Chars), k \in Nat \ {0} : Goes(text, k)
    <3>1. Goes(<<"'">>, i + 2) \/ Goes(<<"\\">>, i + 1)
      BY <1>5 DEF QuotedEscape
    <3> QED BY <1>3, <3>1
  <2> QED BY <1>1, <1>2, <2>1, <2>2
<1>6. CASE Quote
  <2>1. in_quotes' = ~in_quotes /\ token_at = "scan" /\ Goes(<<>>, i + 1)
    BY <1>6 DEF Quote, Here
  <2> QED BY <1>1, <1>2, <1>3, <2>1
<1>7. CASE Dereference
  <2>1. in_quotes' = in_quotes /\ token_at = "scan"
    BY <1>7 DEF Dereference, IsDeref, Here
  <2>2. PICK last \in (i + 1)..Len(str) : Goes(lookup_env(SubSeq(str, i + 1, last)), last + 1)
    BY <1>7 DEF Dereference
  <2>3. lookup_env(SubSeq(str, i + 1, last)) \in Seq(Chars)
    BY <1>3, TokenAssumption DEF lookup_env
  <2>4. last + 1 \in Nat \ {0}
    BY <1>3, <2>2
  <2> QED BY <1>1, <1>2, <2>1, <2>2, <2>3, <2>4
<1>8. CASE Keep
  <2>1. in_quotes' = in_quotes /\ token_at = "scan" /\ i <= Len(str) /\ Goes(<<str[i]>>, i + 1)
    BY <1>8 DEF Keep
  <2>2. str[i] \in Chars
    <3>1. i # 0
      BY DEF TokenInv
    <3> QED BY <1>1, <2>1, <3>1
  <2> QED BY <1>1, <1>2, <1>3, <2>1, <2>2
<1>9. CASE Finish
  BY <1>1, <1>9 DEF Finish
<1> QED BY <1>4, <1>5, <1>6, <1>7, <1>8, <1>9 DEF TokenNext

\* A step of the scan keeps the place and what was built.
LEMMA TokenSteps ==
  ASSUME TokenInv, [TokenNext]_tokenVars
  PROVE  TokenInv'
<1>1. CASE UNCHANGED tokenVars
  <2>1. UNCHANGED <<token, str, i, bld, in_quotes, token_at>>
    BY <1>1 DEF tokenVars
  <2>2. Meaning' = Meaning
    BY <2>1 DEF Meaning
  <2> QED BY <2>1, <2>2 DEF TokenInv
<1>2. CASE TokenNext
  <2>1. /\ token' = token /\ str' = str
        /\ i' \in Nat \ {0} /\ bld' \in Seq(Chars) /\ in_quotes' \in BOOLEAN
        /\ token_at' \in {"scan", "done", "abort"}
        /\ token_at = "scan" /\ (Finish \/ token_at' = "scan")
    BY <1>2, StringIsBuilt
  <2>2. token \in Tokens /\ str = Text(token)
    BY DEF TokenInv
  <2>3. ASSUME Clear(token), ~Finish PROVE GoesOn(token, i', in_quotes', bld')
    <3>1. CASE Escape
      BY <2>3, <3>1, EscapeGoes
    <3>2. CASE QuotedEscape
      BY <2>3, <3>2, QuotedEscapeGoes
    <3>3. CASE Quote
      BY <2>3, <3>3, QuoteGoes
    <3>4. CASE Dereference
      BY <2>3, <3>4, DereferenceGoes
    <3>5. CASE Keep
      BY <2>3, <3>5, KeepGoes
    <3> QED BY <1>2, <2>3, <3>1, <3>2, <3>3, <3>4, <3>5 DEF TokenNext
  <2>4. Finish => token_at' # "scan"
    BY DEF Finish
  <2>5. Clear(token) /\ token_at' = "scan" =>
          \E k \in Nat : Place(token, i', in_quotes', k) /\ Completes(bld', token, k)
    BY <2>3, <2>4 DEF GoesOn
  <2>6. Meaning' = Meaning
    BY <2>1 DEF Meaning
  <2>7. Clear(token) /\ token_at' # "scan" => token_at' = "done" /\ bld' = Meaning
    BY <2>1, FinishGoes
  <2> QED BY <2>1, <2>2, <2>5, <2>6, <2>7 DEF TokenInv
<1> QED BY <1>1, <1>2

\* interpret_complex_string_token gives every token that the lexer matches its
\* meaning, but one with a quoted section that ends with an escaped backslash.
THEOREM TokensKeepTheirMeaning == TokenSpec => []TokenInterpreted
<1>1. TokenInit => TokenInv
  BY TokenInitial
<1>2. TokenInv /\ [TokenNext]_tokenVars => TokenInv'
  BY TokenSteps
<1>3. TokenInv => TokenInterpreted
  <2> SUFFICES ASSUME TokenInv, \A k \in DOMAIN token : ~EndsWithBackslash(token[k])
               PROVE  token_at # "abort" /\ (token_at = "done" => bld = Meaning)
    BY DEF TokenInterpreted
  <2>1. Clear(token)
    BY TokenTyped DEF Clear, TokenInv
  <2> QED BY <2>1 DEF TokenInv
<1> QED BY <1>1, <1>2, <1>3, PTL DEF TokenSpec

=============================================================================
