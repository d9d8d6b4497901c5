---------------------------- MODULE LinkedQueueProofs ----------------------------
(***************************************************************************)
(* The priority queue of lab7 is the ordered sequence that its header      *)
(* documents, for any items, any comparer and any number of nodes: the     *)
(* refinement of AbstractPriQueue, link by link.                           *)
(***************************************************************************)
EXTENDS LinkedQueue, SequenceTheorems, FiniteSetTheorems, TLAPS

(* Sequences with an element more or less *)

\* q with x behind its first i elements.
Longer(q, i, x) ==
  [k \in 1..(Len(q) + 1) |-> IF k <= i THEN q[k] ELSE IF k = i + 1 THEN x ELSE q[k - 1]]

\* q without its element p.
Shorter(q, p) == [k \in 1..(Len(q) - 1) |-> IF k < p THEN q[k] ELSE q[k + 1]]

LEMMA LongerType ==
  ASSUME NEW S, NEW q \in Seq(S), NEW i \in 0..Len(q), NEW x \in S
  PROVE  Longer(q, i, x) \in Seq(S) /\ Len(Longer(q, i, x)) = Len(q) + 1
<1>1. Len(q) \in Nat
  OBVIOUS
<1>2. \A k \in 1..(Len(q) + 1) :
        (IF k <= i THEN q[k] ELSE IF k = i + 1 THEN x ELSE q[k - 1]) \in S
  OBVIOUS
<1> QED BY <1>1, <1>2 DEF Longer

LEMMA ShorterType ==
  ASSUME NEW S, NEW q \in Seq(S), NEW p \in 1..Len(q)
  PROVE  Shorter(q, p) \in Seq(S) /\ Len(Shorter(q, p)) = Len(q) - 1
<1>1. Len(q) \in Nat /\ Len(q) - 1 \in Nat
  OBVIOUS
<1>2. \A k \in 1..(Len(q) - 1) : (IF k < p THEN q[k] ELSE q[k + 1]) \in S
  OBVIOUS
<1> QED BY <1>1, <1>2 DEF Shorter

\* How AbstractPriQueue writes the two.
LEMMA LongerIsLinked ==
  ASSUME NEW S, NEW q \in Seq(S), NEW i \in 0..Len(q), NEW x \in S
  PROVE  SubSeq(q, 1, i) \o <<x>> \o SubSeq(q, i + 1, Len(q)) = Longer(q, i, x)
<1> DEFINE a == SubSeq(q, 1, i)
           b == SubSeq(q, i + 1, Len(q))
           ax == a \o <<x>>
           r == ax \o b
<1>1. Len(q) \in Nat /\ i \in Nat
  OBVIOUS
<1>2. /\ a \in Seq(S) /\ Len(a) = i
      /\ \A k \in 1..i : a[k] = q[k]
  OBVIOUS
<1>3. /\ b \in Seq(S) /\ Len(b) = Len(q) - i
      /\ \A k \in 1..(Len(q) - i) : b[k] = q[i + k]
  OBVIOUS
<1>4. /\ ax \in Seq(S) /\ Len(ax) = i + 1
      /\ \A k \in 1..(i + 1) : ax[k] = IF k <= i THEN q[k] ELSE x
  <2> HIDE DEF a
  <2> QED BY <1>1, <1>2
<1>5. /\ r \in Seq(S) /\ Len(r) = Len(q) + 1
      /\ \A k \in 1..(Len(q) + 1) : r[k] = IF k <= i + 1 THEN ax[k] ELSE b[k - (i + 1)]
  <2> HIDE DEF ax, b
  <2> QED BY <1>1, <1>3, <1>4
<1>6. ASSUME NEW k \in 1..(Len(q) + 1)
      PROVE  r[k] = Longer(q, i, x)[k]
  <2> HIDE DEF r, ax, b, a
  <2>1. CASE k <= i + 1
    BY <2>1, <1>1, <1>4, <1>5 DEF Longer
  <2>2. CASE k > i + 1
    <3>1. k - (i + 1) \in 1..(Len(q) - i) /\ i + (k - (i + 1)) = k - 1
      BY <2>2, <1>1
    <3>2. b[k - (i + 1)] = q[k - 1]
      BY <3>1, <1>3
    <3> QED BY <2>2, <3>2, <1>1, <1>5 DEF Longer
  <2> QED BY <2>1, <2>2, <1>1
<1>7. Longer(q, i, x) \in Seq(S) /\ Len(Longer(q, i, x)) = Len(q) + 1
  BY LongerType
<1> HIDE DEF r
<1>8. r = Longer(q, i, x)
  BY <1>5, <1>6, <1>7, SeqEqual
<1> QED BY <1>8 DEF r

LEMMA ShorterIsCut ==
  ASSUME NEW S, NEW q \in Seq(S), NEW p \in 1..Len(q)
  PROVE  SubSeq(q, 1, p - 1) \o SubSeq(q, p + 1, Len(q)) = Shorter(q, p)
<1> DEFINE a == SubSeq(q, 1, p - 1)
           b == SubSeq(q, p + 1, Len(q))
           r == a \o b
<1>1. Len(q) \in Nat /\ p \in Nat
  OBVIOUS
<1>2. /\ a \in Seq(S) /\ Len(a) = p - 1
      /\ \A k \in 1..(p - 1) : a[k] = q[k]
  OBVIOUS
<1>3. /\ b \in Seq(S) /\ Len(b) = Len(q) - p
      /\ \A k \in 1..(Len(q) - p) : b[k] = q[p + k]
  OBVIOUS
<1>4. /\ r \in Seq(S) /\ Len(r) = Len(q) - 1
      /\ \A k \in 1..(Len(q) - 1) : r[k] = IF k <= p - 1 THEN a[k] ELSE b[k - (p - 1)]
  <2> HIDE DEF a, b
  <2>1. /\ r \in Seq(S) /\ Len(r) = Len(a) + Len(b)
        /\ \A k \in 1..(Len(a) + Len(b)) : r[k] = IF k <= Len(a) THEN a[k] ELSE b[k - Len(a)]
    BY <1>2, <1>3, ConcatProperties
  <2>2. Len(a) + Len(b) = Len(q) - 1
    BY <1>1, <1>2, <1>3
  <2> HIDE DEF r
  <2> QED BY <1>2, <2>1, <2>2
<1>5. ASSUME NEW k \in 1..(Len(q) - 1)
      PROVE  r[k] = Shorter(q, p)[k]
  <2> HIDE DEF r, a, b
  <2>1. CASE k < p
    BY <2>1, <1>1, <1>2, <1>4 DEF Shorter
  <2>2. CASE k >= p
    <3>1. k - (p - 1) \in 1..(Len(q) - p) /\ p + (k - (p - 1)) = k + 1
      BY <2>2, <1>1
    <3>2. b[k - (p - 1)] = q[k + 1]
      BY <3>1, <1>3
    <3> QED BY <2>2, <3>2, <1>1, <1>4 DEF Shorter
  <2> QED BY <2>1, <2>2, <1>1
<1>6. Shorter(q, p) \in Seq(S) /\ Len(Shorter(q, p)) = Len(q) - 1
  BY ShorterType
<1> HIDE DEF r
<1>7. r = Shorter(q, p)
  BY <1>4, <1>5, <1>6, SeqEqual
<1> QED BY <1>7 DEF r

-----------------------------------------------------------------------------
(* The items but for the occurrences of one *)

\* A non-empty set of numbers has a least one: how what holds of a number and,
\* with a number, of the next one is proved of all.
LEMMA LeastNatural ==
  ASSUME NEW T \in SUBSET Nat, T # {}
  PROVE  \E x \in T : \A y \in T : x <= y
<1> PICK n \in T : TRUE
  OBVIOUS
<1> DEFINE U == {0..x : x \in {z \in T : z <= n}}
           R == StrictSubsetOrdering(0..n)
<1>1. U \subseteq SUBSET (0..n) /\ 0..n \in U
  OBVIOUS
<1>2. IsWellFoundedOn(R, SUBSET (0..n))
  <2>1. IsFiniteSet(0..n)
    BY FS_Interval
  <2>2. FiniteSubsetsOf(0..n) = SUBSET (0..n)
    BY <2>1, FS_FiniteSubsetsOfFinite
  <2>3. IsWellFoundedOn(R, FiniteSubsetsOf(0..n))
    BY FS_StrictSubsetOrderingWellFounded
  <2> HIDE DEF R
  <2> QED BY <2>2, <2>3
<1>3. PICK u \in U : \A v \in U : <<v, u>> \notin R
  BY <1>1, <1>2, WFMin
<1>4. PICK x \in T : x <= n /\ u = 0..x
  OBVIOUS
<1>5. ASSUME NEW y \in T, y < x PROVE FALSE
  <2>1. 0..y \in U
    BY <1>4, <1>5
  <2>2. 0..y \subseteq 0..x /\ 0..y # 0..x
    <3>1. x \in 0..x /\ x \notin 0..y
      BY <1>5
    <3> QED BY <3>1, <1>5
  <2> QED BY <1>1, <1>3, <1>4, <2>1, <2>2 DEF StrictSubsetOrdering
<1> QED BY <1>5

\* kept is the function that Others defines for q and x.
IsKept(kept, q, x) ==
  kept = [n \in 0..Len(q) |->
           IF n = 0 THEN <<>>
           ELSE IF q[n] = x THEN kept[n - 1] ELSE Append(kept[n - 1], q[n])]

\* There is such a function: without one, there is a least prefix of q that has
\* none, and that of the prefix before it can be continued.
LEMMA KeptExists ==
  ASSUME NEW S, NEW q \in Seq(S), NEW x
  PROVE  \E kept : IsKept(kept, q, x)
<1> DEFINE Step(kept, n) == IF n = 0 THEN <<>>
                            ELSE IF q[n] = x THEN kept[n - 1] ELSE Append(kept[n - 1], q[n])
           Upto(kept, m) == kept = [n \in 0..m |-> Step(kept, n)]
           Bare == {m \in 0..Len(q) : ~\E kept : Upto(kept, m)}
<1>1. Bare = {}
  <2> SUFFICES ASSUME Bare # {} PROVE FALSE
    OBVIOUS
  <2>1. PICK m \in Bare : \A n \in Bare : m <= n
    <3>1. Bare \in SUBSET Nat
      OBVIOUS
    <3> HIDE DEF Bare
    <3> QED BY <3>1, LeastNatural
  <2>2. CASE m = 0
    <3>1. Upto([n \in 0..0 |-> <<>>], 0)
      OBVIOUS
    <3> QED BY <2>2, <3>1
  <2>3. CASE m # 0
    <3>1. m - 1 \in 0..Len(q) /\ m \in Nat /\ ~(m <= m - 1)
      BY <2>3
    <3>2. PICK kept : Upto(kept, m - 1)
      BY <2>1, <3>1
    <3> DEFINE more == [n \in 0..m |-> IF n = m THEN Step(kept, m) ELSE kept[n]]
    <3>3. \A n \in 0..m : more[n] = Step(more, n)
      <4> SUFFICES ASSUME NEW n \in 0..m PROVE more[n] = Step(more, n)
        OBVIOUS
      <4>1. n # 0 => more[n - 1] = kept[n - 1]
        BY <3>1
      <4>2. Step(more, n) = Step(kept, n)
        BY <4>1
      <4>3. CASE n = m
        BY <4>2, <4>3
      <4>4. CASE n # m
        <5>1. n \in 0..(m - 1)
          BY <4>4, <3>1
        <5> QED BY <4>2, <4>4, <5>1, <3>2
      <4> QED BY <4>3, <4>4
    <3>4. Upto(more, m)
      <4>1. more = [n \in 0..m |-> more[n]]
        OBVIOUS
      <4> HIDE DEF more
      <4> QED BY <3>3, <4>1
    <3> QED BY <3>4, <2>1
  <2> QED BY <2>2, <2>3
<1>2. Len(q) \in 0..Len(q)
  OBVIOUS
<1>3. PICK kept : Upto(kept, Len(q))
  BY <1>1, <1>2
<1> QED BY <1>3 DEF IsKept

LEMMA OthersUnfolds ==
  ASSUME NEW q, NEW x, NEW g, IsKept(g, q, x)
  PROVE  \E kept : IsKept(kept, q, x) /\ List!Others(q, x) = kept[Len(q)]
  BY DEF IsKept, List!Others

\* kept, from one element to the next.
LEMMA KeptSteps ==
  ASSUME NEW S, NEW q \in Seq(S), NEW x, NEW kept, IsKept(kept, q, x)
  PROVE  /\ kept[0] = <<>>
         /\ \A n \in 1..Len(q) :
              kept[n] = IF q[n] = x THEN kept[n - 1] ELSE Append(kept[n - 1], q[n])
<1>1. Len(q) \in Nat
  OBVIOUS
<1>2. \A n \in 0..Len(q) :
        kept[n] = IF n = 0 THEN <<>>
                  ELSE IF q[n] = x THEN kept[n - 1] ELSE Append(kept[n - 1], q[n])
  BY DEF IsKept
<1> QED BY <1>1, <1>2

\* Where x does not occur, nothing goes.
LEMMA OthersOfNone ==
  ASSUME NEW S, NEW q \in Seq(S), NEW x, \A k \in 1..Len(q) : q[k] # x
  PROVE  List!Others(q, x) = q
<1>1. PICK kept : IsKept(kept, q, x) /\ List!Others(q, x) = kept[Len(q)]
  BY KeptExists, OthersUnfolds
<1>2. /\ kept[0] = <<>>
      /\ \A n \in 1..Len(q) : kept[n] = Append(kept[n - 1], q[n])
  <2>1. /\ kept[0] = <<>>
        /\ \A n \in 1..Len(q) :
             kept[n] = IF q[n] = x THEN kept[n - 1] ELSE Append(kept[n - 1], q[n])
    BY <1>1, KeptSteps
  <2> QED BY <2>1
<1> DEFINE Wrong == {n \in 0..Len(q) : kept[n] # SubSeq(q, 1, n)}
<1>3. Wrong = {}
  <2> SUFFICES ASSUME Wrong # {} PROVE FALSE
    OBVIOUS
  <2>1. PICK m \in Wrong : \A n \in Wrong : m <= n
    <3>1. Wrong \in SUBSET Nat
      OBVIOUS
    <3> HIDE DEF Wrong
    <3> QED BY <3>1, LeastNatural
  <2>2. m # 0
    <3>1. SubSeq(q, 1, 0) = <<>>
      OBVIOUS
    <3> QED BY <1>2, <3>1
  <2>3. m - 1 \in 0..Len(q) /\ m \in 1..Len(q) /\ ~(m <= m - 1)
    BY <2>2
  <2>4. kept[m - 1] = SubSeq(q, 1, m - 1)
    BY <2>1, <2>3
  <2>5. kept[m] = Append(SubSeq(q, 1, m - 1), q[m])
    BY <2>3, <2>4, <1>2
  <2>6. Append(SubSeq(q, 1, m - 1), q[m]) = SubSeq(q, 1, m)
    BY <2>3
  <2> QED BY <2>5, <2>6
<1>4. kept[Len(q)] = SubSeq(q, 1, Len(q)) /\ SubSeq(q, 1, Len(q)) = q
  BY <1>3
<1> QED BY <1>1, <1>4

\* An occurrence of x that is taken out does not change what is left without x.
LEMMA OthersOfShorter ==
  ASSUME NEW S, NEW q \in Seq(S), NEW p \in 1..Len(q), NEW x, q[p] = x
  PROVE  List!Others(Shorter(q, p), x) = List!Others(q, x)
<1> DEFINE r == Shorter(q, p)
<1>1. r \in Seq(S) /\ Len(r) = Len(q) - 1 /\ Len(q) \in Nat /\ p \in Nat
  BY ShorterType
<1>2. \A k \in 1..(Len(q) - 1) : r[k] = IF k < p THEN q[k] ELSE q[k + 1]
  BY DEF Shorter
<1> HIDE DEF r
<1>3. PICK kept : IsKept(kept, q, x) /\ List!Others(q, x) = kept[Len(q)]
  BY KeptExists, OthersUnfolds
<1>4. PICK less : IsKept(less, r, x) /\ List!Others(r, x) = less[Len(r)]
  BY <1>1, KeptExists, OthersUnfolds
<1>5. /\ kept[0] = <<>>
      /\ \A n \in 1..Len(q) :
           kept[n] = IF q[n] = x THEN kept[n - 1] ELSE Append(kept[n - 1], q[n])
  BY <1>3, KeptSteps
<1>6. /\ less[0] = <<>>
      /\ \A n \in 1..Len(r) :
           less[n] = IF r[n] = x THEN less[n - 1] ELSE Append(less[n - 1], r[n])
  BY <1>1, <1>4, KeptSteps
<1> DEFINE Same(n) == less[n] = IF n < p THEN kept[n] ELSE kept[n + 1]
           Wrong == {n \in 0..Len(r) : ~Same(n)}
<1>7. kept[p] = kept[p - 1]
  BY <1>5
<1>8. Wrong = {}
  <2> SUFFICES ASSUME Wrong # {} PROVE FALSE
    OBVIOUS
  <2>1. PICK m \in Wrong : \A n \in Wrong : m <= n
    <3>1. Wrong \in SUBSET Nat
      BY <1>1
    <3> HIDE DEF Wrong
    <3> QED BY <3>1, LeastNatural
  <2>2. m # 0
    BY <1>1, <1>5, <1>6
  <2>3. m - 1 \in 0..Len(r) /\ m \in 1..Len(r) /\ ~(m <= m - 1)
    BY <1>1, <2>2
  <2>4. Same(m - 1)
    BY <2>1, <2>3
  <2>5. CASE m < p
    <3>1. less[m - 1] = kept[m - 1] /\ r[m] = q[m] /\ m \in 1..Len(q)
      BY <2>3, <2>4, <2>5, <1>1, <1>2
    <3>2. less[m] = kept[m]
      BY <2>3, <3>1, <1>5, <1>6
    <3> QED BY <2>1, <2>5, <3>2
  <2>6. CASE m >= p
    <3>1. r[m] = q[m + 1] /\ m + 1 \in 1..Len(q) /\ (m + 1) - 1 = m
      BY <2>3, <2>6, <1>1, <1>2
    <3>2. less[m - 1] = kept[m]
      BY <2>3, <2>4, <2>6, <1>1, <1>7
    <3>3. kept[m + 1] = IF q[m + 1] = x THEN kept[m] ELSE Append(kept[m], q[m + 1])
      BY <3>1, <1>5
    <3>4. less[m] = kept[m + 1]
      BY <2>3, <3>1, <3>2, <3>3, <1>6
    <3>5. ~(m < p)
      BY <2>3, <2>6, <1>1
    <3> QED BY <2>1, <3>4, <3>5
  <2> QED BY <2>3, <2>5, <2>6, <1>1
<1>9. Len(r) \in 0..Len(r) /\ Len(r) + 1 = Len(q)
  BY <1>1
<1>10. less[Len(r)] = kept[Len(q)]
  BY <1>7, <1>8, <1>9, <1>1
<1> QED BY <1>3, <1>4, <1>10 DEF r

\* The number of occurrences of x.
Count(q, x) == Cardinality({k \in DOMAIN q : q[k] = x})

LEMMA CountOfNone ==
  ASSUME NEW S, NEW q \in Seq(S), NEW x, \A k \in 1..Len(q) : q[k] # x
  PROVE  Count(q, x) = 0
<1>1. {k \in DOMAIN q : q[k] = x} = {}
  OBVIOUS
<1> QED BY <1>1, FS_EmptySet DEF Count

LEMMA CountOfShorter ==
  ASSUME NEW S, NEW q \in Seq(S), NEW p \in 1..Len(q), NEW x, q[p] = x
  PROVE  Count(Shorter(q, p), x) \in Nat /\ Count(q, x) = Count(Shorter(q, p), x) + 1
<1> DEFINE r == Shorter(q, p)
           K == {k \in 1..Len(q) : q[k] = x}
           R == {k \in 1..(Len(q) - 1) : r[k] = x}
           f == [k \in R |-> IF k < p THEN k ELSE k + 1]
<1>1. r \in Seq(S) /\ Len(r) = Len(q) - 1 /\ Len(q) \in Nat /\ p \in Nat
  BY ShorterType
<1>2. \A k \in 1..(Len(q) - 1) : r[k] = IF k < p THEN q[k] ELSE q[k + 1]
  BY DEF Shorter
<1> HIDE DEF r
<1>3. IsFiniteSet(K) /\ IsFiniteSet(R)
  <2>1. IsFiniteSet(1..Len(q)) /\ IsFiniteSet(1..(Len(q) - 1))
    BY <1>1, FS_Interval
  <2> QED BY <2>1, FS_Subset
<1>4. Cardinality(K \ {p}) = Cardinality(K) - 1 /\ IsFiniteSet(K \ {p})
  BY <1>3, FS_RemoveElement
<1>5. f \in [R -> K \ {p}]
  <2> SUFFICES ASSUME NEW k \in R PROVE (IF k < p THEN k ELSE k + 1) \in K \ {p}
    OBVIOUS
  <2>1. CASE k < p
    BY <2>1, <1>1, <1>2
  <2>2. CASE ~(k < p)
    BY <2>2, <1>1, <1>2
  <2> QED BY <2>1, <2>2
<1>6. \A j, k \in R : f[j] = f[k] => j = k
  BY <1>1
<1>7. \A n \in K \ {p} : \E k \in R : f[k] = n
  <2> SUFFICES ASSUME NEW n \in K \ {p} PROVE \E k \in R : f[k] = n
    OBVIOUS
  <2>1. CASE n < p
    <3>1. n \in R
      BY <2>1, <1>1, <1>2
    <3>2. f[n] = n
      BY <2>1, <3>1
    <3> QED BY <3>1, <3>2
  <2>2. CASE n > p
    <3>1. n - 1 \in R /\ ~(n - 1 < p) /\ (n - 1) + 1 = n
      BY <2>2, <1>1, <1>2
    <3>2. f[n - 1] = n
      BY <3>1
    <3> QED BY <3>1, <3>2
  <2>3. n < p \/ n > p
    BY <1>1
  <2> QED BY <2>1, <2>2, <2>3
<1>8. ExistsBijection(R, K \ {p})
  <2> HIDE DEF R, K, f
  <2> QED BY <1>5, <1>6, <1>7 DEF ExistsBijection, Bijection, Injection, Surjection, IsInjective
<1>9. Cardinality(K \ {p}) = Cardinality(R) /\ Cardinality(K) \in Nat /\ Cardinality(R) \in Nat
  BY <1>3, <1>8, FS_Bijection, FS_CardinalityType
<1>10. Count(r, x) = Cardinality(R) /\ Count(q, x) = Cardinality(K)
  <2>1. DOMAIN r = 1..(Len(q) - 1) /\ DOMAIN q = 1..Len(q)
    BY <1>1
  <2> QED BY <2>1 DEF Count
<1> HIDE DEF R, K
<1> QED BY <1>4, <1>9, <1>10 DEF r

-----------------------------------------------------------------------------
(* The list *)

NodeAt(c, k) == IF k \in 1..Len(c) THEN c[k] ELSE NULL

\* c is all the nodes of ns, each once, in the order of the links from first on.
IsList(ns, first, c) ==
  /\ c \in Seq(DOMAIN ns)
  /\ \A n \in DOMAIN ns : \E k \in 1..Len(c) : c[k] = n
  /\ \A j, k \in 1..Len(c) : c[j] = c[k] => j = k
  /\ first = NodeAt(c, 1)
  /\ \A k \in 1..Len(c) : ns[c[k]].next = NodeAt(c, k + 1)

LEMMA ListLength ==
  ASSUME NEW ns, NEW first, NEW c, IsList(ns, first, c)
  PROVE  IsFiniteSet(DOMAIN ns) /\ Cardinality(DOMAIN ns) = Len(c) /\ Len(c) \in Nat
<1>1. Len(c) \in Nat /\ c \in [1..Len(c) -> DOMAIN ns]
  BY DEF IsList
<1>2. \A j, k \in 1..Len(c) : c[j] = c[k] => j = k
  BY DEF IsList
<1>3. \A n \in DOMAIN ns : \E k \in 1..Len(c) : c[k] = n
  BY DEF IsList
<1>4. ExistsBijection(1..Len(c), DOMAIN ns)
  BY <1>1, <1>2, <1>3 DEF ExistsBijection, Bijection, Injection, Surjection, IsInjective
<1>5. IsFiniteSet(1..Len(c))
  BY <1>1, FS_Interval
<1> QED BY <1>1, <1>4, <1>5, FS_Bijection, FS_CountingElements

\* link is the function that Chain defines for the nodes ns and their number n.
IsLink(link, ns, first, size) ==
  link = [n \in 0..size |->
           IF n = 0 THEN IF first \in DOMAIN ns THEN first ELSE NULL
           ELSE IF link[n - 1] = NULL THEN NULL
           ELSE IF ns[link[n - 1]].next \in DOMAIN ns THEN ns[link[n - 1]].next ELSE NULL]

LEMMA ChainUnfolds ==
  ASSUME NEW g, IsLink(g, nodes, top, Cardinality(DOMAIN nodes))
  PROVE  \E link :
           /\ IsLink(link, nodes, top, Cardinality(DOMAIN nodes))
           /\ Chain(top) =
                [k \in 1..Cardinality({n \in DOMAIN link : link[n] # NULL}) |-> link[k - 1]]
  BY DEF Chain, IsLink

\* The links lead along the list, and nowhere else.
LEMMA LinkIsList ==
  ASSUME NEW ns, NEW first, NEW c, IsList(ns, first, c), NULL \notin DOMAIN ns
  PROVE  /\ IsLink([n \in 0..Len(c) |-> NodeAt(c, n + 1)], ns, first, Len(c))
         /\ \A link : IsLink(link, ns, first, Len(c)) =>
              /\ DOMAIN link = 0..Len(c)
              /\ \A n \in 0..Len(c) : link[n] = NodeAt(c, n + 1)
<1>1. Len(c) \in Nat /\ \A k \in 1..Len(c) : c[k] \in DOMAIN ns
  <2>1. c \in Seq(DOMAIN ns)
    BY DEF IsList
  <2> QED BY <2>1
<1>2. /\ first = NodeAt(c, 1)
      /\ \A k \in 1..Len(c) : ns[c[k]].next = NodeAt(c, k + 1)
  BY DEF IsList
<1>3. \A k : NodeAt(c, k) \in DOMAIN ns \/ NodeAt(c, k) = NULL
  BY <1>1 DEF NodeAt
<1>4. ASSUME NEW n \in 1..Len(c)
      PROVE  NodeAt(c, n + 1) =
               IF NodeAt(c, n) = NULL THEN NULL
               ELSE IF ns[NodeAt(c, n)].next \in DOMAIN ns THEN ns[NodeAt(c, n)].next ELSE NULL
  <2>1. NodeAt(c, n) = c[n] /\ c[n] # NULL
    BY <1>1 DEF NodeAt
  <2>2. ns[c[n]].next = NodeAt(c, n + 1)
    BY <1>2
  <2> QED BY <2>1, <2>2, <1>3
<1>5. (IF first \in DOMAIN ns THEN first ELSE NULL) = NodeAt(c, 1)
  BY <1>2, <1>3
<1>6. IsLink([n \in 0..Len(c) |-> NodeAt(c, n + 1)], ns, first, Len(c))
  <2> DEFINE g == [n \in 0..Len(c) |-> NodeAt(c, n + 1)]
  <2>1. ASSUME NEW n \in 0..Len(c)
        PROVE  g[n] = IF n = 0 THEN IF first \in DOMAIN ns THEN first ELSE NULL
                      ELSE IF g[n - 1] = NULL THEN NULL
                      ELSE IF ns[g[n - 1]].next \in DOMAIN ns THEN ns[g[n - 1]].next ELSE NULL
    <3>1. CASE n = 0
      BY <3>1, <1>5
    <3>2. CASE n # 0
      <4>1. n \in 1..Len(c) /\ n - 1 \in 0..Len(c) /\ (n - 1) + 1 = n
        BY <3>2, <1>1
      <4>2. g[n - 1] = NodeAt(c, n) /\ g[n] = NodeAt(c, n + 1)
        BY <4>1
      <4> HIDE DEF g
      <4> QED BY <3>2, <4>1, <4>2, <1>4
    <3> QED BY <3>1, <3>2
  <2>2. g = [n \in 0..Len(c) |-> g[n]]
    OBVIOUS
  <2> HIDE DEF g
  <2>3. g = [n \in 0..Len(c) |->
               IF n = 0 THEN IF first \in DOMAIN ns THEN first ELSE NULL
               ELSE IF g[n - 1] = NULL THEN NULL
               ELSE IF ns[g[n - 1]].next \in DOMAIN ns THEN ns[g[n - 1]].next ELSE NULL]
    BY <2>1, <2>2, Zenon
  <2>4. IsLink(g, ns, first, Len(c))
    BY <2>3 DEF IsLink
  <2> QED BY <2>4 DEF g
<1>7. ASSUME NEW link, IsLink(link, ns, first, Len(c))
      PROVE  DOMAIN link = 0..Len(c) /\ \A n \in 0..Len(c) : link[n] = NodeAt(c, n + 1)
  <2>1. DOMAIN link = 0..Len(c)
    BY <1>7 DEF IsLink
  <2>2. \A n \in 0..Len(c) :
          link[n] = IF n = 0 THEN IF first \in DOMAIN ns THEN first ELSE NULL
                    ELSE IF link[n - 1] = NULL THEN NULL
                    ELSE IF ns[link[n - 1]].next \in DOMAIN ns THEN ns[link[n - 1]].next
                    ELSE NULL
    BY <1>7, Zenon DEF IsLink
  <2> DEFINE Wrong == {n \in 0..Len(c) : link[n] # NodeAt(c, n + 1)}
  <2>3. Wrong = {}
    <3> SUFFICES ASSUME Wrong # {} PROVE FALSE
      OBVIOUS
    <3>1. PICK m \in Wrong : \A n \in Wrong : m <= n
      <4>1. Wrong \in SUBSET Nat
        OBVIOUS
      <4> HIDE DEF Wrong
      <4> QED BY <4>1, LeastNatural
    <3>2. m \in 0..Len(c) /\ link[m] # NodeAt(c, m + 1)
      OBVIOUS
    <3>3. m # 0
      BY <3>2, <2>2, <1>5, <1>1
    <3>4. m - 1 \in 0..Len(c) /\ m \in 1..Len(c) /\ ~(m <= m - 1) /\ (m - 1) + 1 = m
      BY <3>2, <3>3, <1>1
    <3>5. link[m - 1] = NodeAt(c, m)
      BY <3>1, <3>4
    <3>6. link[m] = IF NodeAt(c, m) = NULL THEN NULL
                    ELSE IF ns[NodeAt(c, m)].next \in DOMAIN ns THEN ns[NodeAt(c, m)].next
                    ELSE NULL
      BY <3>2, <3>3, <3>5, <2>2
    <3> QED BY <3>2, <3>4, <3>6, <1>4
  <2> QED BY <2>1, <2>3
<1> QED BY <1>6, <1>7

\* Chain is the list, if there is one.
ChainIsList(c) == IsList(nodes, top, c) /\ NULL \notin DOMAIN nodes => Chain(top) = c

ChainIsTheList == \A c : ChainIsList(c)

LEMMA ChainOfList == ChainIsTheList
<1> SUFFICES ASSUME NEW c, IsList(nodes, top, c), NULL \notin DOMAIN nodes
             PROVE  Chain(top) = c
  BY DEF ChainIsTheList, ChainIsList
<1>1. Cardinality(DOMAIN nodes) = Len(c) /\ Len(c) \in Nat
  BY ListLength
<1>0. /\ IsLink([n \in 0..Len(c) |-> NodeAt(c, n + 1)], nodes, top, Len(c))
      /\ \A link : IsLink(link, nodes, top, Len(c)) =>
           /\ DOMAIN link = 0..Len(c)
           /\ \A n \in 0..Len(c) : link[n] = NodeAt(c, n + 1)
  BY LinkIsList, Zenon
<1>2. \E g : IsLink(g, nodes, top, Cardinality(DOMAIN nodes))
  BY <1>0, <1>1, Zenon
<1>3. PICK link : /\ IsLink(link, nodes, top, Cardinality(DOMAIN nodes))
                  /\ Chain(top) =
                       [k \in 1..Cardinality({n \in DOMAIN link : link[n] # NULL}) |-> link[k - 1]]
  BY <1>2, ChainUnfolds
<1>4. DOMAIN link = 0..Len(c) /\ \A n \in 0..Len(c) : link[n] = NodeAt(c, n + 1)
  BY <1>0, <1>1, <1>3, Zenon
<1>5. \A k \in 1..Len(c) : c[k] \in DOMAIN nodes
  <2>1. c \in Seq(DOMAIN nodes)
    BY DEF IsList
  <2> QED BY <2>1
<1>6. {n \in DOMAIN link : link[n] # NULL} = 0..(Len(c) - 1)
  BY <1>1, <1>4, <1>5 DEF NodeAt
<1>7. Cardinality(0..(Len(c) - 1)) = Len(c)
  <2>1. 0 \in Int /\ Len(c) - 1 \in Int
    BY <1>1
  <2>2. Cardinality(0..(Len(c) - 1)) = IF 0 > Len(c) - 1 THEN 0 ELSE (Len(c) - 1) - 0 + 1
    BY <2>1, FS_Interval
  <2> QED BY <1>1, <2>2
<1>8. Chain(top) = [k \in 1..Len(c) |-> link[k - 1]]
  BY <1>3, <1>6, <1>7
<1>9. \A k \in 1..Len(c) : link[k - 1] = c[k]
  BY <1>1, <1>4 DEF NodeAt
<1>10. c = [k \in 1..Len(c) |-> c[k]]
  BY DEF IsList
<1> QED BY <1>8, <1>9, <1>10

\* ms is ns with the node new, linked behind the i-th node of c.
LinkedAfter(ms, ns, c, i, new) ==
  /\ new \notin DOMAIN ns
  /\ DOMAIN ms = DOMAIN ns \cup {new}
  /\ ms[new].next = NodeAt(c, i + 1)
  /\ i # 0 => ms[c[i]].next = new
  /\ \A n \in DOMAIN ns : i = 0 \/ n # c[i] => ms[n].next = ns[n].next

\* A new node behind the first i of a list.
LEMMA ListGrows ==
  ASSUME NEW ns, NEW first, NEW c, IsList(ns, first, c), NEW i \in 0..Len(c),
         NEW new, NEW ms, LinkedAfter(ms, ns, c, i, new)
  PROVE  IsList(ms, IF i = 0 THEN new ELSE first, Longer(c, i, new))
<1> DEFINE d == Longer(c, i, new)
<1> USE DEF LinkedAfter
<1>0. c \in Seq(DOMAIN ns)
  BY DEF IsList
<1>1. /\ Len(c) \in Nat /\ i \in Nat /\ i <= Len(c)
      /\ \A k \in 1..Len(c) : c[k] \in DOMAIN ns
  BY <1>0
<1>9. \A n \in DOMAIN ns : \E k \in 1..Len(c) : c[k] = n
  BY DEF IsList
<1>10. \A j, k \in 1..Len(c) : c[j] = c[k] => j = k
  BY DEF IsList
<1>11. first = NodeAt(c, 1) /\ \A k \in 1..Len(c) : ns[c[k]].next = NodeAt(c, k + 1)
  BY DEF IsList
<1>2. d \in Seq(DOMAIN ms) /\ Len(d) = Len(c) + 1
  <2>1. c \in Seq(DOMAIN ms) /\ new \in DOMAIN ms
    BY <1>0
  <2> QED BY <2>1, LongerType
<1>3. \A k \in 1..(Len(c) + 1) :
        d[k] = IF k <= i THEN c[k] ELSE IF k = i + 1 THEN new ELSE c[k - 1]
  BY DEF Longer
<1> HIDE DEF d
<1>4. \A n \in DOMAIN ms : \E k \in 1..Len(d) : d[k] = n
  <2> SUFFICES ASSUME NEW n \in DOMAIN ms PROVE \E k \in 1..Len(d) : d[k] = n
    OBVIOUS
  <2>1. CASE n = new
    <3>1. i + 1 \in 1..(Len(c) + 1) /\ d[i + 1] = new
      BY <1>1, <1>3
    <3> QED BY <2>1, <3>1, <1>2
  <2>2. CASE n # new
    <3>1. PICK k \in 1..Len(c) : c[k] = n
      BY <2>2, <1>9
    <3>2. CASE k <= i
      <4>1. k \in 1..(Len(c) + 1) /\ d[k] = n
        BY <3>1, <3>2, <1>1, <1>3
      <4> QED BY <4>1, <1>2
    <3>3. CASE k > i
      <4>1. k + 1 \in 1..(Len(c) + 1) /\ (k + 1) - 1 = k /\ ~(k + 1 <= i) /\ k + 1 # i + 1
        BY <3>3, <1>1
      <4>2. d[k + 1] = n
        BY <3>1, <4>1, <1>3
      <4> QED BY <4>1, <4>2, <1>2
    <3> QED BY <3>2, <3>3, <1>1
  <2> QED BY <2>1, <2>2
<1>5. \A j, k \in 1..Len(d) : d[j] = d[k] => j = k
  <2> SUFFICES ASSUME NEW j \in 1..(Len(c) + 1), NEW k \in 1..(Len(c) + 1), d[j] = d[k], j # k
               PROVE  FALSE
    BY <1>2
  <2> DEFINE from(m) == IF m <= i THEN m ELSE m - 1
  <2>1. \A m \in 1..(Len(c) + 1) : m # i + 1 => from(m) \in 1..Len(c) /\ d[m] = c[from(m)]
    BY <1>1, <1>3
  <2>2. d[i + 1] = new /\ \A m \in 1..(Len(c) + 1) : m # i + 1 => d[m] # new
    <3>1. d[i + 1] = new
      BY <1>1, <1>3
    <3> HIDE DEF from
    <3> QED BY <3>1, <2>1, <1>1
  <2>3. j # i + 1 /\ k # i + 1
    BY <2>2
  <2>4. from(j) = from(k)
    <3> HIDE DEF from
    <3>1. from(j) \in 1..Len(c) /\ d[j] = c[from(j)]
      BY <2>1, <2>3
    <3>2. from(k) \in 1..Len(c) /\ d[k] = c[from(k)]
      BY <2>1, <2>3
    <3> QED BY <3>1, <3>2, <1>10
  <2> QED BY <2>3, <2>4, <1>1
<1>6. (IF i = 0 THEN new ELSE first) = NodeAt(d, 1)
  <2>1. 1 \in 1..(Len(c) + 1) /\ d[1] = IF i = 0 THEN new ELSE c[1]
    BY <1>1, <1>3
  <2>2. i # 0 => first = c[1]
    BY <1>1, <1>11 DEF NodeAt
  <2> QED BY <2>1, <2>2, <1>2 DEF NodeAt
<1>7. \A k \in 1..Len(d) : ms[d[k]].next = NodeAt(d, k + 1)
  <2> SUFFICES ASSUME NEW k \in 1..(Len(c) + 1) PROVE ms[d[k]].next = NodeAt(d, k + 1)
    BY <1>2
  <2>1. CASE k < i
    <3>1. k \in 1..Len(c) /\ d[k] = c[k] /\ k + 1 \in 1..(Len(c) + 1) /\ d[k + 1] = c[k + 1]
          /\ k + 1 \in 1..Len(c) /\ k # i /\ i \in 1..Len(c)
      BY <2>1, <1>1, <1>3
    <3>2. c[k] # c[i] /\ c[k] \in DOMAIN ns
      BY <3>1, <1>1, <1>10
    <3>3. ms[c[k]].next = NodeAt(c, k + 1)
      BY <3>1, <3>2, <1>11
    <3> QED BY <3>1, <3>3, <1>2 DEF NodeAt
  <2>2. CASE k = i
    <3>1. d[k] = c[i] /\ k + 1 \in 1..(Len(c) + 1) /\ d[k + 1] = new /\ i # 0
      BY <2>2, <1>1, <1>3
    <3> QED BY <3>1, <1>2 DEF NodeAt
  <2>3. CASE k = i + 1
    <3>1. d[k] = new
      BY <2>3, <1>1, <1>3
    <3>2. NodeAt(d, k + 1) = NodeAt(c, i + 1)
      <4>1. CASE i + 1 \in 1..Len(c)
        <5>1. k + 1 \in 1..(Len(c) + 1) /\ d[k + 1] = c[i + 1]
          BY <2>3, <4>1, <1>1, <1>3
        <5> QED BY <4>1, <5>1, <1>2 DEF NodeAt
      <4>2. CASE i + 1 \notin 1..Len(c)
        <5>1. k + 1 \notin 1..(Len(c) + 1)
          BY <2>3, <4>2, <1>1
        <5> QED BY <4>2, <5>1, <1>2 DEF NodeAt
      <4> QED BY <4>1, <4>2
    <3> QED BY <3>1, <3>2
  <2>4. CASE k > i + 1
    <3>1. k - 1 \in 1..Len(c) /\ d[k] = c[k - 1] /\ k - 1 # i /\ (k - 1) + 1 = k
      BY <2>4, <1>1, <1>3
    <3>2. c[k - 1] \in DOMAIN ns /\ (i = 0 \/ c[k - 1] # c[i])
      BY <3>1, <1>1, <1>10
    <3>3. ms[d[k]].next = NodeAt(c, k)
      BY <3>1, <3>2, <1>11
    <3>4. NodeAt(d, k + 1) = NodeAt(c, k)
      <4>1. CASE k \in 1..Len(c)
        <5>1. k + 1 \in 1..(Len(c) + 1) /\ ~(k + 1 <= i) /\ k + 1 # i + 1 /\ (k + 1) - 1 = k
          BY <2>4, <4>1, <1>1
        <5>2. d[k + 1] = c[k]
          BY <5>1, <1>3
        <5> QED BY <4>1, <5>1, <5>2, <1>2 DEF NodeAt
      <4>2. CASE k \notin 1..Len(c)
        <5>1. k + 1 \notin 1..(Len(c) + 1)
          BY <4>2, <1>1
        <5> QED BY <4>2, <5>1, <1>2 DEF NodeAt
      <4> QED BY <4>1, <4>2
    <3> QED BY <3>3, <3>4
  <2> QED BY <2>1, <2>2, <2>3, <2>4, <1>1
<1>8. IsList(ms, IF i = 0 THEN new ELSE first, d)
  BY <1>2, <1>4, <1>5, <1>6, <1>7 DEF IsList
<1> QED BY <1>8 DEF d

\* ms is ns without the p-th node of c; the one before it links to the next.
UnlinkedAt(ms, ns, c, p) ==
  /\ DOMAIN ms = DOMAIN ns \ {c[p]}
  /\ p # 1 => ms[c[p - 1]].next = ns[c[p]].next
  /\ \A n \in DOMAIN ms : p = 1 \/ n # c[p - 1] => ms[n].next = ns[n].next

\* A list without its node p.
LEMMA ListShrinks ==
  ASSUME NEW ns, NEW first, NEW c, IsList(ns, first, c), NEW p \in 1..Len(c),
         NEW ms, UnlinkedAt(ms, ns, c, p)
  PROVE  IsList(ms, IF p = 1 THEN ns[first].next ELSE first, Shorter(c, p))
<1> DEFINE d == Shorter(c, p)
<1> USE DEF UnlinkedAt
<1>0. c \in Seq(DOMAIN ns)
  BY DEF IsList
<1>1. /\ Len(c) \in Nat /\ p \in Nat
      /\ \A k \in 1..Len(c) : c[k] \in DOMAIN ns
  BY <1>0
<1>2. \A n \in DOMAIN ns : \E k \in 1..Len(c) : c[k] = n
  BY DEF IsList
<1>3. \A j, k \in 1..Len(c) : c[j] = c[k] => j = k
  BY DEF IsList
<1>4. first = NodeAt(c, 1) /\ \A k \in 1..Len(c) : ns[c[k]].next = NodeAt(c, k + 1)
  BY DEF IsList
<1>5. \A k \in 1..(Len(c) - 1) : d[k] = IF k < p THEN c[k] ELSE c[k + 1]
  BY DEF Shorter
<1>6. Len(d) = Len(c) - 1
  BY <1>0, ShorterType
<1>7. d = [k \in 1..(Len(c) - 1) |-> d[k]]
  BY DEF Shorter
<1> HIDE DEF d
<1>8. \A k \in 1..(Len(c) - 1) : d[k] \in DOMAIN ms
  <2> SUFFICES ASSUME NEW k \in 1..(Len(c) - 1) PROVE d[k] \in DOMAIN ms
    OBVIOUS
  <2>1. CASE k < p
    <3>1. k \in 1..Len(c) /\ d[k] = c[k] /\ k # p
      BY <2>1, <1>1, <1>5
    <3> QED BY <3>1, <1>1, <1>3
  <2>2. CASE ~(k < p)
    <3>1. k + 1 \in 1..Len(c) /\ d[k] = c[k + 1] /\ k + 1 # p
      BY <2>2, <1>1, <1>5
    <3> QED BY <3>1, <1>1, <1>3
  <2> QED BY <2>1, <2>2
<1>9. d \in Seq(DOMAIN ms)
  <2>1. Len(c) - 1 \in Nat
    BY <1>1
  <2> QED BY <2>1, <1>7, <1>8
<1>10. \A n \in DOMAIN ms : \E k \in 1..Len(d) : d[k] = n
  <2> SUFFICES ASSUME NEW n \in DOMAIN ms PROVE \E k \in 1..Len(d) : d[k] = n
    OBVIOUS
  <2>1. PICK k \in 1..Len(c) : c[k] = n
    BY <1>2
  <2>2. k # p
    BY <2>1
  <2>3. CASE k < p
    <3>1. k \in 1..(Len(c) - 1) /\ d[k] = n
      BY <2>1, <2>3, <1>1, <1>5
    <3> QED BY <3>1, <1>6
  <2>4. CASE k > p
    <3>1. k - 1 \in 1..(Len(c) - 1) /\ ~(k - 1 < p) /\ (k - 1) + 1 = k
      BY <2>4, <1>1
    <3>2. d[k - 1] = n
      BY <2>1, <3>1, <1>5
    <3> QED BY <3>1, <3>2, <1>6
  <2>5. k < p \/ k > p
    BY <2>2, <1>1
  <2> QED BY <2>3, <2>4, <2>5
<1>11. \A j, k \in 1..Len(d) : d[j] = d[k] => j = k
  <2> SUFFICES ASSUME NEW j \in 1..(Len(c) - 1), NEW k \in 1..(Len(c) - 1), d[j] = d[k]
               PROVE  j = k
    BY <1>6
  <2> DEFINE from(m) == IF m < p THEN m ELSE m + 1
  <2>1. \A m \in 1..(Len(c) - 1) : from(m) \in 1..Len(c) /\ d[m] = c[from(m)]
    BY <1>1, <1>5
  <2>2. from(j) = from(k)
    <3> HIDE DEF from
    <3> QED BY <2>1, <1>3
  <2> QED BY <2>2, <1>1
<1>12. (IF p = 1 THEN ns[first].next ELSE first) = NodeAt(d, 1)
  <2>1. 1 \in 1..Len(c)
    BY <1>1
  <2>2. first = c[1]
    BY <2>1, <1>4 DEF NodeAt
  <2>3. CASE p = 1
    <3>1. ns[first].next = NodeAt(c, 2)
      <4>1. ns[c[1]].next = NodeAt(c, 1 + 1)
        BY <2>1, <1>4
      <4> QED BY <2>2, <4>1
    <3>2. CASE 2 \in 1..Len(c)
      <4>1. 1 \in 1..(Len(c) - 1) /\ d[1] = c[2]
        BY <2>3, <3>2, <1>1, <1>5
      <4> QED BY <2>3, <3>1, <3>2, <4>1, <1>6 DEF NodeAt
    <3>3. CASE 2 \notin 1..Len(c)
      <4>1. 1 \notin 1..(Len(c) - 1)
        BY <3>3, <1>1
      <4> QED BY <2>3, <3>1, <3>3, <4>1, <1>6 DEF NodeAt
    <3> QED BY <3>2, <3>3
  <2>4. CASE p # 1
    <3>1. 1 \in 1..(Len(c) - 1) /\ d[1] = c[1]
      BY <2>4, <1>1, <1>5
    <3> QED BY <2>2, <2>4, <3>1, <1>6 DEF NodeAt
  <2> QED BY <2>3, <2>4
<1>13. \A k \in 1..Len(d) : ms[d[k]].next = NodeAt(d, k + 1)
  <2> SUFFICES ASSUME NEW k \in 1..(Len(c) - 1) PROVE ms[d[k]].next = NodeAt(d, k + 1)
    BY <1>6
  <2>1. CASE k < p - 1
    <3>1. /\ k \in 1..Len(c) /\ d[k] = c[k] /\ k + 1 \in 1..(Len(c) - 1) /\ d[k + 1] = c[k + 1]
          /\ k + 1 \in 1..Len(c) /\ k # p - 1 /\ p - 1 \in 1..Len(c) /\ k # p
      BY <2>1, <1>1, <1>5
    <3>2. c[k] # c[p - 1] /\ c[k] \in DOMAIN ms
      BY <3>1, <1>3, <1>8
    <3>3. ms[c[k]].next = NodeAt(c, k + 1)
      BY <3>1, <3>2, <1>4
    <3> QED BY <3>1, <3>3, <1>6 DEF NodeAt
  <2>2. CASE k = p - 1
    <3>1. d[k] = c[p - 1] /\ p # 1 /\ (k + 1) + 1 = p + 1
      BY <2>2, <1>1, <1>5
    <3>2. ms[d[k]].next = NodeAt(c, p + 1)
      BY <3>1, <1>4
    <3>3. NodeAt(d, k + 1) = NodeAt(c, p + 1)
      <4>1. CASE p + 1 \in 1..Len(c)
        <5>1. k + 1 \in 1..(Len(c) - 1) /\ ~(k + 1 < p)
          BY <2>2, <4>1, <1>1
        <5>2. d[k + 1] = c[p + 1]
          BY <3>1, <5>1, <1>5
        <5> QED BY <4>1, <5>1, <5>2, <1>6 DEF NodeAt
      <4>2. CASE p + 1 \notin 1..Len(c)
        <5>1. k + 1 \notin 1..(Len(c) - 1)
          BY <2>2, <4>2, <1>1
        <5> QED BY <4>2, <5>1, <1>6 DEF NodeAt
      <4> QED BY <4>1, <4>2
    <3> QED BY <3>2, <3>3
  <2>3. CASE k >= p
    <3>1. /\ k + 1 \in 1..Len(c) /\ d[k] = c[k + 1] /\ k + 1 # p - 1
          /\ p # 1 => p - 1 \in 1..Len(c)
      BY <2>3, <1>1, <1>5
    <3>2. c[k + 1] \in DOMAIN ms /\ (p = 1 \/ c[k + 1] # c[p - 1])
      BY <3>1, <1>3, <1>8
    <3>3. ms[d[k]].next = NodeAt(c, (k + 1) + 1)
      BY <3>1, <3>2, <1>4
    <3>4. NodeAt(d, k + 1) = NodeAt(c, (k + 1) + 1)
      <4>1. CASE (k + 1) + 1 \in 1..Len(c)
        <5>1. k + 1 \in 1..(Len(c) - 1) /\ ~(k + 1 < p)
          BY <2>3, <4>1, <1>1
        <5>2. d[k + 1] = c[(k + 1) + 1]
          BY <5>1, <1>5
        <5> QED BY <4>1, <5>1, <5>2, <1>6 DEF NodeAt
      <4>2. CASE (k + 1) + 1 \notin 1..Len(c)
        <5>1. k + 1 \notin 1..(Len(c) - 1)
          BY <4>2, <1>1
        <5> QED BY <4>2, <5>1, <1>6 DEF NodeAt
      <4> QED BY <4>1, <4>2
    <3> QED BY <3>3, <3>4
  <2> QED BY <2>1, <2>2, <2>3, <1>1
<1>14. IsList(ms, IF p = 1 THEN ns[first].next ELSE first, d)
  BY <1>9, <1>10, <1>11, <1>12, <1>13 DEF IsList
<1> QED BY <1>14 DEF d

\* The items of a list.
ItemsOf(ns, c) == [k \in 1..Len(c) |-> ns[c[k]].item]

LEMMA ItemsType ==
  ASSUME NEW ns, NEW first, NEW c, IsList(ns, first, c), \A n \in DOMAIN ns : ns[n].item \in Items
  PROVE  ItemsOf(ns, c) \in Seq(Items) /\ Len(ItemsOf(ns, c)) = Len(c)
<1>1. c \in Seq(DOMAIN ns)
  BY DEF IsList
<1>2. Len(c) \in Nat /\ \A k \in 1..Len(c) : ns[c[k]].item \in Items
  BY <1>1
<1> QED BY <1>2 DEF ItemsOf

LEMMA ItemsGrow ==
  ASSUME NEW ns, NEW first, NEW c, IsList(ns, first, c), NEW i \in 0..Len(c),
         NEW new, new \notin DOMAIN ns, NEW x, NEW ms, ms[new].item = x,
         \A n \in DOMAIN ns : ms[n].item = ns[n].item
  PROVE  ItemsOf(ms, Longer(c, i, new)) = Longer(ItemsOf(ns, c), i, x)
<1> DEFINE d == Longer(c, i, new)
           q == ItemsOf(ns, c)
<1>1. c \in Seq(DOMAIN ns)
  BY DEF IsList
<1>2. Len(c) \in Nat /\ i \in Nat /\ \A k \in 1..Len(c) : c[k] \in DOMAIN ns
  BY <1>1
<1>3. /\ Len(d) = Len(c) + 1
      /\ \A k \in 1..(Len(c) + 1) :
           d[k] = IF k <= i THEN c[k] ELSE IF k = i + 1 THEN new ELSE c[k - 1]
  <2>1. Len(d) = Len(c) + 1
    BY <1>2 DEF Longer
  <2> QED BY <2>1 DEF Longer
<1>4. Len(q) = Len(c) /\ \A k \in 1..Len(c) : q[k] = ns[c[k]].item
  BY <1>2 DEF ItemsOf
<1> HIDE DEF d, q
<1>5. ASSUME NEW k \in 1..(Len(c) + 1)
      PROVE  ms[d[k]].item = IF k <= i THEN q[k] ELSE IF k = i + 1 THEN x ELSE q[k - 1]
  <2>1. CASE k <= i
    <3>1. k \in 1..Len(c) /\ d[k] = c[k]
      BY <2>1, <1>2, <1>3
    <3> QED BY <2>1, <3>1, <1>2, <1>4
  <2>2. CASE k = i + 1
    <3>1. d[k] = new /\ ~(k <= i)
      BY <2>2, <1>2, <1>3
    <3> QED BY <2>2, <3>1
  <2>3. CASE k > i + 1
    <3>1. k - 1 \in 1..Len(c) /\ d[k] = c[k - 1] /\ ~(k <= i) /\ k # i + 1
      BY <2>3, <1>2, <1>3
    <3> QED BY <3>1, <1>2, <1>4
  <2> QED BY <2>1, <2>2, <2>3, <1>2
<1>6. ItemsOf(ms, d) = Longer(q, i, x)
  BY <1>3, <1>4, <1>5 DEF ItemsOf, Longer
<1> QED BY <1>6 DEF d, q

LEMMA ItemsShrink ==
  ASSUME NEW ns, NEW first, NEW c, IsList(ns, first, c), NEW p \in 1..Len(c), NEW ms,
         \A n \in DOMAIN ns \ {c[p]} : ms[n].item = ns[n].item
  PROVE  ItemsOf(ms, Shorter(c, p)) = Shorter(ItemsOf(ns, c), p)
<1> DEFINE d == Shorter(c, p)
           q == ItemsOf(ns, c)
<1>1. c \in Seq(DOMAIN ns) /\ \A j, k \in 1..Len(c) : c[j] = c[k] => j = k
  BY DEF IsList
<1>2. Len(c) \in Nat /\ p \in Nat /\ \A k \in 1..Len(c) : c[k] \in DOMAIN ns
  BY <1>1
<1>3. /\ Len(d) = Len(c) - 1
      /\ \A k \in 1..(Len(c) - 1) : d[k] = IF k < p THEN c[k] ELSE c[k + 1]
  BY <1>1, ShorterType DEF Shorter
<1>4. Len(q) = Len(c) /\ \A k \in 1..Len(c) : q[k] = ns[c[k]].item
  BY <1>2 DEF ItemsOf
<1> HIDE DEF d, q
<1>5. ASSUME NEW k \in 1..(Len(c) - 1)
      PROVE  ms[d[k]].item = IF k < p THEN q[k] ELSE q[k + 1]
  <2>1. CASE k < p
    <3>1. k \in 1..Len(c) /\ d[k] = c[k] /\ k # p
      BY <2>1, <1>2, <1>3
    <3>2. c[k] \in DOMAIN ns \ {c[p]}
      BY <3>1, <1>1, <1>2
    <3> QED BY <2>1, <3>1, <3>2, <1>4
  <2>2. CASE ~(k < p)
    <3>1. k + 1 \in 1..Len(c) /\ d[k] = c[k + 1] /\ k + 1 # p
      BY <2>2, <1>2, <1>3
    <3>2. c[k + 1] \in DOMAIN ns \ {c[p]}
      BY <3>1, <1>1, <1>2
    <3> QED BY <2>2, <3>1, <3>2, <1>4
  <2> QED BY <2>1, <2>2
<1>6. ItemsOf(ms, d) = Shorter(q, p)
  BY <1>3, <1>4, <1>5 DEF ItemsOf, Shorter
<1> QED BY <1>6 DEF d, q

-----------------------------------------------------------------------------
(* The inductive invariant *)

QueueTypeOK ==
  /\ DOMAIN nodes \subseteq 1..MAX_NODES
  /\ nodes \in [DOMAIN nodes -> [item : Items, next : 1..MAX_NODES \cup {NULL}]]
  /\ queue_at \in {"out", "offer", "remove", "destroyed"}
  /\ count \in Nat
  /\ queue_at \in {"offer", "remove"} => ptr \in Items

\* The allocated nodes are a list, and the loop of a call stands between two
\* nodes of it, none of those behind it being the place it looks for.
PassedBy(i) ==
  /\ prev = NodeAt(Chain(top), i) /\ target = NodeAt(Chain(top), i + 1)
  /\ \A k \in 1..i :
       LET item == nodes[Chain(top)[k]].item
       IN IF queue_at = "offer" THEN ~Precedes(ptr, item) ELSE item # ptr

QueueInv ==
  /\ QueueTypeOK
  /\ IF queue_at = "destroyed" THEN DOMAIN nodes = {} ELSE IsList(nodes, top, Chain(top))
  /\ queue_at = "offer" => /\ Cardinality(DOMAIN nodes) < MAX_NODES
                           /\ count \in 0..Len(Chain(top)) /\ PassedBy(count)
  /\ queue_at = "remove" => \E i \in 0..Len(Chain(top)) : PassedBy(i)

\* What the invariant says of a queue that is not destroyed.
LEMMA ListFacts ==
  ASSUME QueueInv, queue_at # "destroyed"
  PROVE  /\ NULL \notin DOMAIN nodes
         /\ IsList(nodes, top, Chain(top))
         /\ \A n \in DOMAIN nodes : nodes[n].item \in Items
         /\ QueueItems = ItemsOf(nodes, Chain(top))
         /\ QueueItems \in Seq(Items) /\ Len(QueueItems) = Len(Chain(top))
         /\ Len(Chain(top)) \in Nat
<1>1. NULL \notin DOMAIN nodes /\ IsList(nodes, top, Chain(top))
  BY QueueAssumption DEF QueueInv, QueueTypeOK
<1>2. \A n \in DOMAIN nodes : nodes[n].item \in Items
  BY DEF QueueInv, QueueTypeOK
<1>3. Chain(top) \in Seq(DOMAIN nodes)
  BY <1>1 DEF IsList
<1>4. QueueItems = ItemsOf(nodes, Chain(top))
  BY <1>3 DEF QueueItems, ItemsOf
<1>5. ItemsOf(nodes, Chain(top)) \in Seq(Items) /\ Len(ItemsOf(nodes, Chain(top))) = Len(Chain(top))
  BY <1>1, <1>2, ItemsType
<1> QED BY <1>1, <1>2, <1>3, <1>4, <1>5

\* A list that the next nodes form is the chain of the next state, with these
\* items.
LEMMA NextChain ==
  ASSUME NEW c, IsList(nodes', top', c), NULL \notin DOMAIN nodes'
  PROVE  Chain(top)' = c /\ QueueItems' = ItemsOf(nodes', c)
<1>1. ChainIsTheList'
  BY ChainOfList, PTL
<1>2. Chain(top)' = c
  BY <1>1 DEF ChainIsTheList, ChainIsList
<1>3. c \in Seq(DOMAIN nodes')
  BY DEF IsList
<1> QED BY <1>2, <1>3 DEF QueueItems, ItemsOf

\* A step that changes no node and not the top changes no chain.
LEMMA SameChain ==
  ASSUME UNCHANGED <<top, nodes>>
  PROVE  Chain(top)' = Chain(top) /\ QueueItems' = QueueItems
<1>1. Chain(top)' = Chain(top)
  BY DEF Chain
<1> QED BY <1>1 DEF QueueItems

\* There is room for a node.
LEMMA NodeIsFree ==
  ASSUME DOMAIN nodes \subseteq 1..MAX_NODES, Cardinality(DOMAIN nodes) < MAX_NODES
  PROVE  FreeNode \in 1..MAX_NODES /\ FreeNode \notin DOMAIN nodes
<1>1. IsFiniteSet(1..MAX_NODES) /\ Cardinality(1..MAX_NODES) = MAX_NODES
  <2>1. Cardinality(1..MAX_NODES) = IF 1 > MAX_NODES THEN 0 ELSE MAX_NODES - 1 + 1
    BY QueueAssumption, FS_Interval
  <2> QED BY <2>1, QueueAssumption, FS_Interval
<1>2. \E n \in 1..MAX_NODES : n \notin DOMAIN nodes
  <2> SUFFICES ASSUME 1..MAX_NODES \subseteq DOMAIN nodes PROVE FALSE
    OBVIOUS
  <2>1. DOMAIN nodes = 1..MAX_NODES
    OBVIOUS
  <2> QED BY <2>1, <1>1, QueueAssumption
<1> QED BY <1>2 DEF FreeNode

-----------------------------------------------------------------------------
(* The steps: each keeps the invariant, and is one of the ordered sequence or *)
(* changes nothing of it                                                      *)

StepOfSequence == [Ordered!Next]_(Ordered!vars)

LEMMA CountType ==
  ASSUME NEW S, NEW q \in Seq(S), NEW x
  PROVE  Count(q, x) \in Nat
<1>1. IsFiniteSet(DOMAIN q)
  <2>1. DOMAIN q = 1..Len(q) /\ Len(q) \in Nat
    OBVIOUS
  <2> QED BY <2>1, FS_Interval
<1>2. IsFiniteSet({k \in DOMAIN q : q[k] = x})
  BY <1>1, FS_Subset
<1> QED BY <1>2, FS_CardinalityType DEF Count

\* How the sequence stands while no removal runs, and while one does.
LEMMA SequenceOutside ==
  ASSUME queue_at \in {"out", "offer"}
  PROVE  QueueContents = QueueItems /\ QueueAnswer = returned
  BY DEF QueueContents, QueueAnswer

LEMMA SequenceOutsideNext ==
  ASSUME queue_at' \in {"out", "offer"}
  PROVE  QueueContents' = QueueItems' /\ QueueAnswer' = returned'
  BY DEF QueueContents, QueueAnswer

LEMMA SequenceInRemoval ==
  ASSUME queue_at = "remove"
  PROVE  /\ QueueContents = List!Others(QueueItems, ptr)
         /\ QueueAnswer = count + Count(QueueItems, ptr)
  BY DEF QueueContents, QueueAnswer, Count

LEMMA SequenceInRemovalNext ==
  ASSUME queue_at' = "remove"
  PROVE  /\ QueueContents' = List!Others(QueueItems', ptr')
         /\ QueueAnswer' = count' + Count(QueueItems', ptr')
  BY DEF QueueContents, QueueAnswer, Count

\* A step after which the sequence and the answer are what they were.
LEMMA Stutters ==
  ASSUME QueueContents' = QueueContents, QueueAnswer' = QueueAnswer,
         queue_at # "destroyed", queue_at' # "destroyed"
  PROVE  StepOfSequence
  BY DEF StepOfSequence, Ordered!vars

\* A call looks for its place from the top on.
LEMMA CallOfferStep ==
  ASSUME QueueInv, NEW x \in Items, priqueue_offer(x)
  PROVE  QueueInv' /\ StepOfSequence
<1>1. /\ queue_at = "out" /\ queue_at' = "offer" /\ ptr' = x /\ prev' = NULL /\ target' = top
      /\ count' = 0 /\ UNCHANGED <<top, nodes, returned>>
      /\ Cardinality(DOMAIN nodes) < MAX_NODES
  BY DEF priqueue_offer, Loop
<1>2. Chain(top)' = Chain(top) /\ QueueItems' = QueueItems
  BY <1>1, SameChain
<1>3. IsList(nodes, top, Chain(top)) /\ Len(Chain(top)) \in Nat
  BY <1>1, ListFacts
<1>4. top = NodeAt(Chain(top), 0 + 1) /\ NULL = NodeAt(Chain(top), 0)
  BY <1>3 DEF IsList, NodeAt
<1>5. QueueTypeOK'
  BY <1>1 DEF QueueInv, QueueTypeOK
<1>6. PassedBy(count)'
  BY <1>1, <1>2, <1>4 DEF PassedBy
<1>7. QueueInv'
  BY <1>1, <1>2, <1>3, <1>5, <1>6 DEF QueueInv
<1>8. QueueContents' = QueueContents /\ QueueAnswer' = QueueAnswer
  BY <1>1, <1>2, SequenceOutside, SequenceOutsideNext
<1> QED BY <1>1, <1>7, <1>8, Stutters

\* The removal of all occurrences is the first step of its loop.
LEMMA CallRemoveStep ==
  ASSUME QueueInv, NEW x \in Items, priqueue_remove(x)
  PROVE  QueueInv' /\ StepOfSequence
<1>1. /\ queue_at = "out" /\ queue_at' = "remove" /\ ptr' = x /\ prev' = NULL /\ target' = top
      /\ count' = 0 /\ UNCHANGED <<top, nodes, returned>>
  BY DEF priqueue_remove, Loop
<1>2. Chain(top)' = Chain(top) /\ QueueItems' = QueueItems
  BY <1>1, SameChain
<1>3. /\ IsList(nodes, top, Chain(top)) /\ Len(Chain(top)) \in Nat
      /\ QueueItems \in Seq(Items)
  BY <1>1, ListFacts
<1>4. top = NodeAt(Chain(top), 0 + 1) /\ NULL = NodeAt(Chain(top), 0)
  BY <1>3 DEF IsList, NodeAt
<1>5. QueueTypeOK'
  BY <1>1 DEF QueueInv, QueueTypeOK
<1>6. PassedBy(0)' /\ 0 \in 0..Len(Chain(top))
  BY <1>1, <1>2, <1>3, <1>4 DEF PassedBy
<1>7. QueueInv'
  BY <1>1, <1>2, <1>3, <1>5, <1>6 DEF QueueInv
<1>8. QueueContents = QueueItems /\ QueueContents' = List!Others(QueueItems, x)
  BY <1>1, <1>2, SequenceOutside, SequenceInRemovalNext
<1>9. QueueAnswer' = Count(QueueItems, x)
  <2>1. QueueAnswer' = 0 + Count(QueueItems, x)
    BY <1>1, <1>2, SequenceInRemovalNext
  <2> QED BY <2>1, <1>3, CountType
<1>10. Ordered!Remove(x)
  <2>1. QueueContents' = Ordered!Others(QueueItems, x)
    BY <1>8, Zenon DEF Ordered!Others, List!Others
  <2>2. QueueAnswer' = Ordered!Cardinality({k \in DOMAIN QueueItems : QueueItems[k] = x})
    BY <1>9, Zenon DEF Ordered!Cardinality, Cardinality, Count
  <2> QED BY <2>1, <2>2, <1>8, Zenon DEF Ordered!Remove
<1>11. Ordered!Next
  BY <1>1, <1>10 DEF Ordered!Next
<1> QED BY <1>7, <1>11 DEF StepOfSequence

\* A node that is not the place is passed.
LEMMA PassStep ==
  ASSUME QueueInv, PassNode
  PROVE  QueueInv' /\ StepOfSequence
<1>1. /\ queue_at \in {"offer", "remove"} /\ target # NULL
      /\ prev' = target /\ target' = nodes[target].next
      /\ UNCHANGED <<top, nodes, queue_at, ptr, returned>>
      /\ IF queue_at = "offer"
         THEN ~Precedes(ptr, nodes[target].item) /\ count' = count + 1
         ELSE nodes[target].item # ptr /\ count' = count
  BY DEF PassNode
<1>2. Chain(top)' = Chain(top) /\ QueueItems' = QueueItems
  BY <1>1, SameChain
<1> PICK c : c = Chain(top)
  OBVIOUS
<1>3. IsList(nodes, top, c) /\ Len(c) \in Nat
  BY <1>1, ListFacts
<1>4. PICK i \in 0..Len(c) : PassedBy(i) /\ (queue_at = "offer" => i = count)
  <2>1. CASE queue_at = "offer"
    BY <2>1 DEF QueueInv
  <2>2. CASE queue_at = "remove"
    BY <2>2 DEF QueueInv
  <2> QED BY <2>1, <2>2, <1>1
<1>5. /\ prev = NodeAt(c, i) /\ target = NodeAt(c, i + 1)
      /\ \A k \in 1..i : IF queue_at = "offer" THEN ~Precedes(ptr, nodes[c[k]].item)
                         ELSE nodes[c[k]].item # ptr
  BY <1>4 DEF PassedBy
<1>6. i + 1 \in 1..Len(c) /\ target = c[i + 1]
  BY <1>1, <1>5 DEF NodeAt
<1>7. target' = NodeAt(c, (i + 1) + 1)
  BY <1>1, <1>3, <1>6 DEF IsList
<1>8. \A k \in 1..(i + 1) : IF queue_at = "offer" THEN ~Precedes(ptr, nodes[c[k]].item)
                            ELSE nodes[c[k]].item # ptr
  <2> SUFFICES ASSUME NEW k \in 1..(i + 1)
               PROVE  IF queue_at = "offer" THEN ~Precedes(ptr, nodes[c[k]].item)
                      ELSE nodes[c[k]].item # ptr
    OBVIOUS
  <2>1. k \in 1..i \/ k = i + 1
    OBVIOUS
  <2> QED BY <2>1, <1>1, <1>5, <1>6
<1>9. PassedBy(i + 1)'
  <2>1. prev' = NodeAt(c, i + 1)
    BY <1>1, <1>5
  <2>2. \A item : Precedes(ptr, item)' <=> Precedes(ptr, item)
    BY <1>1 DEF Precedes
  <2> QED BY <2>1, <1>1, <1>2, <1>7, <1>8 DEF PassedBy, Precedes
<1>10. QueueTypeOK'
  <2>1. count' \in Nat
    BY <1>1 DEF QueueInv, QueueTypeOK
  <2> QED BY <2>1, <1>1 DEF QueueInv, QueueTypeOK
<1>11. i + 1 \in 0..Len(c) /\ (queue_at = "offer" => count' = i + 1)
  BY <1>1, <1>4, <1>6
<1>12. QueueInv'
  <2>1. queue_at' = "offer" => count' \in 0..Len(c) /\ PassedBy(count)'
    <3> SUFFICES ASSUME queue_at' = "offer" PROVE count' \in 0..Len(c) /\ PassedBy(count)'
      OBVIOUS
    <3>1. count' = i + 1
      BY <1>1, <1>11
    <3> QED BY <3>1, <1>9, <1>11
  <2>2. queue_at' = "offer" => Cardinality(DOMAIN nodes') < MAX_NODES
    BY <1>1 DEF QueueInv
  <2>3. IsList(nodes, top, c)' 
    BY <1>1, <1>3
  <2>4. \E j \in 0..Len(c) : PassedBy(j)'
    BY <1>9, <1>11
  <2> QED BY <2>1, <2>2, <2>3, <2>4, <1>1, <1>2, <1>10 DEF QueueInv
<1>13. QueueContents' = QueueContents /\ QueueAnswer' = QueueAnswer
  BY <1>1, <1>2 DEF QueueContents, QueueAnswer
<1> QED BY <1>1, <1>12, <1>13, Stutters

\* The loop of offer has found the place.
LEMMA LinkStep ==
  ASSUME QueueInv, LinkNode
  PROVE  QueueInv' /\ StepOfSequence
<1>1. /\ queue_at = "offer" /\ queue_at' = "out" /\ returned' = count /\ count' = 0
      /\ target # NULL => Precedes(ptr, nodes[target].item)
      /\ IF prev = NULL
         THEN top' = FreeNode /\ nodes' = NewNode(target)
         ELSE nodes' = [NewNode(target) EXCEPT ![prev].next = FreeNode] /\ top' = top
  BY DEF LinkNode, Return
<1> PICK c, i, q, ns, new, x :
      c = Chain(top) /\ i = count /\ q = QueueItems /\ ns = nodes /\ new = FreeNode /\ x = ptr
  OBVIOUS
<1>2. /\ IsList(ns, top, c) /\ Len(c) \in Nat /\ NULL \notin DOMAIN ns
      /\ \A n \in DOMAIN ns : ns[n].item \in Items
      /\ q = ItemsOf(ns, c) /\ q \in Seq(Items) /\ Len(q) = Len(c)
  BY <1>1, ListFacts
<1>3. /\ i \in 0..Len(c)
      /\ prev = NodeAt(c, i) /\ target = NodeAt(c, i + 1)
      /\ \A k \in 1..i : ~Precedes(x, ns[c[k]].item)
  BY <1>1 DEF QueueInv, PassedBy
<1>4. new \in 1..MAX_NODES /\ new \notin DOMAIN ns
  BY <1>1, NodeIsFree DEF QueueInv, QueueTypeOK
<1>5. x \in Items /\ DOMAIN ns \subseteq 1..MAX_NODES
      /\ ns \in [DOMAIN ns -> [item : Items, next : 1..MAX_NODES \cup {NULL}]]
  BY <1>1 DEF QueueInv, QueueTypeOK
<1>6. \A k \in 1..Len(c) : c[k] \in DOMAIN ns
  <2>1. c \in Seq(DOMAIN ns)
    BY <1>2 DEF IsList
  <2> QED BY <2>1
<1>7. (prev = NULL <=> i = 0) /\ (i # 0 => prev = c[i] /\ c[i] \in DOMAIN ns)
  BY <1>2, <1>3, <1>6 DEF NodeAt
<1>8. target \in 1..MAX_NODES \cup {NULL}
  BY <1>3, <1>5, <1>6 DEF NodeAt
<1> DEFINE added == [n \in DOMAIN ns \cup {new} |-> IF n = new THEN [item |-> x, next |-> target]
                                                            ELSE ns[n]]
           ms == IF i = 0 THEN added ELSE [added EXCEPT ![c[i]].next = new]
           first == IF i = 0 THEN new ELSE top
           d == Longer(c, i, new)
<1>9. nodes' = ms /\ top' = first
  BY <1>1, <1>7 DEF NewNode
<1>10. added \in [DOMAIN ns \cup {new} -> [item : Items, next : 1..MAX_NODES \cup {NULL}]]
  BY <1>5, <1>8
<1>11. ms \in [DOMAIN ns \cup {new} -> [item : Items, next : 1..MAX_NODES \cup {NULL}]]
  <2> HIDE DEF added
  <2> QED BY <1>4, <1>7, <1>10
<1>12. ms[new].item = x /\ ms[new].next = target
  <2>1. added[new] = [item |-> x, next |-> target]
    OBVIOUS
  <2>2. i # 0 => c[i] # new
    BY <1>4, <1>7
  <2>3. ms[new] = added[new]
    <3> HIDE DEF added
    <3> QED BY <2>2, <1>10
  <2> QED BY <2>1, <2>3
<1>13. i # 0 => ms[c[i]].next = new
  <2> HIDE DEF added
  <2> QED BY <1>7, <1>10
<1>14. \A n \in DOMAIN ns : i = 0 \/ n # c[i] => ms[n].next = ns[n].next
  <2>1. \A n \in DOMAIN ns : added[n] = ns[n]
    BY <1>4
  <2>2. \A n \in DOMAIN ns : i = 0 \/ n # c[i] => ms[n] = added[n]
    <3> HIDE DEF added
    <3> QED BY <1>10
  <2> QED BY <2>1, <2>2
<1>15. \A n \in DOMAIN ns : ms[n].item = ns[n].item
  <2>1. \A n \in DOMAIN ns : added[n] = ns[n]
    BY <1>4
  <2>2. \A n \in DOMAIN ns : ms[n].item = added[n].item
    <3> HIDE DEF added
    <3> QED BY <1>7, <1>10
  <2> QED BY <2>1, <2>2
<1> HIDE DEF ms, first
<1>16. DOMAIN ms = DOMAIN ns \cup {new}
  BY <1>11
<1>17. IsList(ms, first, d)
  <2>1. LinkedAfter(ms, ns, c, i, new)
    BY <1>3, <1>4, <1>12, <1>13, <1>14, <1>16 DEF LinkedAfter
  <2>2. IsList(ms, IF i = 0 THEN new ELSE top, Longer(c, i, new))
    BY <1>2, <1>3, <2>1, ListGrows, Zenon
  <2> QED BY <2>2 DEF first
<1>18. ItemsOf(ms, d) = Longer(q, i, x)
  BY <1>2, <1>3, <1>4, <1>12, <1>15, ItemsGrow
<1>19. NULL \notin DOMAIN ms
  BY <1>2, <1>4, <1>16, QueueAssumption
<1> HIDE DEF d
<1>20. Chain(top)' = d /\ QueueItems' = Longer(q, i, x)
  BY <1>9, <1>17, <1>18, <1>19, NextChain
<1>21. QueueInv'
  <2>1. QueueTypeOK'
    BY <1>1, <1>4, <1>5, <1>9, <1>11, <1>16 DEF QueueTypeOK
  <2> QED BY <2>1, <1>1, <1>9, <1>17, <1>20 DEF QueueInv
<1>22. /\ QueueContents = q /\ QueueAnswer' = i
       /\ QueueContents' = SubSeq(q, 1, i) \o <<x>> \o SubSeq(q, i + 1, Len(q))
  <2>1. QueueContents' = Longer(q, i, x) /\ QueueContents = q /\ QueueAnswer' = i
    BY <1>1, <1>20, SequenceOutside, SequenceOutsideNext
  <2>2. SubSeq(q, 1, i) \o <<x>> \o SubSeq(q, i + 1, Len(q)) = Longer(q, i, x)
    <3>1. q \in Seq(Items) /\ i \in 0..Len(q) /\ x \in Items
      BY <1>2, <1>3, <1>5
    <3> QED BY <3>1, LongerIsLinked, Zenon
  <2> QED BY <2>1, <2>2, Zenon
<1>23. Ordered!IsPlace(q, x, ItemBefore, i + 1)
  <2>1. i + 1 \in 1..(Len(q) + 1)
    BY <1>2, <1>3
  <2>2. \A k \in 1..Len(c) : q[k] = ns[c[k]].item
    BY <1>2 DEF ItemsOf
  <2>3. i + 1 <= Len(q) => <<x, q[i + 1]>> \in ItemBefore
    <3> SUFFICES ASSUME i + 1 <= Len(q) PROVE <<x, q[i + 1]>> \in ItemBefore
      OBVIOUS
    <3>1. i + 1 \in 1..Len(c)
      BY <1>2, <1>3
    <3>2. target = c[i + 1] /\ target # NULL
      BY <3>1, <1>2, <1>3, <1>6 DEF NodeAt
    <3> QED BY <3>1, <3>2, <2>2, <1>1 DEF Precedes
  <2>4. \A k \in 1..((i + 1) - 1) : <<x, q[k]>> \notin ItemBefore
    BY <2>2, <1>2, <1>3 DEF Precedes
  <2> QED BY <2>1, <2>3, <2>4 DEF Ordered!IsPlace
<1>24. Ordered!Offer(x)
  <2>1. i + 1 \in 1..(Len(QueueContents) + 1) /\ (i + 1) - 1 = i
    BY <1>2, <1>3, <1>22
  <2> QED BY <2>1, <1>22, <1>23 DEF Ordered!Offer
<1>25. Ordered!Next
  BY <1>1, <1>5, <1>24 DEF Ordered!Next
<1> QED BY <1>21, <1>25 DEF StepOfSequence

\* What is left of the list, and of its items, when node p is taken out.
LEMMA RemovalShrinks ==
  ASSUME QueueInv, queue_at \in {"out", "remove"}, NEW p \in 1..Len(Chain(top)),
         top' = IF p = 1 THEN nodes[top].next ELSE top,
         nodes' = Without(IF p = 1 THEN nodes
                          ELSE [nodes EXCEPT ![Chain(top)[p - 1]].next =
                                                nodes[Chain(top)[p]].next], Chain(top)[p])
  PROVE  /\ IsList(nodes', top', Chain(top)')
         /\ DOMAIN nodes' \subseteq 1..MAX_NODES
         /\ nodes' \in [DOMAIN nodes' -> [item : Items, next : 1..MAX_NODES \cup {NULL}]]
         /\ \A n \in DOMAIN nodes' : nodes'[n].item = nodes[n].item
         /\ Chain(top)' = Shorter(Chain(top), p)
         /\ QueueItems' = Shorter(QueueItems, p)
<1> PICK c, ns : c = Chain(top) /\ ns = nodes
  OBVIOUS
<1>1. /\ IsList(ns, top, c) /\ Len(c) \in Nat /\ NULL \notin DOMAIN ns
      /\ QueueItems = ItemsOf(ns, c)
  BY ListFacts
<1>2. /\ \A k \in 1..Len(c) : c[k] \in DOMAIN ns
      /\ \A j, k \in 1..Len(c) : c[j] = c[k] => j = k
  <2>1. c \in Seq(DOMAIN ns) /\ \A j, k \in 1..Len(c) : c[j] = c[k] => j = k
    BY <1>1 DEF IsList
  <2> QED BY <2>1
<1>3. /\ DOMAIN ns \subseteq 1..MAX_NODES
      /\ ns \in [DOMAIN ns -> [item : Items, next : 1..MAX_NODES \cup {NULL}]]
  BY DEF QueueInv, QueueTypeOK
<1>4. p \in 1..Len(c) /\ c[p] \in DOMAIN ns
      /\ (p # 1 => p - 1 \in 1..Len(c) /\ c[p - 1] \in DOMAIN ns \ {c[p]})
  <2>1. p # 1 => p - 1 \in 1..Len(c) /\ p - 1 # p
    BY <1>1
  <2> QED BY <2>1, <1>2
<1> DEFINE linked == IF p = 1 THEN ns ELSE [ns EXCEPT ![c[p - 1]].next = ns[c[p]].next]
           ms == [n \in DOMAIN linked \ {c[p]} |-> linked[n]]
           first == IF p = 1 THEN ns[top].next ELSE top
           d == Shorter(c, p)
<1>5. nodes' = ms /\ top' = first
  BY DEF Without
<1>6. linked \in [DOMAIN ns -> [item : Items, next : 1..MAX_NODES \cup {NULL}]]
  <2>1. ns[c[p]].next \in 1..MAX_NODES \cup {NULL}
    BY <1>3, <1>4
  <2> QED BY <2>1, <1>3, <1>4
<1>7. /\ p # 1 => linked[c[p - 1]].next = ns[c[p]].next
      /\ \A n \in DOMAIN ns : p = 1 \/ n # c[p - 1] => linked[n].next = ns[n].next
      /\ \A n \in DOMAIN ns : linked[n].item = ns[n].item
  BY <1>3, <1>4
<1> HIDE DEF linked
<1>8. /\ DOMAIN ms = DOMAIN ns \ {c[p]}
      /\ \A n \in DOMAIN ms : ms[n] = linked[n]
  BY <1>6
<1>9. ms \in [DOMAIN ms -> [item : Items, next : 1..MAX_NODES \cup {NULL}]]
  BY <1>6, <1>8
<1> HIDE DEF ms, first
<1>10. /\ p # 1 => ms[c[p - 1]].next = ns[c[p]].next
       /\ \A n \in DOMAIN ms : p = 1 \/ n # c[p - 1] => ms[n].next = ns[n].next
       /\ \A n \in DOMAIN ms : ms[n].item = ns[n].item
  BY <1>4, <1>7, <1>8
<1>11. IsList(ms, first, d)
  <2>1. IsList(ms, IF p = 1 THEN ns[top].next ELSE top, Shorter(c, p))
    <3>1. UnlinkedAt(ms, ns, c, p)
      BY <1>7, <1>8, <1>10 DEF UnlinkedAt
    <3> QED BY <1>1, <1>4, <3>1, ListShrinks, Zenon
  <2> QED BY <2>1 DEF first
<1>12. ItemsOf(ms, d) = Shorter(ItemsOf(ns, c), p)
  BY <1>1, <1>4, <1>8, <1>10, ItemsShrink
<1> HIDE DEF d
<1>13. Chain(top)' = d /\ QueueItems' = ItemsOf(ms, d)
  BY <1>1, <1>5, <1>8, <1>11, NextChain
<1> QED BY <1>1, <1>3, <1>5, <1>8, <1>9, <1>10, <1>11, <1>12, <1>13 DEF d

\* The loop of remove takes a node out.
LEMMA RemoveStep ==
  ASSUME QueueInv, RemoveNode
  PROVE  QueueInv' /\ StepOfSequence
<1>1. /\ queue_at = "remove" /\ target # NULL /\ nodes[target].item = ptr
      /\ target' = nodes[target].next /\ count' = count + 1
      /\ UNCHANGED <<queue_at, ptr, prev, returned>>
  BY DEF RemoveNode
<1> PICK c, ns, q, x : c = Chain(top) /\ ns = nodes /\ q = QueueItems /\ x = ptr
  OBVIOUS
<1>2. /\ IsList(ns, top, c) /\ Len(c) \in Nat /\ NULL \notin DOMAIN ns
      /\ q = ItemsOf(ns, c) /\ q \in Seq(Items) /\ Len(q) = Len(c)
  BY <1>1, ListFacts
<1>3. PICK i \in 0..Len(c) : PassedBy(i)
  BY <1>1 DEF QueueInv
<1>4. /\ prev = NodeAt(c, i) /\ target = NodeAt(c, i + 1)
      /\ \A k \in 1..i : ns[c[k]].item # x
  BY <1>1, <1>3 DEF PassedBy
<1> DEFINE p == i + 1
           d == Shorter(c, p)
<1>5. p \in 1..Len(c) /\ target = c[p]
  BY <1>1, <1>4 DEF NodeAt
<1>6. /\ \A k \in 1..Len(c) : c[k] \in DOMAIN ns
      /\ \A j, k \in 1..Len(c) : c[j] = c[k] => j = k
  <2>1. c \in Seq(DOMAIN ns) /\ \A j, k \in 1..Len(c) : c[j] = c[k] => j = k
    BY <1>2 DEF IsList
  <2> QED BY <2>1
<1>7. top = c[1] /\ 1 \in 1..Len(c)
  <2>1. 1 \in 1..Len(c)
    BY <1>2, <1>5
  <2> QED BY <2>1, <1>2 DEF IsList, NodeAt
<1>8. (target = top <=> p = 1) /\ (prev = NULL <=> p = 1) /\ (p # 1 => prev = c[p - 1])
  <2>1. target = top <=> p = 1
    BY <1>5, <1>6, <1>7
  <2>2. p # 1 => p - 1 \in 1..Len(c) /\ p - 1 = i
    BY <1>2, <1>5
  <2>3. p = 1 => i = 0
    BY <1>2
  <2> QED BY <2>1, <2>2, <2>3, <1>2, <1>4, <1>6 DEF NodeAt
<1>9. /\ top' = IF p = 1 THEN nodes[top].next ELSE top
      /\ nodes' = Without(IF p = 1 THEN nodes
                          ELSE [nodes EXCEPT ![c[p - 1]].next = nodes[c[p]].next], c[p])
  BY <1>5, <1>8 DEF RemoveNode
<1> HIDE DEF p
<1>10. /\ IsList(nodes', top', Chain(top)')
       /\ DOMAIN nodes' \subseteq 1..MAX_NODES
       /\ nodes' \in [DOMAIN nodes' -> [item : Items, next : 1..MAX_NODES \cup {NULL}]]
       /\ \A n \in DOMAIN nodes' : nodes'[n].item = ns[n].item
       /\ Chain(top)' = d
       /\ QueueItems' = Shorter(q, p)
  BY <1>1, <1>5, <1>9, RemovalShrinks
<1>11. Len(d) = Len(c) - 1 /\ \A k \in 1..(Len(c) - 1) : d[k] = IF k < p THEN c[k] ELSE c[k + 1]
  BY <1>2, <1>5 DEF Shorter
<1> HIDE DEF d
<1>12. PassedBy(i)' /\ i \in 0..Len(d)
  <2>1. i \in 0..Len(d)
    BY <1>2, <1>5, <1>11 DEF p
  <2>2. prev = NodeAt(d, i)
    <3>1. CASE i = 0
      BY <3>1, <1>4 DEF NodeAt
    <3>2. CASE i # 0
      <4>1. i \in 1..Len(c) /\ i \in 1..Len(d) /\ i < p
        BY <3>2, <2>1, <1>2, <1>5 DEF p
      <4>2. d[i] = c[i]
        BY <4>1, <1>11
      <4> QED BY <4>1, <4>2, <1>4 DEF NodeAt
    <3> QED BY <3>1, <3>2
  <2>3. target' = NodeAt(d, i + 1)
    <3>1. target' = NodeAt(c, p + 1)
      BY <1>1, <1>2, <1>5 DEF IsList
    <3>2. CASE p + 1 \in 1..Len(c)
      <4>1. i + 1 \in 1..Len(d) /\ ~(i + 1 < p) /\ i + 1 \in 1..(Len(c) - 1) /\ (i + 1) + 1 = p + 1
        BY <3>2, <1>2, <1>5, <1>11 DEF p
      <4>2. d[i + 1] = c[p + 1]
        BY <4>1, <1>11
      <4> QED BY <3>1, <3>2, <4>1, <4>2 DEF NodeAt
    <3>3. CASE p + 1 \notin 1..Len(c)
      <4>1. i + 1 \notin 1..Len(d)
        BY <3>3, <1>2, <1>5, <1>11 DEF p
      <4> QED BY <3>1, <3>3, <4>1 DEF NodeAt
    <3> QED BY <3>2, <3>3
  <2>4. \A k \in 1..i : nodes'[d[k]].item # x
    <3> SUFFICES ASSUME NEW k \in 1..i PROVE nodes'[d[k]].item # x
      OBVIOUS
    <3>1. k \in 1..(Len(c) - 1) /\ k < p
      BY <1>2, <1>5 DEF p
    <3>2. d[k] = c[k] /\ k \in 1..Len(d)
      BY <3>1, <1>2, <1>11
    <3>3. d \in Seq(DOMAIN nodes')
      BY <1>10 DEF IsList
    <3>4. d[k] \in DOMAIN nodes'
      BY <3>2, <3>3
    <3> QED BY <3>2, <3>4, <1>4, <1>10
  <2> QED BY <2>1, <2>2, <2>3, <2>4, <1>1, <1>10 DEF PassedBy
<1>13. QueueInv'
  <2>1. QueueTypeOK'
    <3>1. count' \in Nat /\ ptr \in Items
      BY <1>1 DEF QueueInv, QueueTypeOK
    <3> QED BY <3>1, <1>1, <1>10 DEF QueueTypeOK
  <2> QED BY <2>1, <1>1, <1>10, <1>12 DEF QueueInv
<1>14. q[p] = x /\ p \in 1..Len(q)
  BY <1>1, <1>2, <1>5 DEF ItemsOf
<1>15. QueueContents' = QueueContents
  <2>1. List!Others(Shorter(q, p), x) = List!Others(q, x)
    BY <1>2, <1>14, OthersOfShorter
  <2> QED BY <2>1, <1>1, <1>10, SequenceInRemoval, SequenceInRemovalNext
<1>16. QueueAnswer' = QueueAnswer
  <2>1. Count(Shorter(q, p), x) \in Nat /\ Count(q, x) = Count(Shorter(q, p), x) + 1
    BY <1>2, <1>14, CountOfShorter
  <2>2. count \in Nat
    BY DEF QueueInv, QueueTypeOK
  <2>3. QueueAnswer = count + Count(q, x)
    BY <1>1, SequenceInRemoval
  <2>4. QueueAnswer' = (count + 1) + Count(Shorter(q, p), x)
    BY <1>1, <1>10, SequenceInRemovalNext
  <2> QED BY <2>1, <2>2, <2>3, <2>4
<1> QED BY <1>1, <1>13, <1>15, <1>16, Stutters

\* The loop of remove has come to the end of the list.
LEMMA RemoveEndStep ==
  ASSUME QueueInv, RemoveEnds
  PROVE  QueueInv' /\ StepOfSequence
<1>1. /\ queue_at = "remove" /\ target = NULL /\ queue_at' = "out" /\ returned' = count
      /\ count' = 0 /\ UNCHANGED <<top, nodes>>
  BY DEF RemoveEnds, Return
<1>2. Chain(top)' = Chain(top) /\ QueueItems' = QueueItems
  BY <1>1, SameChain
<1> PICK c, ns, q, x : c = Chain(top) /\ ns = nodes /\ q = QueueItems /\ x = ptr
  OBVIOUS
<1>3. /\ IsList(ns, top, c) /\ Len(c) \in Nat /\ NULL \notin DOMAIN ns
      /\ q = ItemsOf(ns, c) /\ q \in Seq(Items) /\ Len(q) = Len(c)
  BY <1>1, ListFacts
<1>4. PICK i \in 0..Len(c) : PassedBy(i)
  BY <1>1 DEF QueueInv
<1>5. target = NodeAt(c, i + 1) /\ \A k \in 1..i : ns[c[k]].item # x
  BY <1>1, <1>4 DEF PassedBy
<1>6. i = Len(c)
  <2> SUFFICES ASSUME i # Len(c) PROVE FALSE
    OBVIOUS
  <2>1. i + 1 \in 1..Len(c)
    BY <1>3
  <2>2. c \in Seq(DOMAIN ns)
    BY <1>3 DEF IsList
  <2>3. c[i + 1] \in DOMAIN ns
    BY <2>1, <2>2
  <2> QED BY <2>1, <2>3, <1>1, <1>3, <1>5 DEF NodeAt
<1>7. \A k \in 1..Len(q) : q[k] # x
  BY <1>3, <1>5, <1>6 DEF ItemsOf
<1>8. QueueContents' = QueueContents
  <2>1. List!Others(q, x) = q
    BY <1>3, <1>7, OthersOfNone
  <2> QED BY <2>1, <1>1, <1>2, SequenceInRemoval, SequenceOutsideNext
<1>9. QueueAnswer' = QueueAnswer
  <2>1. Count(q, x) = 0 /\ count \in Nat
    BY <1>3, <1>7, CountOfNone DEF QueueInv, QueueTypeOK
  <2>2. QueueAnswer = count + Count(q, x)
    BY <1>1, SequenceInRemoval
  <2>3. QueueAnswer' = count
    BY <1>1, SequenceOutsideNext
  <2> QED BY <2>1, <2>2, <2>3
<1>10. QueueInv'
  <2>1. QueueTypeOK'
    BY <1>1 DEF QueueInv, QueueTypeOK
  <2> QED BY <2>1, <1>1, <1>2, <1>3 DEF QueueInv
<1> QED BY <1>1, <1>8, <1>9, <1>10, Stutters

\* remove_at takes out the node at an index, or nothing.
LEMMA RemoveAtStep ==
  ASSUME QueueInv, NEW index \in -1..MAX_NODES, priqueue_remove_at(index)
  PROVE  QueueInv' /\ StepOfSequence
<1>1. queue_at = "out" /\ queue_at' = "out" /\ count' = 0
  BY DEF priqueue_remove_at, Return
<1> PICK c, ns, q : c = Chain(top) /\ ns = nodes /\ q = QueueItems
  OBVIOUS
<1>2. /\ IsList(ns, top, c) /\ Len(c) \in Nat /\ NULL \notin DOMAIN ns
      /\ q = ItemsOf(ns, c) /\ q \in Seq(Items) /\ Len(q) = Len(c)
  BY <1>1, ListFacts
<1>3. \A k \in 1..Len(c) : c[k] # NULL /\ c[k] \in DOMAIN ns /\ q[k] = ns[c[k]].item
  <2>1. c \in Seq(DOMAIN ns)
    BY <1>2 DEF IsList
  <2> QED BY <2>1, <1>2 DEF ItemsOf
<1>4. index \in Int
  BY QueueAssumption
<1>5. \A j \in Int : node_at(top, j) = IF j \in 0..(Len(c) - 1) THEN c[j + 1] ELSE NULL
  BY DEF node_at, list_size
<1>6. QueueContents = q
  BY <1>1, SequenceOutside
<1>7. Ordered!At(index) = IF index \in 0..(Len(q) - 1) THEN q[index + 1] ELSE NULL
  BY <1>6 DEF Ordered!At
<1>8. CASE index \in 0..(Len(c) - 1)
  <2> DEFINE p == index + 1
  <2>1. p \in 1..Len(c) /\ node_at(top, index) = c[p] /\ c[p] # NULL
    BY <1>2, <1>3, <1>4, <1>5, <1>8
  <2>2. p # 1 => node_at(top, index - 1) = c[p - 1]
    BY <1>2, <1>4, <1>5, <1>8
  <2>3. /\ top' = IF index = 0 THEN nodes[top].next ELSE top
        /\ nodes' = Without(IF index = 0 THEN nodes
                            ELSE [nodes EXCEPT ![node_at(top, index - 1)].next = nodes[c[p]].next],
                            c[p])
        /\ returned' = nodes[c[p]].item
    BY <2>1 DEF priqueue_remove_at, Return
  <2>4. index = 0 <=> p = 1
    BY <1>4
  <2>5. /\ top' = IF p = 1 THEN nodes[top].next ELSE top
        /\ nodes' = Without(IF p = 1 THEN nodes
                            ELSE [nodes EXCEPT ![c[p - 1]].next = nodes[c[p]].next], c[p])
    BY <2>2, <2>3, <2>4
  <2> HIDE DEF p
  <2>6. /\ IsList(nodes', top', Chain(top)')
        /\ DOMAIN nodes' \subseteq 1..MAX_NODES
        /\ nodes' \in [DOMAIN nodes' -> [item : Items, next : 1..MAX_NODES \cup {NULL}]]
        /\ QueueItems' = Shorter(q, p)
    BY <1>1, <2>1, <2>5, RemovalShrinks
  <2>7. QueueInv'
    BY <1>1, <2>6 DEF QueueInv, QueueTypeOK
  <2>8. QueueContents' = Shorter(q, p) /\ QueueAnswer' = q[p]
    BY <1>1, <1>3, <2>1, <2>3, <2>6, SequenceOutsideNext
  <2>9. Shorter(q, p) = SubSeq(q, 1, index) \o SubSeq(q, index + 2, Len(q))
    <3>1. SubSeq(q, 1, p - 1) \o SubSeq(q, p + 1, Len(q)) = Shorter(q, p)
      BY <1>2, <2>1, ShorterIsCut
    <3>2. p - 1 = index /\ p + 1 = index + 2
      BY <1>4 DEF p
    <3> QED BY <3>1, <3>2
  <2>10. Ordered!At(index) = q[p]
    BY <1>2, <1>7, <1>8 DEF p
  <2>11. Ordered!RemoveAt(index)
    BY <1>6, <2>8, <2>9, <2>10 DEF Ordered!RemoveAt
  <2>12. index \in -1..Len(QueueContents)
    BY <1>2, <1>4, <1>6, <1>8
  <2>13. Ordered!Next
    BY <1>1, <2>11, <2>12 DEF Ordered!Next
  <2> QED BY <2>7, <2>13 DEF StepOfSequence
<1>9. CASE index \notin 0..(Len(c) - 1)
  <2>1. node_at(top, index) = NULL
    BY <1>4, <1>5, <1>9
  <2>2. returned' = NULL /\ UNCHANGED <<top, nodes>>
    BY <2>1 DEF priqueue_remove_at, Return
  <2>3. Chain(top)' = c /\ QueueItems' = q
    BY <2>2, SameChain
  <2>4. QueueInv'
    <3>1. QueueTypeOK'
      BY <1>1, <2>2 DEF QueueInv, QueueTypeOK
    <3> QED BY <3>1, <1>1, <1>2, <2>2, <2>3 DEF QueueInv
  <2>5. QueueContents' = q /\ QueueAnswer' = NULL
    BY <1>1, <2>2, <2>3, SequenceOutsideNext
  <2>6. Ordered!At(-1) = NULL
    BY DEF Ordered!At
  <2>7. SubSeq(q, 1, -1) \o SubSeq(q, -1 + 2, Len(q)) = q
    <3>1. SubSeq(q, 1, -1) = <<>> /\ SubSeq(q, -1 + 2, Len(q)) = q
      BY <1>2
    <3> QED BY <3>1, <1>2
  <2>8. Ordered!RemoveAt(-1)
    BY <1>6, <2>5, <2>6, <2>7 DEF Ordered!RemoveAt
  <2>9. -1 \in -1..Len(QueueContents)
    BY <1>2, <1>6
  <2>10. Ordered!Next
    BY <1>1, <2>8, <2>9 DEF Ordered!Next
  <2> QED BY <2>4, <2>10 DEF StepOfSequence
<1> QED BY <1>8, <1>9

\* at and size look at the queue only.
LEMMA LookStep ==
  ASSUME QueueInv, NEW index \in -1..MAX_NODES, priqueue_at(index) \/ priqueue_size
  PROVE  QueueInv' /\ StepOfSequence
<1>1. queue_at = "out" /\ queue_at' = "out" /\ count' = 0 /\ UNCHANGED <<top, nodes>>
  BY DEF priqueue_at, priqueue_size, Return
<1> PICK c, ns, q : c = Chain(top) /\ ns = nodes /\ q = QueueItems
  OBVIOUS
<1>2. /\ IsList(ns, top, c) /\ Len(c) \in Nat /\ NULL \notin DOMAIN ns
      /\ q = ItemsOf(ns, c) /\ q \in Seq(Items) /\ Len(q) = Len(c)
  BY <1>1, ListFacts
<1>3. \A k \in 1..Len(c) : c[k] # NULL /\ q[k] = ns[c[k]].item
  <2>1. c \in Seq(DOMAIN ns)
    BY <1>2 DEF IsList
  <2> QED BY <2>1, <1>2 DEF ItemsOf
<1>4. Chain(top)' = c /\ QueueItems' = q
  BY <1>1, SameChain
<1>5. QueueInv'
  <2>1. QueueTypeOK'
    BY <1>1 DEF QueueInv, QueueTypeOK
  <2> QED BY <2>1, <1>1, <1>2, <1>4 DEF QueueInv
<1>6. QueueContents = q /\ QueueContents' = q /\ QueueAnswer' = returned'
  BY <1>1, <1>4, SequenceOutside, SequenceOutsideNext
<1>7. CASE priqueue_size
  <2>1. returned' = Len(q)
    BY <1>2, <1>7 DEF priqueue_size, list_size, Return
  <2>2. Ordered!Size
    BY <1>6, <2>1 DEF Ordered!Size
  <2> QED BY <1>1, <1>5, <2>2 DEF StepOfSequence, Ordered!Next
<1>8. CASE priqueue_at(index)
  <2>1. index \in Int
    BY QueueAssumption
  <2>2. node_at(top, index) = IF index \in 0..(Len(c) - 1) THEN c[index + 1] ELSE NULL
    BY DEF node_at, list_size
  <2>3. returned' = IF node_at(top, index) = NULL THEN NULL ELSE ns[node_at(top, index)].item
    BY <1>8 DEF priqueue_at, Return
  <2>4. returned' = IF index \in 0..(Len(q) - 1) THEN q[index + 1] ELSE NULL
    <3>1. CASE index \in 0..(Len(q) - 1)
      <4>1. index + 1 \in 1..Len(c) /\ index \in 0..(Len(c) - 1)
        BY <1>2, <2>1, <3>1
      <4> QED BY <1>3, <2>2, <2>3, <3>1, <4>1
    <3>2. CASE index \notin 0..(Len(q) - 1)
      BY <1>2, <2>2, <2>3, <3>2
    <3> QED BY <3>1, <3>2
  <2>5. \E i \in -1..Len(QueueContents) : Ordered!Look(i)
    <3>1. CASE index \in 0..(Len(q) - 1)
      <4>1. index \in -1..Len(QueueContents)
        BY <1>2, <1>6, <2>1, <3>1
      <4>2. Ordered!Look(index)
        BY <1>6, <2>4, <3>1 DEF Ordered!Look, Ordered!At
      <4> QED BY <4>1, <4>2
    <3>2. CASE index \notin 0..(Len(q) - 1)
      <4>1. -1 \in -1..Len(QueueContents)
        BY <1>2, <1>6
      <4>2. Ordered!Look(-1)
        BY <1>6, <2>4, <3>2 DEF Ordered!Look, Ordered!At
      <4> QED BY <4>1, <4>2
    <3> QED BY <3>1, <3>2
  <2>6. Ordered!Next
    BY <1>1, <2>5 DEF Ordered!Next
  <2> QED BY <1>5, <2>6 DEF StepOfSequence
<1> QED BY <1>7, <1>8

LEMMA DestroyStep ==
  ASSUME QueueInv, priqueue_destroy
  PROVE  QueueInv' /\ StepOfSequence
<1>1. /\ queue_at = "out" /\ queue_at' = "destroyed"
      /\ UNCHANGED <<top, ptr, prev, target, count, returned>>
  BY DEF priqueue_destroy
<1>2. IsList(nodes, top, Chain(top))
  BY <1>1, ListFacts
<1>3. nodes' = [n \in DOMAIN nodes \ {Chain(top)[k] : k \in 1..Len(Chain(top))} |-> nodes[n]]
  BY DEF priqueue_destroy, list_size
<1>4. DOMAIN nodes' = {}
  <2>1. \A n \in DOMAIN nodes : \E k \in 1..Len(Chain(top)) : Chain(top)[k] = n
    BY <1>2 DEF IsList
  <2>2. DOMAIN nodes \ {Chain(top)[k] : k \in 1..Len(Chain(top))} = {}
    BY <2>1, Zenon
  <2>3. DOMAIN nodes' = DOMAIN nodes \ {Chain(top)[k] : k \in 1..Len(Chain(top))}
    BY <1>3, Zenon
  <2> QED BY <2>2, <2>3
<1>5. QueueInv'
  <2>1. nodes' \in [DOMAIN nodes' -> [item : Items, next : 1..MAX_NODES \cup {NULL}]]
    BY <1>3, <1>4
  <2> QED BY <2>1, <1>1, <1>4 DEF QueueInv, QueueTypeOK
<1>6. QueueContents' = <<>> /\ QueueAnswer' = QueueAnswer
  BY <1>1 DEF QueueContents, QueueAnswer
<1>7. Ordered!Next
  BY <1>1, <1>6 DEF Ordered!Next, Ordered!Destroy
<1> QED BY <1>5, <1>7 DEF StepOfSequence

LEMMA QueueStepKeeps ==
  ASSUME QueueInv, [QueueNext]_queueVars
  PROVE  QueueInv' /\ StepOfSequence
<1>1. CASE UNCHANGED queueVars
  <2>1. Chain(top)' = Chain(top) /\ QueueItems' = QueueItems
    BY <1>1, SameChain DEF queueVars
  <2>2. QueueInv'
    BY <1>1, <2>1 DEF queueVars, QueueInv, QueueTypeOK, PassedBy, Precedes
  <2>3. Ordered!vars' = Ordered!vars
    BY <1>1, <2>1 DEF queueVars, Ordered!vars, QueueContents, QueueAnswer
  <2> QED BY <2>2, <2>3 DEF StepOfSequence
<1>2. CASE QueueStep
  BY <1>2, LinkStep, PassStep, RemoveStep, RemoveEndStep DEF QueueStep
<1>3. ASSUME NEW x \in Items, priqueue_offer(x) \/ priqueue_remove(x)
      PROVE  QueueInv' /\ StepOfSequence
  BY <1>3, CallOfferStep, CallRemoveStep
<1>4. ASSUME NEW index \in -1..MAX_NODES, priqueue_remove_at(index) \/ priqueue_at(index)
      PROVE  QueueInv' /\ StepOfSequence
  BY <1>4, RemoveAtStep, LookStep
<1>5. CASE priqueue_size
  <2>1. -1 \in -1..MAX_NODES
    BY QueueAssumption
  <2> QED BY <1>5, <2>1, LookStep
<1>6. CASE priqueue_destroy
  BY <1>6, DestroyStep
<1> QED BY <1>1, <1>2, <1>3, <1>4, <1>5, <1>6 DEF QueueNext

\* An empty queue is an empty list and an empty sequence.
LEMMA InitialQueue == QueueInit => QueueInv /\ Ordered!Init
<1> SUFFICES ASSUME QueueInit PROVE QueueInv /\ Ordered!Init
  OBVIOUS
<1>1. /\ top = NULL /\ DOMAIN nodes = {} /\ nodes = [n \in {} |-> 0] /\ queue_at = "out"
      /\ count = 0 /\ returned = NULL
  BY DEF QueueInit
<1>2. IsList(nodes, top, <<>>)
  BY <1>1 DEF IsList, NodeAt
<1>3. Chain(top) = <<>>
  BY <1>1, <1>2, ChainOfList DEF ChainIsTheList, ChainIsList
<1>4. QueueInv
  BY <1>1, <1>2, <1>3 DEF QueueInv, QueueTypeOK
<1>5. QueueItems = <<>>
  BY <1>3 DEF QueueItems
<1>6. QueueContents = <<>> /\ QueueAnswer = NULL
  BY <1>1, <1>5, SequenceOutside
<1> QED BY <1>1, <1>4, <1>6 DEF Ordered!Init

-----------------------------------------------------------------------------
(* The theorem *)

\* The linked list of libpriqueue.c is the ordered sequence of its header, for
\* every comparer and every sequence of calls; and a node is allocated exactly
\* as long as it is in the list.
THEOREM ListIsOrderedQueue == QueueInit /\ [][QueueNext]_queueVars => IsOrderedQueue
<1>1. QueueInit => QueueInv /\ Ordered!Init
  BY InitialQueue
<1>2. QueueInv /\ [QueueNext]_queueVars => QueueInv' /\ [Ordered!Next]_(Ordered!vars)
  BY QueueStepKeeps DEF StepOfSequence
<1>3. QueueInv => NodesLinked
  <2> SUFFICES ASSUME QueueInv PROVE NodesLinked
    OBVIOUS
  <2>1. CASE queue_at = "destroyed"
    BY <2>1 DEF QueueInv, NodesLinked
  <2>2. CASE queue_at # "destroyed"
    <3>1. IsList(nodes, top, Chain(top))
      BY <2>2 DEF QueueInv
    <3>2. DOMAIN Chain(top) = 1..Len(Chain(top))
          /\ \A k \in 1..Len(Chain(top)) : Chain(top)[k] \in DOMAIN nodes
      <4>1. Chain(top) \in Seq(DOMAIN nodes)
        BY <3>1 DEF IsList
      <4> QED BY <4>1
    <3>3. \A n \in DOMAIN nodes : \E k \in 1..Len(Chain(top)) : Chain(top)[k] = n
      BY <3>1 DEF IsList
    <3> QED BY <2>2, <3>2, <3>3 DEF NodesLinked
  <2> QED BY <2>1, <2>2
<1> QED BY <1>1, <1>2, <1>3, PTL DEF IsOrderedQueue, Ordered!Spec
================================================================================
