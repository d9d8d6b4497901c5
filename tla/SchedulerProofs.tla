--------------------------- MODULE SchedulerProofs ---------------------------
(***************************************************************************)
(* Proofs about the scheduler of lab7 and its simulator, for every number  *)
(* of cores, job file and scheme: the invariants that SchedulerSimulator   *)
(* states, from one inductive invariant IInv.                              *)
(*                                                                         *)
(* SchedInv is the part of it that the functions of libscheduler.c keep    *)
(* among themselves.  It speaks of the structures as an update at the      *)
(* present time would leave them (Now), because the ones in memory are     *)
(* charged at some calls and not at others.  SimInv ties the simulator's   *)
(* own array to it.  StatInv, which the statistics need, says for every    *)
(* job that is there what has been recorded of it, and that the total is   *)
(* the last of the sums over the jobs that have finished.                  *)
(***************************************************************************)
EXTENDS SchedulerSimulator, FiniteSetTheorems, SequenceTheorems, TLAPS

\* A job_t structure.
JobStruct ==
  [arrival_time : Int, running_time : Int, remaining_time : Int, priority : Int,
   core_id : Int, start_time : Int, last_scheduled_time : Int]

\* A non-empty set of natural numbers has a least element.
LEMMA LeastNatural ==
  ASSUME NEW T \in SUBSET Nat, T # {}
  PROVE  \E x \in T : \A y \in T : x <= y
<1> PICK n \in T : TRUE
  OBVIOUS
<1> DEFINE U == {0..x : x \in {z \in T : z <= n}}
           R == StrictSubsetOrdering(0..n)
<1>1. U \subseteq SUBSET (0..n) /\ 0..n \in U
  OBVIOUS
<1>2. IsWellFoundedOn(R, SUBSET (0..n))
  <2>1. IsFiniteSet(0..n)
    BY FS_Interval
  <2>2. FiniteSubsetsOf(0..n) = SUBSET (0..n)
    BY <2>1, FS_FiniteSubsetsOfFinite
  <2>3. IsWellFoundedOn(R, FiniteSubsetsOf(0..n))
    BY FS_StrictSubsetOrderingWellFounded
  <2> HIDE DEF R
  <2> QED BY <2>2, <2>3
<1>3. PICK u \in U : \A v \in U : <<v, u>> \notin R
  BY <1>1, <1>2, WFMin
<1>4. PICK x \in T : x <= n /\ u = 0..x
  OBVIOUS
<1>5. ASSUME NEW y \in T, y < x PROVE FALSE
  <2>1. 0..y \in U
    BY <1>4, <1>5
  <2>2. 0..y \subseteq 0..x /\ 0..y # 0..x
    <3>1. x \in 0..x /\ x \notin 0..y
      BY <1>5
    <3> QED BY <3>1, <1>5
  <2> QED BY <1>1, <1>3, <1>4, <2>1, <2>2 DEF StrictSubsetOrdering
<1> QED BY <1>5

-----------------------------------------------------------------------------
(* The comparers *)

\* a and b count the same to every comparer.
SameKey(a, b) ==
  /\ a.remaining_time = b.remaining_time
  /\ a.arrival_time = b.arrival_time
  /\ a.priority = b.priority

\* Every comparer is a total preorder of the structures.
LEMMA ComparerOrders ==
  ASSUME current_scheme \in Schemes,
         NEW a \in JobStruct, NEW b \in JobStruct, NEW c \in JobStruct
  PROVE  /\ comparer(a, b) \in Int
         /\ comparer(b, a) = -comparer(a, b)
         /\ comparer(a, a) = 0
         /\ comparer(a, b) <= 0 /\ comparer(b, c) <= 0 => comparer(a, c) <= 0
         /\ comparer(a, b) <= 0 /\ comparer(b, c) < 0 => comparer(a, c) < 0
         /\ comparer(a, b) < 0 /\ comparer(b, c) <= 0 => comparer(a, c) < 0
<1> USE DEF JobStruct
<1>1. CASE current_scheme \in {"FCFS", "RR"}
  BY <1>1 DEF comparer, compare_fcfs, compare_rr
<1>2. CASE current_scheme \in {"SJF", "PSJF"}
  BY <1>2 DEF comparer, compare_sjf
<1>3. CASE current_scheme \in {"PRI", "PPRI"}
  BY <1>3 DEF comparer, compare_pri
<1> QED BY <1>1, <1>2, <1>3 DEF Schemes

\* A comparer reads no field but those of the key.
LEMMA ComparerOfKeys ==
  ASSUME current_scheme \in Schemes,
         NEW a \in JobStruct, NEW b \in JobStruct, NEW c \in JobStruct, NEW d \in JobStruct,
         SameKey(a, c), SameKey(b, d)
  PROVE  comparer(a, b) = comparer(c, d)
<1> USE DEF JobStruct, SameKey
<1>1. CASE current_scheme \in {"FCFS", "RR"}
  BY <1>1 DEF comparer, compare_fcfs, compare_rr
<1>2. CASE current_scheme \in {"SJF", "PSJF"}
  BY <1>2 DEF comparer, compare_sjf
<1>3. CASE current_scheme \in {"PRI", "PPRI"}
  BY <1>3 DEF comparer, compare_pri
<1> QED BY <1>1, <1>2, <1>3 DEF Schemes

-----------------------------------------------------------------------------
(* The queue *)

\* What comes before the place, the item, and the rest.
Linked(q, x, i) == SubSeq(q, 1, i - 1) \o <<x>> \o SubSeq(q, i, Len(q))

\* The link of the new item moves the items behind it, and no other.
LEMMA LinkedItems ==
  ASSUME NEW S, NEW q \in Seq(S), NEW x \in S, NEW i \in 1..(Len(q) + 1)
  PROVE  /\ Linked(q, x, i) \in Seq(S)
         /\ Len(Linked(q, x, i)) = Len(q) + 1
         /\ \A k \in 1..(Len(q) + 1) :
              Linked(q, x, i)[k] = IF k < i THEN q[k] ELSE IF k = i THEN x ELSE q[k - 1]
<1> DEFINE r == Linked(q, x, i)
           a == SubSeq(q, 1, i - 1)
           b == SubSeq(q, i, Len(q))
           ax == a \o <<x>>
<1>1. /\ a \in Seq(S) /\ Len(a) = i - 1
      /\ \A k \in 1..(i - 1) : a[k] = q[k]
  OBVIOUS
<1>2. /\ b \in Seq(S) /\ Len(b) = Len(q) - i + 1
      /\ \A k \in 1..(Len(q) - i + 1) : b[k] = q[i + k - 1]
  OBVIOUS
<1>3. r = ax \o b
  BY DEF Linked
<1>0. Len(q) \in Nat /\ i \in Nat
  OBVIOUS
<1> HIDE DEF a, b, r
<1>4. <<x>> \in Seq(S) /\ Len(<<x>>) = 1 /\ <<x>>[1] = x
  OBVIOUS
<1>5. /\ ax \in Seq(S) /\ Len(ax) = i
      /\ \A k \in 1..i : ax[k] = IF k < i THEN q[k] ELSE x
  <2>1. /\ ax \in Seq(S) /\ Len(ax) = Len(a) + Len(<<x>>)
        /\ \A k \in 1..(Len(a) + Len(<<x>>)) :
             ax[k] = IF k <= Len(a) THEN a[k] ELSE <<x>>[k - Len(a)]
    BY <1>1, <1>4, ConcatProperties
  <2> HIDE DEF ax
  <2>2. ASSUME NEW k \in 1..i PROVE ax[k] = IF k < i THEN q[k] ELSE x
    BY <1>0, <1>1, <1>4, <2>1
  <2> QED BY <1>0, <1>1, <1>4, <2>1, <2>2
<1> HIDE DEF ax
<1>6. /\ ax \o b \in Seq(S) /\ Len(ax \o b) = Len(ax) + Len(b)
      /\ \A k \in 1..(Len(ax) + Len(b)) :
           (ax \o b)[k] = IF k <= Len(ax) THEN ax[k] ELSE b[k - Len(ax)]
  BY <1>2, <1>5, ConcatProperties
<1>7. ASSUME NEW k \in 1..(Len(q) + 1)
      PROVE  r[k] = IF k < i THEN q[k] ELSE IF k = i THEN x ELSE q[k - 1]
  <2>1. r[k] = IF k <= i THEN ax[k] ELSE b[k - i]
    BY <1>0, <1>2, <1>3, <1>5, <1>6
  <2>2. CASE k <= i
    BY <1>0, <1>5, <2>1, <2>2
  <2>3. CASE k > i
    <3>1. k - i \in 1..(Len(q) - i + 1)
      BY <1>0, <2>3
    <3> QED BY <1>0, <1>2, <2>1, <2>3, <3>1
  <2> QED BY <1>0, <2>2, <2>3
<1> QED BY <1>0, <1>2, <1>3, <1>5, <1>6, <1>7 DEF r

\* r is q with x linked at place i.
IsLinked(r, q, x, i) ==
  \A k \in 1..(Len(q) + 1) : r[k] = IF k < i THEN q[k] ELSE IF k = i THEN x ELSE q[k - 1]

\* offer puts the item at its place, between the others.
LEMMA OfferPlaces ==
  ASSUME NEW S, NEW q \in Seq(S), NEW x \in S, NEW before
  PROVE  /\ priqueue_offer(q, x, before) \in Seq(S)
         /\ Len(priqueue_offer(q, x, before)) = Len(q) + 1
         /\ \E i \in 1..(Len(q) + 1) :
              IsPlace(q, x, before, i) /\ IsLinked(priqueue_offer(q, x, before), q, x, i)
<1> DEFINE T == {k \in 1..(Len(q) + 1) : k <= Len(q) => <<x, q[k]>> \in before}
           r == priqueue_offer(q, x, before)
<1>1. \E k \in 1..(Len(q) + 1) : IsPlace(q, x, before, k)
  <2>1. T \in SUBSET Nat /\ Len(q) + 1 \in T
    OBVIOUS
  <2>2. PICK k \in T : \A l \in T : k <= l
    BY <2>1, LeastNatural
  <2>3. IsPlace(q, x, before, k)
    BY <2>2 DEF IsPlace
  <2> QED BY <2>3
<1>2. PICK i \in 1..(Len(q) + 1) : IsPlace(q, x, before, i) /\ r = Linked(q, x, i)
  BY <1>1 DEF priqueue_offer, Linked
<1> HIDE DEF T, r
<1>4. r \in Seq(S) /\ Len(r) = Len(q) + 1 /\ IsLinked(r, q, x, i)
  <2>1. Linked(q, x, i) \in Seq(S) /\ Len(Linked(q, x, i)) = Len(q) + 1
    BY LinkedItems
  <2>2. ASSUME NEW k \in 1..(Len(q) + 1)
        PROVE  Linked(q, x, i)[k] = IF k < i THEN q[k] ELSE IF k = i THEN x ELSE q[k - 1]
    BY LinkedItems
  <2>3. IsLinked(Linked(q, x, i), q, x, i)
    BY <2>2 DEF IsLinked
  <2> QED BY <1>2, <2>1, <2>3
<1>5. IsPlace(q, x, before, i) /\ IsLinked(r, q, x, i)
  BY <1>2, <1>4
<1> QED BY <1>4, <1>5 DEF r

-----------------------------------------------------------------------------
(* Where the jobs are *)

\* Every job of J is on one core of p or at one place of q, and nothing else is.
PlacedOnce(p, q, J) ==
  /\ \A c \in DOMAIN p : p[c] # NULL => p[c] \in J
  /\ \A c, d \in DOMAIN p : p[c] # NULL /\ p[c] = p[d] => c = d
  /\ q \in Seq(J)
  /\ \A k, l \in 1..Len(q) : q[k] = q[l] => k = l
  /\ \A j \in J : (\E c \in DOMAIN p : p[c] = j) <=> ~(\E k \in 1..Len(q) : q[k] = j)

\* A job that has no place is put on an idle core.
LEMMA PlaceOnCore ==
  ASSUME NEW J, NULL \notin J, NEW p, NEW q, NEW x \in J, NEW c \in DOMAIN p,
         p[c] = NULL, PlacedOnce(p, q, J \ {x})
  PROVE  PlacedOnce([p EXCEPT ![c] = x], q, J)
<1> DEFINE p1 == [p EXCEPT ![c] = x]
<1> USE DEF PlacedOnce
<1>1. /\ DOMAIN p1 = DOMAIN p /\ p1[c] = x
      /\ \A d \in DOMAIN p : d # c => p1[d] = p[d]
  OBVIOUS
<1> HIDE DEF p1
<1>2. q \in Seq(J)
  OBVIOUS
<1>3. \A k \in 1..Len(q) : q[k] \in J \ {x}
  OBVIOUS
<1>4. \A d \in DOMAIN p1 : p1[d] # NULL => p1[d] \in J
  BY <1>1
<1>5. \A d, e \in DOMAIN p1 : p1[d] # NULL /\ p1[d] = p1[e] => d = e
  BY <1>1
<1>6. ASSUME NEW j \in J
      PROVE  (\E d \in DOMAIN p1 : p1[d] = j) <=> ~(\E k \in 1..Len(q) : q[k] = j)
  <2>1. CASE j = x
    BY <1>1, <1>3, <2>1
  <2>2. CASE j # x
    <3>1. (\E d \in DOMAIN p1 : p1[d] = j) <=> (\E d \in DOMAIN p : p[d] = j)
      BY <1>1, <2>2
    <3> QED BY <2>2, <3>1
  <2> QED BY <2>1, <2>2
<1> QED BY <1>2, <1>4, <1>5, <1>6 DEF p1

\* The job on a core loses it and has no place.
LEMMA TakeOffCore ==
  ASSUME NEW J, NULL \notin J, NEW p, NEW q, NEW c \in DOMAIN p,
         p[c] # NULL, PlacedOnce(p, q, J)
  PROVE  PlacedOnce([p EXCEPT ![c] = NULL], q, J \ {p[c]})
<1> DEFINE p1 == [p EXCEPT ![c] = NULL]
           K == J \ {p[c]}
<1> USE DEF PlacedOnce
<1>1. /\ DOMAIN p1 = DOMAIN p /\ p1[c] = NULL
      /\ \A d \in DOMAIN p : d # c => p1[d] = p[d]
  OBVIOUS
<1> HIDE DEF p1
<1>2. \A k \in 1..Len(q) : q[k] \in J /\ q[k] # p[c]
  OBVIOUS
<1>3. q \in Seq(K)
  BY <1>2
<1>4. \A d \in DOMAIN p1 : p1[d] # NULL => p1[d] \in K
  BY <1>1
<1>5. \A d, e \in DOMAIN p1 : p1[d] # NULL /\ p1[d] = p1[e] => d = e
  BY <1>1
<1>6. \A j \in K : (\E d \in DOMAIN p1 : p1[d] = j) <=> (\E d \in DOMAIN p : p[d] = j)
  BY <1>1
<1> QED BY <1>3, <1>4, <1>5, <1>6 DEF p1

\* The head of the queue is polled and has no place.
LEMMA TakeHead ==
  ASSUME NEW J, NEW p, NEW q, q # <<>>, PlacedOnce(p, q, J)
  PROVE  Head(q) \in J /\ PlacedOnce(p, Tail(q), J \ {Head(q)})
<1> DEFINE x == Head(q)
           r == Tail(q)
           K == J \ {x}
<1> USE DEF PlacedOnce
<1>1. /\ Len(q) \in Nat \ {0} /\ x = q[1] /\ x \in J
      /\ r \in Seq(J) /\ Len(r) = Len(q) - 1
      /\ \A k \in 1..(Len(q) - 1) : r[k] = q[k + 1]
  OBVIOUS
<1> HIDE DEF r, x
<1>2. \A k \in 1..Len(r) : r[k] \in K
  BY <1>1
<1>3. r \in Seq(K)
  BY <1>1, <1>2
<1>4. ASSUME NEW k \in 1..Len(r), NEW l \in 1..Len(r), r[k] = r[l] PROVE k = l
  BY <1>1, <1>4
<1>5. \A c \in DOMAIN p : p[c] # NULL => p[c] \in K
  BY <1>1
<1>6. ASSUME NEW j \in K
      PROVE  (\E k \in 1..Len(r) : r[k] = j) <=> (\E k \in 1..Len(q) : q[k] = j)
  <2>1. ASSUME NEW k \in 1..Len(r) PROVE r[k] = q[k + 1] /\ k + 1 \in 1..Len(q)
    BY <1>1
  <2>2. ASSUME NEW k \in 1..Len(q), q[k] = j PROVE k - 1 \in 1..Len(r) /\ r[k - 1] = j
    BY <1>1, <2>2
  <2> QED BY <2>1, <2>2
<1> QED BY <1>1, <1>3, <1>4, <1>5, <1>6 DEF r, x

\* A job that has no place is offered to the queue.
LEMMA OfferToQueue ==
  ASSUME NEW J, NULL \notin J, NEW p, NEW q, NEW x \in J, NEW before,
         PlacedOnce(p, q, J \ {x})
  PROVE  PlacedOnce(p, priqueue_offer(q, x, before), J)
<1> DEFINE r == priqueue_offer(q, x, before)
<1>1. /\ q \in Seq(J) /\ Len(q) \in Nat
      /\ \A k \in 1..Len(q) : q[k] \in J \ {x}
      /\ \A k, l \in 1..Len(q) : q[k] = q[l] => k = l
  BY DEF PlacedOnce
<1>2. r \in Seq(J) /\ Len(r) = Len(q) + 1
  BY <1>1, OfferPlaces
<1>3. PICK i \in 1..(Len(q) + 1) :
        \A k \in 1..(Len(q) + 1) : r[k] = IF k < i THEN q[k] ELSE IF k = i THEN x ELSE q[k - 1]
  BY <1>1, OfferPlaces DEF IsLinked
<1> HIDE DEF r
<1>4. ASSUME NEW k \in 1..Len(r), NEW l \in 1..Len(r), r[k] = r[l] PROVE k = l
  <2> DEFINE at(m) == IF m < i THEN m ELSE m - 1
  <2>1. ASSUME NEW m \in 1..Len(r), m # i
        PROVE  at(m) \in 1..Len(q) /\ r[m] = q[at(m)] /\ r[m] # x
    BY <1>1, <1>2, <1>3, <2>1
  <2>2. r[i] = x
    BY <1>1, <1>2, <1>3
  <2>3. CASE k # i /\ l # i
    <3>1. at(k) = at(l)
      <4> HIDE DEF at
      <4> QED BY <1>1, <1>4, <2>1, <2>3
    <3> QED BY <1>1, <1>2, <2>3, <3>1
  <2>4. CASE k = i \/ l = i
    BY <1>4, <2>1, <2>2, <2>4
  <2> QED BY <2>3, <2>4
<1>5. ASSUME NEW j
      PROVE  (\E k \in 1..Len(r) : r[k] = j) <=> j = x \/ (\E k \in 1..Len(q) : q[k] = j)
  <2>1. r[i] = x /\ i \in 1..Len(r)
    BY <1>1, <1>2, <1>3
  <2>2. ASSUME NEW k \in 1..Len(r), k # i
        PROVE  \E l \in 1..Len(q) : r[k] = q[l]
    BY <1>1, <1>2, <1>3, <2>2
  <2>3. ASSUME NEW l \in 1..Len(q) PROVE \E k \in 1..Len(r) : r[k] = q[l]
    <3>1. CASE l < i
      BY <1>1, <1>2, <1>3, <3>1
    <3>2. CASE l >= i
      <4>1. l + 1 \in 1..Len(r) /\ r[l + 1] = q[l]
        BY <1>1, <1>2, <1>3, <3>2
      <4> QED BY <4>1
    <3> QED BY <1>1, <3>1, <3>2
  <2> QED BY <2>1, <2>2, <2>3
<1>6. \A c \in DOMAIN p : p[c] # NULL => p[c] \in J
  BY DEF PlacedOnce
<1>7. \A c, d \in DOMAIN p : p[c] # NULL /\ p[c] = p[d] => c = d
  BY DEF PlacedOnce
<1>8. ASSUME NEW j \in J
      PROVE  (\E c \in DOMAIN p : p[c] = j) <=> ~(\E k \in 1..Len(r) : r[k] = j)
  <2>1. CASE j = x
    <3>1. x # NULL => \A c \in DOMAIN p : p[c] # x
      BY DEF PlacedOnce
    <3> QED BY <1>5, <2>1, <3>1
  <2>2. CASE j # x
    BY <1>5, <2>2 DEF PlacedOnce
  <2> QED BY <2>1, <2>2
<1> QED BY <1>2, <1>4, <1>6, <1>7, <1>8 DEF PlacedOnce, r

\* The items of a queue after an offer are the items it had and the new one.
LEMMA OfferItems ==
  ASSUME NEW J, NEW q \in Seq(J), NEW x \in J, NEW before
  PROVE  \A k \in 1..Len(priqueue_offer(q, x, before)) :
           \/ priqueue_offer(q, x, before)[k] = x
           \/ \E l \in 1..Len(q) : priqueue_offer(q, x, before)[k] = q[l]
<1> DEFINE r == priqueue_offer(q, x, before)
<1>1. r \in Seq(J) /\ Len(r) = Len(q) + 1 /\ Len(q) \in Nat
  BY OfferPlaces
<1>2. PICK i \in 1..(Len(q) + 1) :
        \A k \in 1..(Len(q) + 1) : r[k] = IF k < i THEN q[k] ELSE IF k = i THEN x ELSE q[k - 1]
  <2>1. PICK i \in 1..(Len(q) + 1) : IsLinked(r, q, x, i)
    BY OfferPlaces
  <2> QED BY <2>1 DEF IsLinked
<1> HIDE DEF r
<1>3. ASSUME NEW k \in 1..Len(r), k # i PROVE \E l \in 1..Len(q) : r[k] = q[l]
  BY <1>1, <1>2, <1>3
<1>4. r[i] = x
  BY <1>1, <1>2
<1> QED BY <1>3, <1>4 DEF r

-----------------------------------------------------------------------------
(* The order of the jobs; N gives the structure of each at some moment *)

Sorted(q, N) ==
  \A k, l \in 1..Len(q) : k < l => comparer(N[q[k]], N[q[l]]) <= 0

\* No job of the queue comes before a job on a core.
NoneBefore(p, q, N) ==
  \A c \in DOMAIN p, k \in 1..Len(q) :
    p[c] # NULL => comparer(N[p[c]], N[q[k]]) <= 0

\* offer keeps the queue sorted, even when its comparer reads structures that
\* were changed since, as long as no key of a queued job was.
LEMMA OfferSorts ==
  ASSUME current_scheme \in Schemes,
         NEW J, NEW q \in Seq(J), NEW x \in J,
         NEW js \in [J -> JobStruct], NEW N \in [J -> JobStruct],
         SameKey(js[x], N[x]), \A k \in 1..Len(q) : SameKey(js[q[k]], N[q[k]]),
         Sorted(q, N)
  PROVE  Sorted(Offer(q, x, js), N)
<1> DEFINE before == {pair \in J \X J : comparer(js[pair[1]], js[pair[2]]) < 0}
           r == Offer(q, x, js)
           n == Len(q)
<1>1. r = priqueue_offer(q, x, before)
  BY DEF Offer
<1>2. r \in Seq(J) /\ Len(r) = n + 1 /\ n \in Nat
  BY <1>1, OfferPlaces
<1>3. PICK i \in 1..(n + 1) :
        /\ IsPlace(q, x, before, i)
        /\ \A k \in 1..(n + 1) : r[k] = IF k < i THEN q[k] ELSE IF k = i THEN x ELSE q[k - 1]
  <2> HIDE DEF before, r
  <2>1. \E i \in 1..(Len(q) + 1) :
          IsPlace(q, x, before, i) /\ IsLinked(priqueue_offer(q, x, before), q, x, i)
    BY OfferPlaces
  <2> QED BY <1>1, <2>1 DEF IsLinked
<1>4. ASSUME NEW k \in 1..n
      PROVE  /\ q[k] \in J
             /\ comparer(js[x], js[q[k]]) = comparer(N[x], N[q[k]])
             /\ <<x, q[k]>> \in before <=> comparer(N[x], N[q[k]]) < 0
  <2>1. q[k] \in J
    OBVIOUS
  <2>2. comparer(js[x], js[q[k]]) = comparer(N[x], N[q[k]])
    <3>1. SameKey(js[x], N[x]) /\ SameKey(js[q[k]], N[q[k]])
      OBVIOUS
    <3>2. js[x] \in JobStruct /\ js[q[k]] \in JobStruct /\ N[x] \in JobStruct /\ N[q[k]] \in JobStruct
      BY <2>1
    <3> QED BY <3>1, <3>2, ComparerOfKeys
  <2> QED BY <2>1, <2>2
<1>5. ASSUME NEW a \in J, NEW b \in J, NEW c \in J
      PROVE  /\ comparer(N[a], N[b]) \in Int
             /\ comparer(N[b], N[a]) = -comparer(N[a], N[b])
             /\ comparer(N[a], N[b]) <= 0 /\ comparer(N[b], N[c]) <= 0 => comparer(N[a], N[c]) <= 0
  <2>1. N[a] \in JobStruct /\ N[b] \in JobStruct /\ N[c] \in JobStruct
    OBVIOUS
  <2> QED BY <2>1, ComparerOrders
<1> HIDE DEF before, r, n
<1> DEFINE le(a, b) == comparer(N[a], N[b]) <= 0
<1>6. ASSUME NEW k \in 1..n, NEW l \in 1..n, k < l PROVE le(q[k], q[l])
  BY <1>6 DEF Sorted, n
\* What is in front of the place does not come after the new item.
<1>7. ASSUME NEW k \in 1..n, k < i PROVE le(q[k], x)
  <2>1. <<x, q[k]>> \notin before
    <3>1. k \in 1..(i - 1)
      BY <1>2, <1>7
    <3> QED BY <1>3, <3>1, Zenon DEF IsPlace
  <2>2. ~(comparer(N[x], N[q[k]]) < 0)
    BY <1>4, <2>1
  <2>3. /\ comparer(N[x], N[q[k]]) \in Int
        /\ comparer(N[q[k]], N[x]) = -comparer(N[x], N[q[k]])
    BY <1>4, <1>5
  <2> QED BY <2>2, <2>3
\* The new item comes before the item at its place, so before all behind it.
<1>8. ASSUME NEW k \in 1..n, k >= i PROVE le(x, q[k])
  <2>1. i \in 1..n
    BY <1>2, <1>8
  <2>2. <<x, q[i]>> \in before
    BY <1>3, <2>1 DEF IsPlace, n
  <2>3. comparer(N[x], N[q[i]]) < 0 /\ comparer(N[x], N[q[i]]) \in Int
    BY <1>4, <1>5, <2>1, <2>2
  <2>4. k = i \/ le(q[i], q[k])
    BY <1>2, <1>6, <1>8, <2>1
  <2>5. q[i] \in J /\ q[k] \in J
    BY <1>4, <2>1
  <2>6. le(x, q[i]) /\ le(q[i], q[k]) => le(x, q[k])
    BY <1>5, <2>5
  <2> QED BY <2>3, <2>4, <2>6
<1>9. ASSUME NEW k \in 1..Len(r), NEW l \in 1..Len(r), k < l PROVE le(r[k], r[l])
  <2>0. k \in Int /\ l \in Int /\ i \in Int /\ k >= 1 /\ l <= n + 1
    BY <1>2
  <2>1. CASE l < i
    <3>1. k \in 1..n /\ l \in 1..n /\ r[k] = q[k] /\ r[l] = q[l]
      BY <1>2, <1>3, <1>9, <2>0, <2>1
    <3> QED BY <1>6, <1>9, <3>1
  <2>2. CASE l = i
    <3>1. k \in 1..n /\ r[k] = q[k] /\ r[l] = x
      BY <1>2, <1>3, <1>9, <2>0, <2>2
    <3> QED BY <1>7, <1>9, <2>2, <3>1
  <2>3. CASE k < i /\ i < l
    <3>1. k \in 1..n /\ l - 1 \in 1..n /\ r[k] = q[k] /\ r[l] = q[l - 1]
      BY <1>2, <1>3, <2>0, <2>3
    <3>2. le(q[k], x) /\ le(x, q[l - 1])
      BY <1>2, <1>7, <1>8, <2>0, <2>3, <3>1
    <3> QED BY <1>4, <1>5, <3>1, <3>2
  <2>4. CASE k = i
    <3>1. l - 1 \in 1..n /\ r[k] = x /\ r[l] = q[l - 1] /\ l - 1 >= i
      BY <1>2, <1>3, <1>9, <2>0, <2>4
    <3> QED BY <1>8, <3>1
  <2>5. CASE k > i
    <3>1. k - 1 \in 1..n /\ l - 1 \in 1..n /\ r[k] = q[k - 1] /\ r[l] = q[l - 1] /\ k - 1 < l - 1
      BY <1>2, <1>3, <1>9, <2>0, <2>5
    <3> QED BY <1>6, <3>1
  <2> QED BY <1>9, <2>0, <2>1, <2>2, <2>3, <2>4, <2>5
<1> QED BY <1>9 DEF Sorted, r

\* A job offered while every running job is at least as good leaves it so.
LEMMA OfferBehind ==
  ASSUME NEW J, NEW q \in Seq(J), NEW x \in J, NEW js, DOMAIN js = J,
         NEW p, NEW N, NoneBefore(p, q, N),
         \A c \in DOMAIN p : p[c] # NULL => comparer(N[p[c]], N[x]) <= 0
  PROVE  NoneBefore(p, Offer(q, x, js), N)
<1> DEFINE r == Offer(q, x, js)
<1>1. \A k \in 1..Len(r) : r[k] = x \/ \E l \in 1..Len(q) : r[k] = q[l]
  <2> DEFINE before == {pair \in J \X J : comparer(js[pair[1]], js[pair[2]]) < 0}
  <2>1. r = priqueue_offer(q, x, before)
    BY DEF Offer
  <2> HIDE DEF before, r
  <2>2. \A k \in 1..Len(priqueue_offer(q, x, before)) :
           \/ priqueue_offer(q, x, before)[k] = x
           \/ \E l \in 1..Len(q) : priqueue_offer(q, x, before)[k] = q[l]
    BY OfferItems
  <2> QED BY <2>1, <2>2
<1> HIDE DEF r
<1> QED BY <1>1 DEF NoneBefore, r

\* When the head of the queue gets core c, no job that stays comes before it.
LEMMA HeadIsFirst ==
  ASSUME NEW J, NEW q \in Seq(J), q # <<>>, NEW N, Sorted(q, N),
         NEW p, NEW p1, NEW c, DOMAIN p1 = DOMAIN p, p1[c] = Head(q),
         \A d \in DOMAIN p \ {c} : p1[d] = p[d]
  PROVE  /\ Sorted(Tail(q), N)
         /\ NoneBefore(p, q, N) => NoneBefore(p1, Tail(q), N)
<1> DEFINE r == Tail(q)
<1>1. /\ Len(q) \in Nat \ {0} /\ Head(q) = q[1] /\ Len(r) = Len(q) - 1
      /\ \A k \in 1..Len(r) : r[k] = q[k + 1] /\ k + 1 \in 1..Len(q) /\ 1 \in 1..Len(q)
  OBVIOUS
<1> HIDE DEF r
<1>3. Sorted(r, N)
  <2>1. ASSUME NEW k \in 1..Len(r), NEW l \in 1..Len(r), k < l
        PROVE  comparer(N[r[k]], N[r[l]]) <= 0
    <3>1. r[k] = q[k + 1] /\ r[l] = q[l + 1] /\ k + 1 \in 1..Len(q) /\ l + 1 \in 1..Len(q) /\ k + 1 < l + 1
      BY <1>1, <2>1
    <3> QED BY <3>1 DEF Sorted
  <2> QED BY <2>1 DEF Sorted
<1>4. ASSUME NoneBefore(p, q, N), NEW d \in DOMAIN p1, p1[d] # NULL, NEW k \in 1..Len(r)
      PROVE  comparer(N[p1[d]], N[r[k]]) <= 0
  <2>1. r[k] = q[k + 1] /\ k + 1 \in 1..Len(q) /\ 1 \in 1..Len(q) /\ 1 < k + 1
    BY <1>1
  <2>2. CASE d = c
    BY <1>1, <2>1, <2>2 DEF Sorted
  <2>3. CASE d # c
    BY <1>4, <2>1, <2>3 DEF NoneBefore
  <2> QED BY <2>2, <2>3
<1> QED BY <1>3, <1>4 DEF NoneBefore, r

\* The order depends on the keys alone.
LEMMA KeysKeepOrder ==
  ASSUME current_scheme \in Schemes,
         NEW J, NEW p, NEW q, PlacedOnce(p, q, J),
         NEW N \in [J -> JobStruct], NEW M \in [J -> JobStruct],
         \A j \in J : SameKey(N[j], M[j])
  PROVE  /\ Sorted(q, N) => Sorted(q, M)
         /\ NoneBefore(p, q, N) => NoneBefore(p, q, M)
<1>1. \A k \in 1..Len(q) : q[k] \in J
  BY DEF PlacedOnce
<1>2. \A c \in DOMAIN p : p[c] # NULL => p[c] \in J
  BY DEF PlacedOnce
<1>3. ASSUME NEW a \in J, NEW b \in J
      PROVE  comparer(N[a], N[b]) = comparer(M[a], M[b])
  <2>1. N[a] \in JobStruct /\ N[b] \in JobStruct /\ M[a] \in JobStruct /\ M[b] \in JobStruct
    OBVIOUS
  <2>2. SameKey(N[a], M[a]) /\ SameKey(N[b], M[b])
    OBVIOUS
  <2> QED BY <2>1, <2>2, ComparerOfKeys
<1>4. ASSUME Sorted(q, N) PROVE Sorted(q, M)
  BY <1>1, <1>3, <1>4 DEF Sorted
<1>5. ASSUME NoneBefore(p, q, N) PROVE NoneBefore(p, q, M)
  BY <1>1, <1>2, <1>3, <1>5 DEF NoneBefore
<1> QED BY <1>4, <1>5

\* Among busy cores there is one with the worst job: the scan of
\* scheduler_new_job finds it.
LEMMA SomeWorstCore ==
  ASSUME current_scheme \in Schemes,
         NEW n \in Nat \ {0}, Cores = 0..(n - 1),
         NEW J, NEW N \in [J -> JobStruct],
         \A c \in Cores : core_job_ptrs[c] \in J
  PROVE  \E c \in Cores : WorstCore(N, c)
<1> DEFINE cmp(c, d) == comparer(N[core_job_ptrs[c]], N[core_job_ptrs[d]])
           Worst(c, m) == \A d \in (0..m) \ {c} : IF d < c THEN cmp(d, c) < 0 ELSE cmp(d, c) <= 0
           T == {m \in 0..(n - 1) : ~\E c \in 0..m : Worst(c, m)}
<1>1. ASSUME NEW a \in Cores, NEW b \in Cores, NEW c \in Cores
      PROVE  /\ cmp(a, b) \in Int /\ cmp(b, a) = -cmp(a, b)
             /\ cmp(a, b) <= 0 /\ cmp(b, c) < 0 => cmp(a, c) < 0
  <2>1. /\ N[core_job_ptrs[a]] \in JobStruct /\ N[core_job_ptrs[b]] \in JobStruct
        /\ N[core_job_ptrs[c]] \in JobStruct
    OBVIOUS
  <2> QED BY <2>1, ComparerOrders
<1> HIDE DEF cmp
<1>2. T = {}
  <2> SUFFICES ASSUME T # {} PROVE FALSE
    OBVIOUS
  <2>1. PICK m \in T : \A l \in T : m <= l
    <3>1. T \in SUBSET Nat
      OBVIOUS
    <3> QED BY <3>1, LeastNatural
  <2>2. m \in 0..(n - 1) /\ ~\E c \in 0..m : Worst(c, m)
    OBVIOUS
  <2>3. CASE m = 0
    <3>1. Worst(0, 0)
      OBVIOUS
    <3> QED BY <2>2, <2>3, <3>1
  <2>4. CASE m # 0
    <3>0. m - 1 \in 0..(n - 1) /\ ~(m <= m - 1)
      BY <2>2, <2>4
    <3>1. m - 1 \in 0..(n - 1) /\ m - 1 \notin T
      <4> HIDE DEF T
      <4> QED BY <2>1, <3>0
    <3>2. PICK c \in 0..(m - 1) : Worst(c, m - 1)
      BY <3>1
    <3>3. c \in Cores /\ m \in Cores /\ c < m
      BY <2>2, <2>4
    <3>4. CASE cmp(m, c) <= 0
      <4>1. Worst(c, m)
        <5> SUFFICES ASSUME NEW d \in (0..m) \ {c}
                     PROVE  IF d < c THEN cmp(d, c) < 0 ELSE cmp(d, c) <= 0
          OBVIOUS
        <5>1. CASE d = m
          BY <3>3, <3>4, <5>1
        <5>2. CASE d # m
          <6>1. d \in (0..(m - 1)) \ {c}
            BY <2>2, <2>4, <5>2
          <6> QED BY <3>2, <6>1
        <5> QED BY <5>1, <5>2
      <4> QED BY <2>2, <3>3, <4>1, SMTT(30)
    <3>5. CASE ~(cmp(m, c) <= 0)
      <4>0. cmp(m, c) \in Int /\ cmp(c, m) = -cmp(m, c)
        BY <1>1, <3>3
      <4>1. cmp(c, m) < 0
        BY <3>5, <4>0
      <4>2. Worst(m, m)
        <5> SUFFICES ASSUME NEW d \in (0..m) \ {m}
                     PROVE  IF d < m THEN cmp(d, m) < 0 ELSE cmp(d, m) <= 0
          OBVIOUS
        <5>0. d \in 0..(m - 1) /\ d < m /\ d \in Cores
          BY <2>2, <2>4
        <5>1. CASE d = c
          BY <4>1, <5>0, <5>1
        <5>2. CASE d # c
          <6>1. cmp(d, c) < 0 \/ cmp(d, c) <= 0
            BY <3>2, <5>0, <5>2
          <6>2. cmp(d, c) \in Int
            BY <1>1, <3>3, <5>0
          <6>3. cmp(d, c) <= 0
            BY <6>1, <6>2
          <6> QED BY <1>1, <3>3, <4>1, <5>0, <6>3
        <5> QED BY <5>1, <5>2
      <4> QED BY <2>2, <4>2
    <3> QED BY <3>4, <3>5
  <2> QED BY <2>3, <2>4
<1>3. PICK c \in 0..(n - 1) : Worst(c, n - 1)
  <2>1. n - 1 \in 0..(n - 1)
    OBVIOUS
  <2> QED BY <1>2, <2>1
<1> QED BY <1>3 DEF WorstCore, cmp

-----------------------------------------------------------------------------
(* The structures *)

\* A structure charged with the time since it was last placed or charged.
Aged(jb, t) ==
  [jb EXCEPT !.remaining_time = @ - (t - jb.last_scheduled_time), !.last_scheduled_time = t]

\* The structures as an update at time t would leave them.
Now(p, js, t) ==
  [j \in DOMAIN js |-> IF \E c \in DOMAIN p : p[c] = j THEN Aged(js[j], t) ELSE js[j]]

\* Now is what update_remaining_times computes.
LEMMA NowIsUpdated ==
  UpdatedTimes(time) = Now(core_job_ptrs, job, time)
BY DEF UpdatedTimes, Now, Charged, Aged, Cores

\* Charging a structure keeps it one; a charge of no time changes no key.
LEMMA AgedStruct ==
  ASSUME NEW jb \in JobStruct, NEW t \in Int
  PROVE  /\ Aged(jb, t) \in JobStruct
         /\ Aged(jb, t).last_scheduled_time = t
         /\ jb.last_scheduled_time = t => SameKey(Aged(jb, t), jb)
<1> DEFINE d == jb.remaining_time - (t - jb.last_scheduled_time)
<1>0. d \in Int
  BY DEF JobStruct
<1>1. Aged(jb, t) \in JobStruct
  <2>1. Aged(jb, t) = [jb EXCEPT !.remaining_time = d, !.last_scheduled_time = t]
    BY DEF Aged
  <2> HIDE DEF d
  <2> QED BY <1>0, <2>1 DEF JobStruct
<1>2. Aged(jb, t).last_scheduled_time = t
  BY DEF JobStruct, Aged
<1>3. ASSUME jb.last_scheduled_time = t PROVE SameKey(Aged(jb, t), jb)
  <2>1. jb.remaining_time - (t - jb.last_scheduled_time) = jb.remaining_time
    BY <1>3 DEF JobStruct
  <2> QED BY <2>1 DEF JobStruct, Aged, SameKey
<1> QED BY <1>1, <1>2, <1>3

\* place_job_on_core changes no key.
LEMMA PlacedStruct ==
  ASSUME NEW jb \in JobStruct, NEW c \in Int, NEW t \in Int
  PROVE  /\ Placed(jb, c, t) \in JobStruct
         /\ Placed(jb, c, t).last_scheduled_time = t
         /\ SameKey(Placed(jb, c, t), jb)
BY DEF JobStruct, Placed, SameKey

\* Structures stay structures when they are charged.
LEMMA NowStruct ==
  ASSUME NEW p, NEW js, NEW t \in Int, js \in [DOMAIN js -> JobStruct]
  PROVE  Now(p, js, t) \in [DOMAIN js -> JobStruct]
<1>1. \A j \in DOMAIN js : js[j] \in JobStruct /\ Aged(js[j], t) \in JobStruct
  BY AgedStruct
<1> QED BY <1>1 DEF Now

\* To count the same is an equivalence.
LEMMA SameKeyIsEquivalence ==
  \A a, b, c : /\ SameKey(a, a)
               /\ SameKey(a, b) => SameKey(b, a)
               /\ SameKey(a, b) /\ SameKey(b, c) => SameKey(a, c)
BY DEF SameKey

-----------------------------------------------------------------------------
(* The scheduler's invariant *)

SchedTypeOK ==
  /\ current_scheme \in Schemes
  /\ \E w \in Workloads : Cores = 0..(w.cores - 1)
  /\ core_job_ptrs \in [Cores -> JobIds \cup {NULL}]
  /\ DOMAIN job \subseteq JobIds
  /\ job \in [DOMAIN job -> JobStruct]
  /\ job_queue \in Seq(JobIds)
  /\ time \in Nat

BusyIfWaiting == job_queue # <<>> => AllBusy

\* Under a preemptive scheme the order of queue and cores is right at every
\* moment, not just when a time unit runs.
SchedInv ==
  /\ SchedTypeOK
  /\ PlacedOnce(core_job_ptrs, job_queue, DOMAIN job)
  /\ BusyIfWaiting
  /\ Sorted(job_queue, Now(core_job_ptrs, job, time))
  /\ current_scheme \in {"PSJF", "PPRI"} =>
       NoneBefore(core_job_ptrs, job_queue, Now(core_job_ptrs, job, time))

\* What a function leaves satisfies the invariant if the jobs have their places
\* and the order is right by structures M of the same keys.
LEMMA SchedInvReached ==
  ASSUME SchedTypeOK, UNCHANGED <<current_scheme, time>>,
         core_job_ptrs' \in [Cores -> JobIds \cup {NULL}],
         DOMAIN job' \subseteq JobIds,
         job' \in [DOMAIN job' -> JobStruct],
         PlacedOnce(core_job_ptrs', job_queue', DOMAIN job'),
         job_queue' # <<>> => \A c \in Cores : core_job_ptrs'[c] # NULL,
         NEW M \in [DOMAIN job' -> JobStruct],
         \A j \in DOMAIN job' : SameKey(M[j], Now(core_job_ptrs', job', time)[j]),
         Sorted(job_queue', M),
         current_scheme \in {"PSJF", "PPRI"} => NoneBefore(core_job_ptrs', job_queue', M)
  PROVE  SchedInv'
<1> DEFINE N == Now(core_job_ptrs', job', time)
<1>1. Cores' = Cores
  BY DEF Cores
<1>2. job_queue' \in Seq(JobIds)
  BY DEF PlacedOnce
<1>3. SchedTypeOK'
  BY <1>1, <1>2 DEF SchedTypeOK
<1>4. BusyIfWaiting'
  BY <1>1 DEF BusyIfWaiting, AllBusy
<1>5. N \in [DOMAIN job' -> JobStruct]
  BY NowStruct DEF SchedTypeOK
<1>6. /\ Sorted(job_queue', N)
      /\ current_scheme \in {"PSJF", "PPRI"} => NoneBefore(core_job_ptrs', job_queue', N)
  <2>1. \A j \in DOMAIN job' : SameKey(M[j], N[j])
    OBVIOUS
  <2>2. current_scheme \in Schemes
    BY DEF SchedTypeOK
  <2> HIDE DEF N
  <2> QED BY <1>5, <2>1, <2>2, KeysKeepOrder
<1>7. ASSUME NEW a, NEW b PROVE comparer(a, b)' = comparer(a, b)
  BY DEF comparer
<1>8. Sorted(job_queue, Now(core_job_ptrs, job, time))'
  BY <1>6, <1>7 DEF Sorted
<1>9. (current_scheme \in {"PSJF", "PPRI"} =>
         NoneBefore(core_job_ptrs, job_queue, Now(core_job_ptrs, job, time)))'
  BY <1>6, <1>7 DEF NoneBefore
<1>10. PlacedOnce(core_job_ptrs, job_queue, DOMAIN job)'
  OBVIOUS
<1> QED BY <1>3, <1>4, <1>8, <1>9, <1>10 DEF SchedInv

-----------------------------------------------------------------------------
(* The functions of the scheduler *)

\* priqueue_poll and the placing of what it returns, on a core c that was given
\* up: the invariant holds, and no key changes.
LEMMA DispatchKeeps ==
  ASSUME SchedTypeOK, UNCHANGED <<current_scheme, time>>,
         NEW c \in Cores, NEW p, p = [core_job_ptrs EXCEPT ![c] = NULL],
         NEW J \in SUBSET JobIds, NEW js \in [J -> JobStruct], NEW M \in [J -> JobStruct],
         NEW q,
         \A j \in J : SameKey(M[j], Now(p, js, time)[j]),
         PlacedOnce(p, q, J),
         Len(q) > 1 => \A d \in Cores \ {c} : core_job_ptrs[d] # NULL,
         Sorted(q, M),
         current_scheme \in {"PSJF", "PPRI"} => NoneBefore(p, q, M),
         NEW answer, Dispatch(c, time, q, js, answer)
  PROVE  /\ SchedInv'
         /\ DOMAIN job' = J
         /\ core_job_ptrs' = [core_job_ptrs EXCEPT ![c] = answer]
         /\ answer = NULL \/ answer \in J
         /\ \A j \in J : SameKey(M[j], Now(core_job_ptrs', job', time)[j])
<1> DEFINE p1 == core_job_ptrs'
           N1 == Now(core_job_ptrs', job', time)
<1>0. /\ NULL \notin JobIds /\ NULL \notin J
      /\ Cores \subseteq Int /\ time \in Int
      /\ core_job_ptrs \in [Cores -> JobIds \cup {NULL}]
  BY NullAssumption DEF SchedTypeOK, WorkloadsAssumption
<1>1. p \in [Cores -> JobIds \cup {NULL}] /\ p[c] = NULL /\ \A d \in Cores \ {c} : p[d] = core_job_ptrs[d]
  BY <1>0
<1>2. p1 = [core_job_ptrs EXCEPT ![c] = answer] /\ p1 = [p EXCEPT ![c] = answer]
  BY <1>0 DEF Dispatch
<1>3. CASE q = <<>>
  <2>1. answer = NULL /\ job_queue' = q /\ job' = js
    BY <1>3 DEF Dispatch, priqueue_peek, priqueue_poll
  <2>2. p1 = p
    BY <1>2, <2>1
  <2>3. SchedInv'
    BY <1>1, <1>3, <2>1, <2>2, SchedInvReached
  <2> QED BY <1>2, <2>1, <2>2, <2>3
<1>4. CASE q # <<>>
  <2>1. answer = Head(q) /\ job_queue' = Tail(q)
    BY <1>4 DEF Dispatch, priqueue_peek, priqueue_poll
  <2>2. answer \in J /\ PlacedOnce(p, Tail(q), J \ {answer}) /\ q \in Seq(J)
    <3>1. q \in Seq(J)
      BY DEF PlacedOnce
    <3>2. Head(q) \in J /\ PlacedOnce(p, Tail(q), J \ {Head(q)})
      BY <1>4, TakeHead
    <3> QED BY <2>1, <3>1, <3>2
  <2>3. answer # NULL /\ job' = [js EXCEPT ![answer] = Placed(js[answer], c, time)]
    BY <1>0, <2>2 DEF Dispatch
  <2>4. /\ Placed(js[answer], c, time) \in JobStruct
        /\ Placed(js[answer], c, time).last_scheduled_time = time
        /\ SameKey(Placed(js[answer], c, time), js[answer])
    BY <1>0, <2>2, PlacedStruct
  <2>5. DOMAIN job' = J /\ job' \in [J -> JobStruct]
    BY <2>2, <2>3, <2>4
  <2>6. PlacedOnce(p1, Tail(q), J)
    <3> HIDE DEF p1
    <3>1. c \in DOMAIN p
      BY <1>1
    <3> QED BY <1>0, <1>1, <1>2, <2>2, <3>1, PlaceOnCore
  <2>7. p1 \in [Cores -> JobIds \cup {NULL}] /\ p1[c] = answer
        /\ \A d \in Cores \ {c} : p1[d] = p[d]
    BY <1>1, <1>2, <2>2
  <2>8. ASSUME NEW j \in J PROVE SameKey(M[j], N1[j])
    <3>0. /\ N1[j] = IF \E d \in Cores : p1[d] = j THEN Aged(job'[j], time) ELSE job'[j]
          /\ Now(p, js, time)[j] = IF \E d \in Cores : p[d] = j THEN Aged(js[j], time) ELSE js[j]
      BY <1>1, <2>5, <2>7 DEF Now
    <3>1. CASE j = answer
      <4>1. ~\E d \in Cores : p[d] = j
        BY <1>0, <1>1, <2>2, <3>1 DEF PlacedOnce
      <4>2. N1[j] = Aged(job'[j], time) /\ Now(p, js, time)[j] = js[j]
        BY <2>7, <3>0, <3>1, <4>1
      <4>3. /\ job'[j] \in JobStruct /\ job'[j].last_scheduled_time = time
            /\ SameKey(job'[j], js[j])
        BY <2>2, <2>3, <2>4, <3>1
      <4>4. SameKey(Aged(job'[j], time), job'[j])
        BY <1>0, <4>3, AgedStruct
      <4> QED BY <4>2, <4>3, <4>4, SameKeyIsEquivalence
    <3>2. CASE j # answer
      <4>1. job'[j] = js[j]
        BY <2>3, <3>2
      <4>2. (\E d \in Cores : p1[d] = j) <=> (\E d \in Cores : p[d] = j)
        BY <1>0, <1>1, <2>7, <3>2
      <4> QED BY <3>0, <4>1, <4>2
    <3> QED BY <3>1, <3>2
  <2>9. Sorted(Tail(q), M) /\ (NoneBefore(p, q, M) => NoneBefore(p1, Tail(q), M))
    <3>1. DOMAIN p1 = DOMAIN p /\ p1[c] = Head(q) /\ \A d \in DOMAIN p \ {c} : p1[d] = p[d]
      BY <1>1, <2>1, <2>7
    <3> HIDE DEF p1
    <3> QED BY <1>4, <2>2, <3>1, HeadIsFirst
  <2>10. Tail(q) # <<>> => \A d \in Cores : p1[d] # NULL
    <3>1. Tail(q) # <<>> => Len(q) > 1
      BY <1>4, <2>2
    <3> QED BY <1>1, <2>3, <2>7, <3>1
  <2>11. SchedInv'
    BY <2>1, <2>5, <2>6, <2>7, <2>8, <2>9, <2>10, SchedInvReached
  <2> QED BY <1>2, <2>2, <2>5, <2>8, <2>11
<1> QED BY <1>3, <1>4

\* A queued job is on no core, so an update leaves its structure as it is.
LEMMA QueuedIsCurrent ==
  ASSUME NEW p, NEW js, NEW q, NEW t, PlacedOnce(p, q, DOMAIN js)
  PROVE  \A k \in 1..Len(q) : q[k] \in DOMAIN js /\ Now(p, js, t)[q[k]] = js[q[k]]
BY DEF PlacedOnce, Now

\* scheduler_job_finished keeps the invariant: the job is gone, its core goes
\* to the head of the queue, and no key of another job changes.
LEMMA FinishedKeeps ==
  ASSUME SchedInv, UNCHANGED time,
         NEW c \in Cores, core_job_ptrs[c] # NULL,
         NEW answer, scheduler_job_finished(c, time, answer)
  PROVE  /\ SchedInv'
         /\ DOMAIN job' = DOMAIN job \ {core_job_ptrs[c]}
         /\ core_job_ptrs' = [core_job_ptrs EXCEPT ![c] = answer]
         /\ answer = NULL \/ answer \in DOMAIN job'
         /\ \A j \in DOMAIN job' :
              SameKey(Now(core_job_ptrs, job, time)[j], Now(core_job_ptrs', job', time)[j])
<1> DEFINE f == core_job_ptrs[c]
           J == DOMAIN job \ {f}
           p == [core_job_ptrs EXCEPT ![c] = NULL]
           js == [j \in J |-> job[j]]
           N == Now(core_job_ptrs, job, time)
           M == [j \in J |-> N[j]]
<1>0. /\ NULL \notin JobIds /\ NULL \notin DOMAIN job /\ NULL \notin J
      /\ core_job_ptrs \in [Cores -> JobIds \cup {NULL}] /\ time \in Int
      /\ job \in [DOMAIN job -> JobStruct] /\ DOMAIN job \subseteq JobIds
  BY NullAssumption DEF SchedInv, SchedTypeOK
<1>1. Dispatch(c, time, job_queue, js, answer) /\ UNCHANGED current_scheme
  BY DEF scheduler_job_finished
<1>2. N \in [DOMAIN job -> JobStruct]
  BY <1>0, NowStruct
<1>3. DOMAIN js = J /\ js \in [J -> JobStruct] /\ M \in [J -> JobStruct]
  BY <1>0, <1>2
<1>4. PlacedOnce(p, job_queue, J)
  BY <1>0, TakeOffCore DEF SchedInv
<1>5. /\ DOMAIN p = Cores /\ p[c] = NULL
      /\ \A d \in Cores : d # c => p[d] = core_job_ptrs[d]
  BY <1>0
<1>6. ASSUME NEW j \in J PROVE Now(p, js, time)[j] = N[j]
  <2>1. (\E d \in Cores : p[d] = j) <=> (\E d \in Cores : core_job_ptrs[d] = j)
    BY <1>0, <1>5
  <2> QED BY <1>0, <1>3, <1>5, <2>1 DEF Now
<1>7. \A k \in 1..Len(job_queue) : job_queue[k] \in J /\ N[job_queue[k]] = M[job_queue[k]]
  BY <1>4 DEF PlacedOnce
<1>8. Sorted(job_queue, M)
  BY <1>7 DEF Sorted, SchedInv
<1>9. current_scheme \in {"PSJF", "PPRI"} => NoneBefore(p, job_queue, M)
  <2>1. \A d \in Cores : p[d] # NULL => p[d] \in J /\ p[d] = core_job_ptrs[d] /\ M[p[d]] = N[core_job_ptrs[d]]
    BY <1>4, <1>5 DEF PlacedOnce
  <2> QED BY <1>0, <1>5, <1>7, <2>1 DEF NoneBefore, SchedInv
<1>10. Len(job_queue) > 1 => \A d \in Cores \ {c} : core_job_ptrs[d] # NULL
  BY DEF SchedInv, SchedTypeOK, BusyIfWaiting, AllBusy
<1>11. \A j \in J : SameKey(M[j], Now(p, js, time)[j]) /\ M[j] = N[j]
  BY <1>6, SameKeyIsEquivalence
<1>12. SchedTypeOK
  BY DEF SchedInv
<1> HIDE DEF p, js, M, N, J
<1>13. p = [core_job_ptrs EXCEPT ![c] = NULL]
  BY DEF p
<1>14. J \subseteq JobIds
  BY <1>0 DEF J
<1>15. /\ SchedInv'
       /\ DOMAIN job' = J
       /\ core_job_ptrs' = [core_job_ptrs EXCEPT ![c] = answer]
       /\ answer = NULL \/ answer \in J
       /\ \A j \in J : SameKey(M[j], Now(core_job_ptrs', job', time)[j])
  BY <1>1, <1>3, <1>4, <1>8, <1>9, <1>10, <1>11, <1>12, <1>13, <1>14, DispatchKeeps
<1> QED BY <1>11, <1>15 DEF J, N

\* scheduler_quantum_expired keeps the invariant: the job goes to its place in
\* the queue, the core to the head of the queue, and no key changes.
LEMMA ExpiredKeeps ==
  ASSUME SchedInv, UNCHANGED time, current_scheme = "RR",
         NEW c \in Cores, core_job_ptrs[c] # NULL,
         NEW answer, scheduler_quantum_expired(c, time, answer)
  PROVE  /\ SchedInv'
         /\ DOMAIN job' = DOMAIN job
         /\ core_job_ptrs' = [core_job_ptrs EXCEPT ![c] = answer]
         /\ answer = NULL \/ answer \in DOMAIN job
         /\ \A j \in DOMAIN job :
              SameKey(Now(core_job_ptrs, job, time)[j], Now(core_job_ptrs', job', time)[j])
<1> DEFINE e == core_job_ptrs[c]
           J == DOMAIN job
           p == [core_job_ptrs EXCEPT ![c] = NULL]
           je == [Charged(e, time) EXCEPT !.core_id = -1]
           js == [job EXCEPT ![e] = je]
           N == Now(core_job_ptrs, job, time)
           q == Offer(job_queue, e, js)
<1>0. /\ NULL \notin JobIds /\ NULL \notin J /\ J \subseteq JobIds
      /\ core_job_ptrs \in [Cores -> JobIds \cup {NULL}] /\ time \in Int
      /\ job \in [J -> JobStruct] /\ current_scheme \in Schemes
  BY NullAssumption DEF SchedInv, SchedTypeOK
<1>1. Dispatch(c, time, q, js, answer) /\ UNCHANGED current_scheme
  BY DEF scheduler_quantum_expired
<1>2. N \in [J -> JobStruct]
  BY <1>0, NowStruct
<1>3. PlacedOnce(core_job_ptrs, job_queue, J) /\ e \in J
  <2>1. PlacedOnce(core_job_ptrs, job_queue, J)
    BY DEF SchedInv
  <2> QED BY <2>1 DEF PlacedOnce, Cores
<1>4. N[e] = Aged(job[e], time) /\ Aged(job[e], time) \in JobStruct /\ je = [Aged(job[e], time) EXCEPT !.core_id = -1]
  BY <1>0, <1>3, AgedStruct DEF Now, Charged, Aged
<1>5. je \in JobStruct /\ SameKey(je, N[e])
  <2> HIDE DEF N, je
  <2> QED BY <1>4 DEF JobStruct, SameKey
<1>6. DOMAIN js = J /\ js \in [J -> JobStruct] /\ js[e] = je /\ \A j \in J \ {e} : js[j] = job[j]
  BY <1>0, <1>3, <1>5
<1>7. /\ DOMAIN p = Cores /\ p[c] = NULL
      /\ \A d \in Cores : d # c => p[d] = core_job_ptrs[d]
  BY <1>0
<1> HIDE DEF je, js, J
<1>8. PlacedOnce(p, job_queue, J \ {e})
  BY <1>0, <1>3, TakeOffCore
<1>9. ASSUME NEW j \in J PROVE SameKey(N[j], Now(p, js, time)[j])
  <2>0. /\ N[j] = IF \E d \in Cores : core_job_ptrs[d] = j THEN Aged(job[j], time) ELSE job[j]
        /\ Now(p, js, time)[j] = IF \E d \in Cores : p[d] = j THEN Aged(js[j], time) ELSE js[j]
    BY <1>6, <1>7 DEF Now, J, Cores
  <2>1. CASE j = e
    <3>1. ~\E d \in Cores : p[d] = j
      BY <1>0, <1>7, <1>8, <2>1 DEF PlacedOnce
    <3> QED BY <1>5, <1>6, <2>0, <2>1, <3>1, SameKeyIsEquivalence
  <2>2. CASE j # e
    <3>1. (\E d \in Cores : p[d] = j) <=> (\E d \in Cores : core_job_ptrs[d] = j)
      BY <1>0, <1>7, <2>2
    <3> QED BY <1>6, <2>0, <2>2, <3>1, SameKeyIsEquivalence
  <2> QED BY <2>1, <2>2
<1>10. \A k \in 1..Len(job_queue) :
         job_queue[k] \in J \ {e} /\ SameKey(js[job_queue[k]], N[job_queue[k]])
  <2>1. \A k \in 1..Len(job_queue) : job_queue[k] \in J \ {e}
    BY <1>8 DEF PlacedOnce
  <2>2. \A k \in 1..Len(job_queue) : N[job_queue[k]] = job[job_queue[k]]
    BY <1>3, QueuedIsCurrent DEF J
  <2> QED BY <1>6, <2>1, <2>2, SameKeyIsEquivalence
<1>11. Sorted(job_queue, N)
  BY DEF SchedInv
<1>12. job_queue \in Seq(J)
  BY <1>3 DEF PlacedOnce
<1> HIDE DEF N
<1>13. Sorted(q, N)
  BY <1>0, <1>2, <1>3, <1>5, <1>6, <1>10, <1>11, <1>12, OfferSorts
<1>14. PlacedOnce(p, q, J)
  BY <1>0, <1>3, <1>8, OfferToQueue DEF Offer
<1>15. Len(q) = Len(job_queue) + 1 /\ Len(job_queue) \in Nat
  BY <1>3, <1>12, OfferPlaces DEF Offer
<1>16. Len(q) > 1 => \A d \in Cores \ {c} : core_job_ptrs[d] # NULL
  <2>1. Len(q) > 1 => job_queue # <<>>
    BY <1>12, <1>15
  <2> QED BY <2>1 DEF SchedInv, BusyIfWaiting, AllBusy
<1>17. SchedTypeOK
  BY DEF SchedInv
<1> HIDE DEF p, q
<1>18. p = [core_job_ptrs EXCEPT ![c] = NULL]
  BY DEF p
<1>19. current_scheme \notin {"PSJF", "PPRI"} /\ J \in SUBSET JobIds
  BY <1>0
<1>20. /\ SchedInv'
       /\ DOMAIN job' = J
       /\ core_job_ptrs' = [core_job_ptrs EXCEPT ![c] = answer]
       /\ answer = NULL \/ answer \in J
       /\ \A j \in J : SameKey(N[j], Now(core_job_ptrs', job', time)[j])
  BY <1>1, <1>2, <1>6, <1>9, <1>13, <1>14, <1>16, <1>17, <1>18, <1>19, DispatchKeeps
<1> QED BY <1>20 DEF J, N

\* The structures js of the jobs J, which job j has joined, are charged to the
\* present, and in the order of queue and cores.
UpToDate(js, J, j, running) ==
  /\ J \in SUBSET JobIds /\ js \in [J -> JobStruct]
  /\ \A k \in DOMAIN job : js[k] = Now(core_job_ptrs, job, time)[k]
  /\ js[j] \in JobStruct /\ js[j].remaining_time = running
  /\ Sorted(job_queue, js)
  /\ current_scheme \in {"PSJF", "PPRI"} => NoneBefore(core_job_ptrs, job_queue, js)
  /\ \A c \in Cores : core_job_ptrs[c] # NULL => js[core_job_ptrs[c]].last_scheduled_time = time

\* The structures of which the three ways a new job can go start.
LEMMA NewJobStructs ==
  ASSUME SchedInv, UNCHANGED time,
         NEW j \in JobIds \ DOMAIN job, NEW running \in Int, NEW priority \in Int,
         NEW J, J = DOMAIN job \cup {j},
         NEW js, js = WithNewJob(j, time, running, priority)
  PROVE  UpToDate(js, J, j, running)
<1> DEFINE N == Now(core_job_ptrs, job, time)
<1>0. /\ time \in Int /\ DOMAIN job \subseteq JobIds /\ job \in [DOMAIN job -> JobStruct]
      /\ PlacedOnce(core_job_ptrs, job_queue, DOMAIN job)
  BY DEF SchedInv, SchedTypeOK
<1>1. N \in [DOMAIN job -> JobStruct]
  BY <1>0, NowStruct
<1>2. NewJob(time, running, priority) \in JobStruct
      /\ NewJob(time, running, priority).remaining_time = running
  BY <1>0 DEF NewJob, JobStruct
<1>3. js = [k \in J |-> IF k = j THEN NewJob(time, running, priority) ELSE N[k]]
  BY NowIsUpdated DEF WithNewJob
<1>4. \A c \in Cores : core_job_ptrs[c] # NULL => core_job_ptrs[c] \in DOMAIN job
  BY <1>0 DEF PlacedOnce, Cores
<1>5. \A c \in Cores : core_job_ptrs[c] # NULL => N[core_job_ptrs[c]].last_scheduled_time = time
  <2> SUFFICES ASSUME NEW c \in Cores, core_job_ptrs[c] # NULL
               PROVE  N[core_job_ptrs[c]].last_scheduled_time = time
    OBVIOUS
  <2>1. N[core_job_ptrs[c]] = Aged(job[core_job_ptrs[c]], time)
    BY <1>4 DEF Now, Cores
  <2>2. job[core_job_ptrs[c]] \in JobStruct
    BY <1>0, <1>4
  <2> QED BY <1>0, <2>1, <2>2, AgedStruct
<1> HIDE DEF N
<1>6. /\ J \in SUBSET JobIds /\ js \in [J -> JobStruct]
      /\ js[j] = NewJob(time, running, priority) /\ \A k \in DOMAIN job : js[k] = N[k]
  BY <1>0, <1>1, <1>2, <1>3
<1>7. \A k \in 1..Len(job_queue) : js[job_queue[k]] = N[job_queue[k]]
  BY <1>0, <1>6 DEF PlacedOnce
<1>8. Sorted(job_queue, N) /\ (current_scheme \in {"PSJF", "PPRI"} => NoneBefore(core_job_ptrs, job_queue, N))
  BY DEF SchedInv, N
<1>9. Sorted(job_queue, js)
  BY <1>7, <1>8 DEF Sorted
<1>10. current_scheme \in {"PSJF", "PPRI"} => NoneBefore(core_job_ptrs, job_queue, js)
  BY <1>4, <1>6, <1>7, <1>8 DEF NoneBefore, Cores
<1> QED BY <1>2, <1>4, <1>5, <1>6, <1>9, <1>10 DEF N, UpToDate

\* The keys after the call are those of the structures js.
LEMMA NewJobReached ==
  ASSUME SchedInv, UNCHANGED <<current_scheme, time>>,
         NEW J \in SUBSET JobIds, NEW js \in [J -> JobStruct],
         core_job_ptrs' \in [Cores -> JobIds \cup {NULL}],
         job' \in [J -> JobStruct],
         \A k \in J : SameKey(job'[k], js[k]),
         \A c \in Cores : core_job_ptrs'[c] # NULL =>
                            job'[core_job_ptrs'[c]].last_scheduled_time = time,
         PlacedOnce(core_job_ptrs', job_queue', J),
         job_queue' # <<>> => \A c \in Cores : core_job_ptrs'[c] # NULL,
         Sorted(job_queue', js),
         current_scheme \in {"PSJF", "PPRI"} => NoneBefore(core_job_ptrs', job_queue', js)
  PROVE  /\ SchedInv'
         /\ \A k \in J : SameKey(js[k], Now(core_job_ptrs', job', time)[k])
<1> DEFINE N1 == Now(core_job_ptrs', job', time)
<1>0. SchedTypeOK /\ time \in Int /\ NULL \notin J
  BY NullAssumption DEF SchedInv, SchedTypeOK
<1>1. ASSUME NEW k \in J PROVE SameKey(js[k], N1[k])
  <2>1. N1[k] = IF \E c \in Cores : core_job_ptrs'[c] = k THEN Aged(job'[k], time) ELSE job'[k]
    BY DEF Now
  <2>2. CASE \E c \in Cores : core_job_ptrs'[c] = k
    <3>1. job'[k].last_scheduled_time = time /\ job'[k] \in JobStruct
      BY <1>0, <2>2
    <3>2. SameKey(Aged(job'[k], time), job'[k])
      BY <1>0, <3>1, AgedStruct
    <3> QED BY <2>1, <2>2, <3>2, SameKeyIsEquivalence
  <2>3. CASE ~\E c \in Cores : core_job_ptrs'[c] = k
    BY <2>1, <2>3, SameKeyIsEquivalence
  <2> QED BY <2>2, <2>3
<1>2. DOMAIN job' = J
  OBVIOUS
<1>3. SchedInv'
  BY <1>0, <1>1, <1>2, SchedInvReached
<1> QED BY <1>1, <1>3

\* scheduler_new_job keeps the invariant whichever way the new job goes: to an
\* idle core, to the core of the worst running job, or into the queue.
LEMMA NewJobKeeps ==
  ASSUME SchedInv, UNCHANGED time,
         NEW j \in JobIds \ DOMAIN job, NEW running \in Int, NEW priority \in Int,
         NEW answer, scheduler_new_job(j, time, running, priority, answer)
  PROVE  /\ SchedInv'
         /\ DOMAIN job' = DOMAIN job \cup {j}
         /\ \/ answer = NULL /\ core_job_ptrs' = core_job_ptrs
            \/ answer \in Cores /\ core_job_ptrs' = [core_job_ptrs EXCEPT ![answer] = j]
         /\ \A k \in DOMAIN job :
              SameKey(Now(core_job_ptrs, job, time)[k], Now(core_job_ptrs', job', time)[k])
         /\ Now(core_job_ptrs', job', time)[j].remaining_time = running
<1> DEFINE D == DOMAIN job
           J == D \cup {j}
           js == WithNewJob(j, time, running, priority)
           N == Now(core_job_ptrs, job, time)
           p1 == core_job_ptrs'
           N1 == Now(p1, job', time)
<1>0. /\ NULL \notin JobIds /\ NULL \notin J /\ NULL \notin D /\ NULL \notin Cores /\ Cores \subseteq Int
      /\ core_job_ptrs \in [Cores -> JobIds \cup {NULL}] /\ DOMAIN core_job_ptrs = Cores
      /\ time \in Int /\ current_scheme \in Schemes
  BY NullAssumption, WorkloadsAssumption DEF SchedInv, SchedTypeOK, Cores
<1>1. /\ J \in SUBSET JobIds /\ js \in [J -> JobStruct]
      /\ \A k \in D : js[k] = N[k]
      /\ js[j] \in JobStruct /\ js[j].remaining_time = running
      /\ Sorted(job_queue, js)
      /\ current_scheme \in {"PSJF", "PPRI"} => NoneBefore(core_job_ptrs, job_queue, js)
      /\ \A c \in Cores : core_job_ptrs[c] # NULL => js[core_job_ptrs[c]].last_scheduled_time = time
  <2> HIDE DEF js, J
  <2>1. js = WithNewJob(j, time, running, priority) /\ J = DOMAIN job \cup {j}
    BY DEF js, J
  <2>2. UpToDate(js, J, j, running)
    BY <2>1, NewJobStructs
  <2> QED BY <2>2 DEF UpToDate, D, N
<1>2. UNCHANGED current_scheme
  BY DEF scheduler_new_job
<1>3. PlacedOnce(core_job_ptrs, job_queue, D) /\ D = J \ {j} /\ j \in J
  BY DEF SchedInv
<1>4. \A c \in Cores : core_job_ptrs[c] # NULL => core_job_ptrs[c] \in D /\ core_job_ptrs[c] # j
  BY <1>3 DEF PlacedOnce, Cores
<1>5. job_queue \in Seq(J) /\ \A k \in 1..Len(job_queue) : job_queue[k] \in D
  BY <1>3 DEF PlacedOnce
<1>6. job_queue # <<>> => AllBusy
  BY DEF SchedInv, BusyIfWaiting
<1> HIDE DEF js, J, D, N
\* What remains to be shown of each way.
<1> DEFINE Done == /\ SchedInv' /\ DOMAIN job' = J
                   /\ \/ answer = NULL /\ p1 = core_job_ptrs
                      \/ answer \in Cores /\ p1 = [core_job_ptrs EXCEPT ![answer] = j]
                   /\ \A k \in J : SameKey(js[k], N1[k])
<1>7. ASSUME NEW q, job_queue' = q,
             p1 \in [Cores -> JobIds \cup {NULL}],
             job' \in [J -> JobStruct],
             \A k \in J : SameKey(job'[k], js[k]),
             \A c \in Cores : p1[c] # NULL => job'[p1[c]].last_scheduled_time = time,
             PlacedOnce(p1, q, J),
             q = <<>> \/ \A c \in Cores : p1[c] # NULL,
             Sorted(q, js),
             current_scheme \in {"PSJF", "PPRI"} => NoneBefore(p1, q, js),
             \/ answer = NULL /\ p1 = core_job_ptrs
             \/ answer \in Cores /\ p1 = [core_job_ptrs EXCEPT ![answer] = j]
      PROVE  Done
  <2>1. SchedInv' /\ \A k \in J : SameKey(js[k], N1[k])
    BY <1>1, <1>2, <1>7, NewJobReached
  <2> QED BY <1>7, <2>1
<1>8. ASSUME answer \in Cores, NewJobOnIdleCore(j, time, js, answer)
      PROVE  Done
  <2>1. /\ core_job_ptrs[answer] = NULL /\ job' = [js EXCEPT ![j] = Placed(js[j], answer, time)]
        /\ p1 = [core_job_ptrs EXCEPT ![answer] = j] /\ job_queue' = job_queue
    BY <1>8 DEF NewJobOnIdleCore, find_idle_core
  <2>2. job_queue = <<>>
    BY <1>6, <1>8, <2>1 DEF AllBusy
  <2>3. /\ Placed(js[j], answer, time) \in JobStruct
        /\ Placed(js[j], answer, time).last_scheduled_time = time
        /\ SameKey(Placed(js[j], answer, time), js[j])
    BY <1>0, <1>1, <1>8, PlacedStruct
  <2>4. /\ job' \in [J -> JobStruct] /\ job'[j].last_scheduled_time = time
        /\ SameKey(job'[j], js[j]) /\ \A k \in J : k # j => job'[k] = js[k]
    BY <1>1, <1>3, <2>1, <2>3
  <2>5. \A k \in J : SameKey(job'[k], js[k])
    BY <2>4, SameKeyIsEquivalence
  <2>6. p1 \in [Cores -> JobIds \cup {NULL}] /\ p1[answer] = j
        /\ \A c \in Cores : c # answer => p1[c] = core_job_ptrs[c]
    BY <1>0, <1>8, <2>1
  <2>7. ASSUME NEW c \in Cores, p1[c] # NULL PROVE job'[p1[c]].last_scheduled_time = time
    <3>1. c = answer \/ (p1[c] = core_job_ptrs[c] /\ core_job_ptrs[c] # NULL)
      BY <2>6, <2>7
    <3> QED BY <1>1, <1>3, <1>4, <2>4, <2>6, <3>1
  <2>8. PlacedOnce(p1, job_queue, J)
    BY <1>0, <1>3, <1>8, <2>1, PlaceOnCore
  <2>9. Sorted(<<>>, js) /\ NoneBefore(p1, <<>>, js)
    BY DEF Sorted, NoneBefore
  <2> QED BY <1>7, <1>8, <2>1, <2>2, <2>4, <2>5, <2>6, <2>7, <2>8, <2>9
<1>9. ASSUME NewJobWaits(j, js, answer)
      PROVE  Done
  <2> DEFINE q == Offer(job_queue, j, js)
  <2>1. /\ AllBusy /\ answer = NULL /\ job' = js /\ p1 = core_job_ptrs /\ job_queue' = q
        /\ \A c \in Cores : ~Preempts(j, js, c)
    BY <1>9 DEF NewJobWaits
  <2>2. \A k \in J : SameKey(js[k], js[k])
    BY SameKeyIsEquivalence
  <2>3. PlacedOnce(core_job_ptrs, q, J)
    BY <1>0, <1>3, OfferToQueue DEF Offer
  <2>4. Sorted(q, js)
    BY <1>0, <1>1, <1>3, <1>5, <2>2, OfferSorts
  <2>5. ASSUME current_scheme \in {"PSJF", "PPRI"} PROVE NoneBefore(core_job_ptrs, q, js)
    <3>1. PICK w \in Workloads : Cores = 0..(w.cores - 1)
      BY DEF SchedInv, SchedTypeOK
    <3>2. \A c \in Cores : core_job_ptrs[c] \in J
      BY <1>3, <1>4, <2>1 DEF AllBusy
    <3>3. PICK c \in Cores : WorstCore(js, c)
      <4>1. w.cores \in Nat \ {0}
        BY WorkloadsAssumption
      <4> QED BY <1>0, <1>1, <3>1, <3>2, <4>1, SomeWorstCore
    <3>4. ~(comparer(js[j], js[core_job_ptrs[c]]) < 0)
      BY <2>1, <2>5, <3>3 DEF Preempts
    <3>5. ASSUME NEW d \in Cores PROVE comparer(js[core_job_ptrs[d]], js[j]) <= 0
      <4>1. js[core_job_ptrs[c]] \in JobStruct /\ js[core_job_ptrs[d]] \in JobStruct /\ js[j] \in JobStruct
        BY <1>1, <3>2
      <4>2. /\ comparer(js[j], js[core_job_ptrs[c]]) \in Int
            /\ comparer(js[core_job_ptrs[c]], js[j]) = -comparer(js[j], js[core_job_ptrs[c]])
            /\ comparer(js[core_job_ptrs[d]], js[core_job_ptrs[c]]) \in Int
        BY <1>0, <4>1, ComparerOrders
      <4>3. comparer(js[core_job_ptrs[c]], js[j]) <= 0
        BY <3>4, <4>2
      <4>4. CASE d = c
        BY <4>3, <4>4
      <4>5. CASE d # c
        <5>1. \/ comparer(js[core_job_ptrs[d]], js[core_job_ptrs[c]]) < 0
              \/ comparer(js[core_job_ptrs[d]], js[core_job_ptrs[c]]) <= 0
          BY <3>3, <4>5 DEF WorstCore
        <5>2. comparer(js[core_job_ptrs[d]], js[core_job_ptrs[c]]) <= 0
          BY <4>2, <5>1
        <5> QED BY <1>0, <4>1, <4>3, <5>2, ComparerOrders
      <4> QED BY <4>4, <4>5
    <3> QED BY <1>0, <1>1, <1>3, <1>5, <2>5, <3>5, OfferBehind
  <2> HIDE DEF q
  <2> QED BY <1>0, <1>1, <1>7, <2>1, <2>2, <2>3, <2>4, <2>5, <1>4 DEF AllBusy
<1>10. ASSUME answer \in Cores, NewJobPreempts(j, time, js, answer)
      PROVE  Done
  <2> DEFINE w == core_job_ptrs[answer]
             q == Offer(job_queue, w, js)
             p0 == [core_job_ptrs EXCEPT ![answer] = NULL]
  <2>1. /\ AllBusy /\ Preempts(j, js, answer) /\ job_queue' = q
        /\ job' = [js EXCEPT ![w].core_id = -1, ![j] = Placed(@, answer, time)]
        /\ p1 = [core_job_ptrs EXCEPT ![answer] = j]
    BY <1>10 DEF NewJobPreempts
  <2>2. w \in D /\ w # j /\ w # NULL /\ w \in J
    BY <1>3, <1>4, <1>10, <2>1 DEF AllBusy
  <2>3. /\ Placed(js[j], answer, time) \in JobStruct
        /\ Placed(js[j], answer, time).last_scheduled_time = time
        /\ SameKey(Placed(js[j], answer, time), js[j])
    BY <1>0, <1>1, <1>10, PlacedStruct
  <2>4. [js[w] EXCEPT !.core_id = -1] \in JobStruct /\ SameKey([js[w] EXCEPT !.core_id = -1], js[w])
    <3>1. js[w] \in JobStruct
      BY <1>1, <2>2
    <3> QED BY <3>1 DEF JobStruct, SameKey
  <2>5. /\ job' \in [J -> JobStruct] /\ job'[j].last_scheduled_time = time
        /\ SameKey(job'[j], js[j]) /\ SameKey(job'[w], js[w])
        /\ \A k \in J : k # j /\ k # w => job'[k] = js[k]
    <3>1. job' = [[js EXCEPT ![w] = [js[w] EXCEPT !.core_id = -1]] EXCEPT ![j] = Placed(js[j], answer, time)]
      BY <1>1, <1>3, <2>1, <2>2
    <3> HIDE DEF w
    <3> QED BY <1>1, <1>3, <2>2, <2>3, <2>4, <3>1
  <2>6. \A k \in J : SameKey(job'[k], js[k])
    BY <2>5, SameKeyIsEquivalence
  <2>7. p1 \in [Cores -> JobIds \cup {NULL}] /\ p1[answer] = j
        /\ \A c \in Cores : c # answer => p1[c] = core_job_ptrs[c]
    BY <1>0, <1>10, <2>1
  <2>8. ASSUME NEW c \in Cores, p1[c] # NULL PROVE job'[p1[c]].last_scheduled_time = time
    <3>1. CASE c = answer
      BY <2>5, <2>7, <3>1
    <3>2. CASE c # answer
      <4>1. p1[c] = core_job_ptrs[c] /\ core_job_ptrs[c] # NULL /\ core_job_ptrs[c] # w
        BY <1>0, <1>3, <1>10, <2>2, <2>7, <2>8, <3>2 DEF PlacedOnce
      <4> QED BY <1>1, <1>3, <1>4, <2>5, <4>1
    <3> QED BY <3>1, <3>2
  <2>9. PlacedOnce(p1, q, J)
    <3>1. PlacedOnce(p0, job_queue, D \ {w})
      BY <1>0, <1>3, <1>10, <2>2, TakeOffCore
    <3>2. PlacedOnce(p0, q, D)
      BY <1>0, <2>2, <3>1, OfferToQueue DEF Offer
    <3>3. p0[answer] = NULL /\ answer \in DOMAIN p0 /\ p1 = [p0 EXCEPT ![answer] = j]
      BY <1>0, <1>10, <2>1
    <3> HIDE DEF p0, q, p1
    <3> QED BY <1>0, <1>3, <3>2, <3>3, PlaceOnCore
  <2>10. \A k \in J : SameKey(js[k], js[k])
    BY SameKeyIsEquivalence
  <2>11. Sorted(q, js)
    BY <1>0, <1>1, <1>3, <1>5, <2>2, <2>10, OfferSorts
  <2>12. comparer(js[j], js[w]) < 0
    BY <2>1 DEF Preempts
  <2>13. ASSUME NEW c \in Cores PROVE comparer(js[p1[c]], js[w]) <= 0
    <3>1. CASE c = answer
      <4>1. comparer(js[j], js[w]) \in Int
        BY <1>0, <1>1, <1>3, <2>2, ComparerOrders
      <4> QED BY <2>7, <2>12, <3>1, <4>1
    <3>2. CASE c # answer
      <4>1. p1[c] = core_job_ptrs[c] /\ core_job_ptrs[c] \in J
        BY <1>3, <1>4, <2>1, <2>7, <3>2 DEF AllBusy
      <4>2. \/ comparer(js[core_job_ptrs[c]], js[w]) < 0
            \/ comparer(js[core_job_ptrs[c]], js[w]) <= 0
        BY <2>1, <3>2 DEF Preempts, WorstCore
      <4>3. comparer(js[core_job_ptrs[c]], js[w]) \in Int
        BY <1>0, <1>1, <2>2, <4>1, ComparerOrders
      <4> QED BY <4>1, <4>2, <4>3
    <3> QED BY <3>1, <3>2
  <2>14. NoneBefore(p1, job_queue, js)
    <3>1. NoneBefore(core_job_ptrs, job_queue, js)
      BY <1>1, <2>1 DEF Preempts
    <3>2. ASSUME NEW k \in 1..Len(job_queue) PROVE comparer(js[j], js[job_queue[k]]) <= 0
      <4>1. comparer(js[w], js[job_queue[k]]) <= 0
        BY <1>0, <1>10, <2>2, <3>1 DEF NoneBefore
      <4>2. job_queue[k] \in J /\ js[j] \in JobStruct /\ js[w] \in JobStruct /\ js[job_queue[k]] \in JobStruct
        BY <1>1, <1>3, <1>5, <2>2
      <4>3. comparer(js[j], js[w]) \in Int
        BY <1>0, <4>2, ComparerOrders
      <4>4. comparer(js[j], js[w]) <= 0
        BY <2>12, <4>3
      <4> QED BY <1>0, <4>1, <4>2, <4>4, ComparerOrders
    <3> QED BY <1>0, <1>10, <2>7, <3>1, <3>2 DEF NoneBefore
  <2>15. NoneBefore(p1, q, js)
    <3>1. DOMAIN js = J /\ DOMAIN p1 = Cores
      BY <1>1, <2>7
    <3> QED BY <1>3, <1>5, <2>2, <2>13, <2>14, <3>1, OfferBehind
  <2>16. \A c \in Cores : p1[c] # NULL
    BY <1>0, <1>3, <2>1, <2>7 DEF AllBusy
  <2> HIDE DEF q, w
  <2> QED BY <1>7, <1>10, <2>1, <2>5, <2>6, <2>7, <2>8, <2>9, <2>11, <2>15, <2>16
<1>11. Done
  <2> HIDE DEF Done
  <2>1. scheduler_new_job(j, time, running, priority, answer)
    OBVIOUS
  <2> QED BY <1>8, <1>9, <1>10, <2>1 DEF scheduler_new_job, js
<1>12. \A k \in D : SameKey(N[k], N1[k])
  BY <1>1, <1>3, <1>11
<1>13. N1[j].remaining_time = running
  BY <1>1, <1>3, <1>11 DEF SameKey
<1> QED BY <1>11, <1>12, <1>13 DEF D, J, N

-----------------------------------------------------------------------------
(* The simulator's entries *)

\* An entry of the simulator's array.
EntryStruct ==
  [job_id : JobIds, run_time : Nat, arrival_time : Nat, priority : Int,
   core_id : Int, arrived : BOOLEAN]

\* The entries es show the jobs J that have arrived, each on the core p has it on.
Picture(es, p, J) ==
  /\ es \in Seq(EntryStruct)
  /\ \A k \in 1..Len(es) : es[k].core_id \in DOMAIN p \cup {-1}
  /\ \A k, l \in 1..Len(es) : es[k].job_id = es[l].job_id => k = l
  /\ \A k \in 1..Len(es), c \in DOMAIN p : es[k].core_id = c <=> p[c] = es[k].job_id
  /\ \A k \in 1..Len(es) : es[k].arrived <=> es[k].job_id \in J
  /\ \A j \in J : \E k \in 1..Len(es) : es[k].job_id = j

\* The entries have as much to run as the structures N say.
SameTimes(es, N) ==
  \A k \in 1..Len(es) : es[k].arrived => es[k].run_time = N[es[k].job_id].remaining_time

\* An entry with nothing left to run is on a core.
DoneOnCore(es) == \A k \in 1..Len(es) : es[k].run_time = 0 => es[k].core_id # -1

\* A function on 1..n is a sequence of length n.
LEMMA FunctionIsSequence ==
  ASSUME NEW S, NEW n \in Nat, NEW f \in [1..n -> S]
  PROVE  f \in Seq(S) /\ Len(f) = n
OBVIOUS

\* Setting the core of an entry leaves its other fields alone.
LEMMA EntryOnCore ==
  ASSUME NEW e \in EntryStruct, NEW c \in Int
  PROVE  LET f == [e EXCEPT !.core_id = c] IN
         /\ f \in EntryStruct /\ f.core_id = c /\ f.job_id = e.job_id
         /\ f.run_time = e.run_time /\ f.arrived = e.arrived
         /\ f.arrival_time = e.arrival_time /\ f.priority = e.priority
BY DEF EntryStruct

\* set_active_job finds the entry of the job that was selected for core c, and
\* the picture is right again.
LEMMA ChoiceTaken ==
  ASSUME NEW p, DOMAIN p \subseteq Int, -1 \notin DOMAIN p,
         NEW J, NEW es, Picture(es, p, J),
         NEW c \in DOMAIN p, NEW j \in J, \A d \in DOMAIN p : p[d] # j,
         \A k \in 1..Len(es) : es[k].job_id # p[c]
  PROVE  /\ Selectable(es, j)
         /\ Picture(WithActiveJob(es, j, c), [p EXCEPT ![c] = j], J)
         /\ \A N : SameTimes(es, N) => SameTimes(WithActiveJob(es, j, c), N)
         /\ DoneOnCore(es) => DoneOnCore(WithActiveJob(es, j, c))
<1> DEFINE fs == WithActiveJob(es, j, c)
           p1 == [p EXCEPT ![c] = j]
           n == Len(es)
<1>0. /\ n \in Nat /\ \A k \in 1..n : es[k] \in EntryStruct
      /\ \A k \in 1..n : es[k].job_id = j => es[k].arrived
  BY DEF Picture
<1>1. PICK i \in 1..n : es[i].job_id = j
  BY DEF Picture
<1>2. /\ es[i].arrived /\ es[i].core_id \notin DOMAIN p
      /\ \A k \in 1..n : k # i => es[k].job_id # j
  BY <1>1 DEF Picture
<1> DEFINE e == [es[i] EXCEPT !.core_id = c]
<1>3. fs = [k \in 1..n |-> IF k = i THEN e ELSE es[k]]
  BY <1>1, <1>2 DEF WithActiveJob
<1>4. /\ e \in EntryStruct /\ e.core_id = c /\ e.job_id = es[i].job_id
      /\ e.arrived = es[i].arrived /\ e.run_time = es[i].run_time
  BY <1>0, EntryOnCore
<1> HIDE DEF e
<1>5. fs \in Seq(EntryStruct) /\ Len(fs) = n
  <2>1. fs \in [1..n -> EntryStruct]
    BY <1>0, <1>3, <1>4
  <2> QED BY <1>0, <2>1, FunctionIsSequence
<1>6. /\ fs[i].core_id = c /\ fs[i].job_id = j /\ fs[i].arrived = es[i].arrived
      /\ fs[i].run_time = es[i].run_time
      /\ \A k \in 1..n : k # i => fs[k] = es[k]
  BY <1>1, <1>3, <1>4
<1>7. /\ DOMAIN p1 = DOMAIN p /\ p1[c] = j /\ \A d \in DOMAIN p : d # c => p1[d] = p[d]
  OBVIOUS
<1> HIDE DEF fs, p1
<1>8. \A k \in 1..n : /\ fs[k].job_id = es[k].job_id
                      /\ fs[k].arrived = es[k].arrived
                      /\ fs[k].run_time = es[k].run_time
  BY <1>1, <1>6
<1>9. \A k \in 1..n : fs[k].core_id \in DOMAIN p1 \cup {-1}
  BY <1>6, <1>7 DEF Picture
<1>10. ASSUME NEW k \in 1..n, NEW d \in DOMAIN p1
       PROVE  fs[k].core_id = d <=> p1[d] = fs[k].job_id
  <2>1. CASE k = i
    BY <1>6, <1>7, <2>1
  <2>2. CASE k # i
    <3>1. CASE d = c
      <4>1. es[k].core_id # c
        BY <1>7, <2>2 DEF Picture
      <4> QED BY <1>2, <1>6, <1>7, <2>2, <3>1, <4>1
    <3>2. CASE d # c
      BY <1>6, <1>7, <2>2, <3>2 DEF Picture
    <3> QED BY <3>1, <3>2
  <2> QED BY <2>1, <2>2
<1>11. /\ \A k, l \in 1..n : fs[k].job_id = fs[l].job_id => k = l
       /\ \A k \in 1..n : fs[k].arrived <=> fs[k].job_id \in J
       /\ \A x \in J : \E k \in 1..n : fs[k].job_id = x
  <2>1. \A k, l \in 1..n : fs[k].job_id = fs[l].job_id => k = l
    BY <1>8 DEF Picture
  <2>2. ASSUME NEW k \in 1..n PROVE fs[k].arrived <=> fs[k].job_id \in J
    BY <1>8 DEF Picture
  <2>3. ASSUME NEW x \in J PROVE \E k \in 1..n : fs[k].job_id = x
    BY <1>8 DEF Picture
  <2> QED BY <2>1, <2>2, <2>3
<1>12. Picture(fs, p1, J)
  BY <1>5, <1>9, <1>10, <1>11 DEF Picture
<1>13. ASSUME NEW N, SameTimes(es, N) PROVE SameTimes(fs, N)
  BY <1>5, <1>8, <1>13 DEF SameTimes
<1>14. ASSUME DoneOnCore(es) PROVE DoneOnCore(fs)
  BY <1>5, <1>6, <1>8, <1>14 DEF DoneOnCore
<1>15. Selectable(es, j)
  BY <1>1, <1>2 DEF Selectable
<1> QED BY <1>12, <1>13, <1>14, <1>15 DEF fs, p1

\* Without the entry of the job that finished the picture is that of the others.
LEMMA DeletedPicture ==
  ASSUME NULL \notin JobIds, DOMAIN core_job_ptrs \subseteq Int, -1 \notin DOMAIN core_job_ptrs,
         NEW J, Picture(jobs, core_job_ptrs, J),
         NEW i \in Entries, NEW c \in DOMAIN core_job_ptrs, jobs[i].core_id = c
  PROVE  /\ Picture(Deleted(i), [core_job_ptrs EXCEPT ![c] = NULL], J \ {jobs[i].job_id})
         /\ \A N : SameTimes(jobs, N) => SameTimes(Deleted(i), N)
         /\ DoneOnCore(jobs) => DoneOnCore(Deleted(i))
<1> DEFINE n == Len(jobs)
           es == Deleted(i)
           at(k) == IF k = i THEN n ELSE k
           p == core_job_ptrs
           p1 == [p EXCEPT ![c] = NULL]
<1>0. /\ n \in Nat \ {0} /\ n - 1 \in Nat /\ i \in 1..n
      /\ \A k \in 1..n : jobs[k] \in EntryStruct /\ jobs[k].job_id \in JobIds
  <2>1. jobs \in Seq(EntryStruct) /\ i \in 1..n
    BY DEF Picture, Entries
  <2>2. \A k \in 1..n : jobs[k] \in EntryStruct
    BY <2>1
  <2>3. n \in Nat \ {0} /\ n - 1 \in Nat
    BY <2>1
  <2>4. \A k \in 1..n : jobs[k].job_id \in JobIds
    BY <2>2 DEF EntryStruct
  <2> QED BY <2>1, <2>2, <2>3, <2>4
<1>1. \A k \in 1..(n - 1) : at(k) \in 1..n /\ at(k) # i
  BY <1>0
<1>2. \A k, l \in 1..(n - 1) : at(k) = at(l) => k = l
  BY <1>0
<1>3. \A m \in 1..n : m # i => \E k \in 1..(n - 1) : at(k) = m
  <2> SUFFICES ASSUME NEW m \in 1..n, m # i PROVE \E k \in 1..(n - 1) : at(k) = m
    OBVIOUS
  <2>1. CASE m = n
    <3>1. i \in 1..(n - 1) /\ at(i) = m
      BY <1>0, <2>1
    <3> QED BY <3>1
  <2>2. CASE m # n
    <3>1. m \in 1..(n - 1) /\ at(m) = m
      BY <1>0, <2>2
    <3> QED BY <3>1
  <2> QED BY <2>1, <2>2
<1>4. es = [k \in 1..(n - 1) |-> jobs[at(k)]]
  BY DEF Deleted
<1> HIDE DEF at, es
<1>5. es \in Seq(EntryStruct) /\ Len(es) = n - 1
  <2>1. es \in [1..(n - 1) -> EntryStruct]
    BY <1>0, <1>1, <1>4
  <2> QED BY <1>0, <2>1, FunctionIsSequence
<1>6. \A k \in 1..(n - 1) : es[k] = jobs[at(k)]
  BY <1>4
<1>7. /\ DOMAIN p1 = DOMAIN p /\ p1[c] = NULL
      /\ \A d \in DOMAIN p : d # c => p1[d] = p[d]
  OBVIOUS
<1> HIDE DEF p1
<1>8. /\ p[c] = jobs[i].job_id
      /\ \A k, l \in 1..n : jobs[k].job_id = jobs[l].job_id => k = l
      /\ \A k \in 1..n, d \in DOMAIN p : jobs[k].core_id = d <=> p[d] = jobs[k].job_id
  BY <1>0 DEF Picture
<1>9. \A k \in 1..(n - 1) : es[k].core_id \in DOMAIN p1 \cup {-1}
  BY <1>1, <1>6, <1>7 DEF Picture
<1>10. \A k, l \in 1..(n - 1) : es[k].job_id = es[l].job_id => k = l
  BY <1>1, <1>2, <1>6, <1>8
<1>11. ASSUME NEW k \in 1..(n - 1), NEW d \in DOMAIN p1
       PROVE  es[k].core_id = d <=> p1[d] = es[k].job_id
  <2>0. es[k] = jobs[at(k)] /\ at(k) \in 1..n /\ at(k) # i
    BY <1>1, <1>6
  <2>1. CASE d = c
    <3>1. jobs[at(k)].job_id # jobs[i].job_id /\ jobs[at(k)].job_id # NULL
      BY <1>0, <1>8, <2>0
    <3> QED BY <1>7, <1>8, <2>0, <2>1, <3>1
  <2>2. CASE d # c
    BY <1>7, <1>8, <2>0, <2>2
  <2> QED BY <2>1, <2>2
<1>12. ASSUME NEW k \in 1..(n - 1)
       PROVE  es[k].arrived <=> es[k].job_id \in J \ {jobs[i].job_id}
  <2>0. es[k] = jobs[at(k)] /\ at(k) \in 1..n /\ jobs[at(k)].job_id # jobs[i].job_id
    BY <1>0, <1>1, <1>6, <1>8
  <2> QED BY <2>0 DEF Picture
<1>13. ASSUME NEW j \in J \ {jobs[i].job_id} PROVE \E k \in 1..(n - 1) : es[k].job_id = j
  <2>1. PICK m \in 1..n : jobs[m].job_id = j
    BY DEF Picture
  <2>2. PICK k \in 1..(n - 1) : at(k) = m
    BY <1>3, <2>1
  <2> QED BY <1>6, <2>1, <2>2
<1>14. Picture(es, p1, J \ {jobs[i].job_id})
  BY <1>5, <1>9, <1>10, <1>11, <1>12, <1>13 DEF Picture
<1>15. ASSUME NEW N, SameTimes(jobs, N) PROVE SameTimes(es, N)
  BY <1>1, <1>5, <1>6, <1>15 DEF SameTimes
<1>16. ASSUME DoneOnCore(jobs) PROVE DoneOnCore(es)
  BY <1>1, <1>5, <1>6, <1>16 DEF DoneOnCore
<1> QED BY <1>14, <1>15, <1>16 DEF es, p1

\* When the quantum of a core expired, the entry that was on it is on none.
LEMMA ReleasedPicture ==
  ASSUME NULL \notin JobIds, DOMAIN core_job_ptrs \subseteq Int, -1 \notin DOMAIN core_job_ptrs,
         NEW J, Picture(jobs, core_job_ptrs, J),
         NEW i \in Entries, NEW c \in DOMAIN core_job_ptrs, jobs[i].core_id = c
  PROVE  /\ Picture([jobs EXCEPT ![i].core_id = -1], [core_job_ptrs EXCEPT ![c] = NULL], J)
         /\ \A N : SameTimes(jobs, N) => SameTimes([jobs EXCEPT ![i].core_id = -1], N)
         /\ \A k \in Entries : [jobs EXCEPT ![i].core_id = -1][k].run_time = jobs[k].run_time
<1> DEFINE n == Len(jobs)
           e == [jobs[i] EXCEPT !.core_id = -1]
           es == [jobs EXCEPT ![i].core_id = -1]
           p == core_job_ptrs
           p1 == [p EXCEPT ![c] = NULL]
<1>0. /\ n \in Nat /\ i \in 1..n /\ Entries = 1..n /\ jobs \in [1..n -> EntryStruct]
      /\ \A k \in 1..n : jobs[k].job_id \in JobIds
  <2>1. jobs \in Seq(EntryStruct) /\ Entries = 1..n
    BY DEF Picture, Entries
  <2>2. \A k \in 1..n : jobs[k] \in EntryStruct
    BY <2>1
  <2>3. \A k \in 1..n : jobs[k].job_id \in JobIds
    BY <2>2 DEF EntryStruct
  <2> QED BY <2>1, <2>3
<1>1. /\ e \in EntryStruct /\ e.core_id = -1 /\ e.job_id = jobs[i].job_id
      /\ e.arrived = jobs[i].arrived /\ e.run_time = jobs[i].run_time
  BY <1>0, EntryOnCore
<1>2. es = [jobs EXCEPT ![i] = e]
  OBVIOUS
<1> HIDE DEF e, es
<1>3. /\ es \in Seq(EntryStruct) /\ Len(es) = n /\ es[i] = e
      /\ \A k \in 1..n : k # i => es[k] = jobs[k]
  <2>1. es \in [1..n -> EntryStruct]
    BY <1>0, <1>1, <1>2
  <2> QED BY <1>0, <1>2, <2>1, FunctionIsSequence
<1>4. /\ DOMAIN p1 = DOMAIN p /\ p1[c] = NULL
      /\ \A d \in DOMAIN p : d # c => p1[d] = p[d]
  OBVIOUS
<1> HIDE DEF p1
<1>5. \A k \in 1..n : /\ es[k].job_id = jobs[k].job_id
                      /\ es[k].arrived = jobs[k].arrived
                      /\ es[k].run_time = jobs[k].run_time
  BY <1>1, <1>3
<1>6. \A k \in 1..n : es[k].core_id \in DOMAIN p1 \cup {-1}
  BY <1>1, <1>3, <1>4 DEF Picture
<1>7. \A k, l \in 1..n : es[k].job_id = es[l].job_id => k = l
  BY <1>5 DEF Picture
<1>8. ASSUME NEW k \in 1..n PROVE es[k].arrived <=> es[k].job_id \in J
  BY <1>5 DEF Picture
<1>9. ASSUME NEW j \in J PROVE \E k \in 1..n : es[k].job_id = j
  BY <1>5 DEF Picture
<1>10. ASSUME NEW k \in 1..n, NEW d \in DOMAIN p1
       PROVE  es[k].core_id = d <=> p1[d] = es[k].job_id
  <2>1. p[c] = jobs[i].job_id /\ (k # i => jobs[k].job_id # jobs[i].job_id)
    BY <1>0 DEF Picture
  <2>2. jobs[k].core_id = d <=> p[d] = jobs[k].job_id
    BY <1>4 DEF Picture
  <2>3. CASE d = c
    BY <1>0, <1>1, <1>3, <1>4, <1>5, <2>1, <2>2, <2>3
  <2>4. CASE d # c
    <3>1. jobs[i].core_id # d
      BY <2>4
    <3>2. p[d] # jobs[i].job_id
      BY <1>0, <1>4, <3>1 DEF Picture
    <3> QED BY <1>1, <1>3, <1>4, <2>2, <2>4, <3>2
  <2> QED BY <2>3, <2>4
<1>11. Picture(es, p1, J)
  BY <1>3, <1>6, <1>7, <1>8, <1>9, <1>10 DEF Picture
<1>12. ASSUME NEW N, SameTimes(jobs, N) PROVE SameTimes(es, N)
  BY <1>3, <1>5, <1>12 DEF SameTimes
<1> QED BY <1>0, <1>5, <1>11, <1>12 DEF es, p1

\* es shows entry i arrived and the jobs J on the cores of p, and has every job
\* with what it has to run.
ArrivalShown(es, i, p, J) ==
  /\ Picture(es, p, J)
  /\ Len(es) = Len(jobs)
  /\ \A k \in Entries : /\ es[k].job_id = jobs[k].job_id
                        /\ es[k].run_time = jobs[k].run_time
                        /\ k # i => es[k].arrived = jobs[k].arrived

\* When a job has arrived, it and the job that lost its core to it are shown
\* where the scheduler has them.
LEMMA ArrivedPicture ==
  ASSUME NULL \notin JobIds, DOMAIN core_job_ptrs \subseteq Int, -1 \notin DOMAIN core_job_ptrs,
         NULL \notin DOMAIN core_job_ptrs,
         NEW J, Picture(jobs, core_job_ptrs, J),
         NEW i \in Entries, ~jobs[i].arrived, \A c \in DOMAIN core_job_ptrs : core_job_ptrs[c] # jobs[i].job_id,
         NEW answer, NEW p1,
         \/ answer = NULL /\ p1 = core_job_ptrs
         \/ answer \in DOMAIN core_job_ptrs /\ p1 = [core_job_ptrs EXCEPT ![answer] = jobs[i].job_id]
  PROVE  ArrivalShown(WithArrived(i, answer), i, p1, J \cup {jobs[i].job_id})
<1> DEFINE n == Len(jobs)
           es == WithArrived(i, answer)
           p == core_job_ptrs
           id == jobs[i].job_id
<1>0. /\ n \in Nat /\ i \in 1..n /\ Entries = 1..n /\ jobs \in [1..n -> EntryStruct]
      /\ \A k \in 1..n : jobs[k].job_id \in JobIds
  <2>1. jobs \in Seq(EntryStruct) /\ Entries = 1..n
    BY DEF Picture, Entries
  <2>2. \A k \in 1..n : jobs[k] \in EntryStruct
    BY <2>1
  <2>3. \A k \in 1..n : jobs[k].job_id \in JobIds
    BY <2>2 DEF EntryStruct
  <2> QED BY <2>1, <2>3
<1>1. jobs[i].core_id = -1
  <2>1. jobs[i].core_id \in DOMAIN p \cup {-1}
    BY <1>0 DEF Picture
  <2>2. \A c \in DOMAIN p : jobs[i].core_id # c
    BY <1>0 DEF Picture
  <2> QED BY <2>1, <2>2
\* Of an entry core_id changes, and arrived for the one that arrives.
<1>2. ASSUME NEW k \in 1..n
      PROVE  /\ es[k] \in EntryStruct /\ es[k].job_id = jobs[k].job_id /\ es[k].run_time = jobs[k].run_time
             /\ es[k].arrived = IF k = i THEN TRUE ELSE jobs[k].arrived
             /\ es[k].core_id = IF answer = NULL THEN jobs[k].core_id
                                ELSE IF k = i THEN answer
                                ELSE IF jobs[k].core_id = answer THEN -1 ELSE jobs[k].core_id
  <2>0. jobs[k] \in EntryStruct /\ answer # NULL => answer \in Int
    BY <1>0
  <2>1. CASE k = i
    <3> DEFINE a == IF answer = NULL THEN jobs[i].core_id ELSE answer
               e == [jobs[i] EXCEPT !.arrived = TRUE, !.core_id = a]
    <3>1. es[k] = e
      BY <1>0, <2>1 DEF WithArrived
    <3>2. a \in Int /\ jobs[i] \in EntryStruct
      BY <1>0, <1>1
    <3> HIDE DEF a
    <3>3. /\ e \in EntryStruct /\ e.job_id = jobs[i].job_id /\ e.run_time = jobs[i].run_time
          /\ e.arrived = TRUE /\ e.core_id = a
      BY <3>2 DEF EntryStruct
    <3> HIDE DEF e
    <3> QED BY <2>1, <3>1, <3>3 DEF a
  <2>2. CASE k # i /\ jobs[k].core_id = answer
    <3> DEFINE e == [jobs[k] EXCEPT !.core_id = -1]
    <3>1. es[k] = e
      BY <1>0, <2>2 DEF WithArrived
    <3>2. /\ e \in EntryStruct /\ e.job_id = jobs[k].job_id /\ e.run_time = jobs[k].run_time
          /\ e.arrived = jobs[k].arrived /\ e.core_id = -1
      <4>1. jobs[k] \in EntryStruct /\ -1 \in Int
        BY <1>0
      <4> QED BY <4>1 DEF EntryStruct
    <3>3. answer = NULL => jobs[k].core_id = -1
      BY <1>0, <2>2 DEF Picture
    <3> HIDE DEF e
    <3> QED BY <2>2, <3>1, <3>2, <3>3
  <2>3. CASE k # i /\ jobs[k].core_id # answer
    <3>1. es[k] = jobs[k]
      BY <1>0, <2>3 DEF WithArrived
    <3> QED BY <1>0, <2>3, <3>1
  <2> QED BY <2>1, <2>2, <2>3
<1>3. es \in Seq(EntryStruct) /\ Len(es) = n
  <2>1. es = [k \in 1..n |-> es[k]]
    BY <1>0 DEF WithArrived
  <2> HIDE DEF es
  <2>2. es \in [1..n -> EntryStruct]
    BY <1>2, <2>1
  <2> QED BY <1>0, <2>2, FunctionIsSequence
<1> HIDE DEF es
<1>4. DOMAIN p1 = DOMAIN p
  OBVIOUS
<1>5. \A k \in 1..n : es[k].core_id \in DOMAIN p1 \cup {-1}
  <2> SUFFICES ASSUME NEW k \in 1..n PROVE es[k].core_id \in DOMAIN p \cup {-1}
    BY <1>4
  <2>1. jobs[k].core_id \in DOMAIN p \cup {-1}
    BY <1>0 DEF Picture
  <2>2. answer = NULL \/ answer \in DOMAIN p
    OBVIOUS
  <2>3. es[k].core_id = IF answer = NULL THEN jobs[k].core_id
                        ELSE IF k = i THEN answer
                        ELSE IF jobs[k].core_id = answer THEN -1 ELSE jobs[k].core_id
    BY <1>2, Zenon
  <2> QED BY <2>1, <2>2, <2>3
<1>6. ASSUME NEW k \in 1..n, NEW l \in 1..n, es[k].job_id = es[l].job_id PROVE k = l
  <2>1. jobs[k].job_id = jobs[l].job_id
    BY <1>2, <1>6
  <2> QED BY <2>1 DEF Picture
<1>7. ASSUME NEW k \in 1..n PROVE es[k].arrived <=> es[k].job_id \in J \cup {id}
  <2>1. k # i => jobs[k].job_id # id
    BY <1>0 DEF Picture
  <2>2. CASE k = i
    BY <1>2, <2>2
  <2>3. CASE k # i
    <3>1. jobs[k].arrived <=> jobs[k].job_id \in J
      BY DEF Picture
    <3> QED BY <1>2, <2>1, <2>3, <3>1
  <2> QED BY <2>2, <2>3
<1>8. ASSUME NEW j \in J \cup {id} PROVE \E k \in 1..n : es[k].job_id = j
  <2>1. PICK k \in 1..n : jobs[k].job_id = j
    BY <1>0 DEF Picture
  <2>2. es[k].job_id = jobs[k].job_id
    BY <1>2
  <2> QED BY <2>1, <2>2
<1>9. ASSUME NEW k \in 1..n, NEW d \in DOMAIN p1
      PROVE  es[k].core_id = d <=> p1[d] = es[k].job_id
  <2>1. jobs[k].core_id = d <=> p[d] = jobs[k].job_id
    BY <1>4 DEF Picture
  <2>2. k # i => jobs[k].job_id # id
    BY <1>0 DEF Picture
  <2>3. CASE answer = NULL
    BY <1>2, <2>1, <2>3
  <2>4. CASE answer \in DOMAIN p /\ p1 = [p EXCEPT ![answer] = id]
    <3>1. answer # NULL /\ d \in DOMAIN p /\ p1[d] = IF d = answer THEN id ELSE p[d]
      BY <1>4, <2>4
    <3>2. CASE k = i
      BY <1>0, <1>2, <2>4, <3>1, <3>2
    <3>3. CASE k # i
      <4>1. es[k].core_id = IF jobs[k].core_id = answer THEN -1 ELSE jobs[k].core_id
        BY <1>2, <3>1, <3>3
      <4>2. d # -1
        BY <3>1
      <4> QED BY <1>2, <2>1, <2>2, <3>1, <3>3, <4>1, <4>2
    <3> QED BY <3>2, <3>3
  <2> QED BY <2>3, <2>4
<1>10. Picture(es, p1, J \cup {id})
  BY <1>3, <1>5, <1>6, <1>7, <1>8, <1>9 DEF Picture
<1> QED BY <1>0, <1>2, <1>3, <1>10 DEF es, ArrivalShown

-----------------------------------------------------------------------------
(* The inductive invariant *)

SimInv ==
  /\ Picture(jobs, core_job_ptrs, DOMAIN job)
  /\ SameTimes(jobs, Now(core_job_ptrs, job, time))
  /\ DoneOnCore(jobs)
  /\ phase \in {"finish", "expire", "arrive", "run", "done"}
  /\ phase = "expire" => current_scheme = "RR"
  /\ phase # "finish" => \A i \in Entries : jobs[i].run_time # 0

IInv == SchedInv /\ SimInv

\* What every step finds: the cores are numbers, and an entry is on the core on
\* which the scheduler has its job.
LEMMA InvFacts ==
  ASSUME IInv
  PROVE  /\ NULL \notin JobIds /\ NULL \notin Cores
         /\ DOMAIN core_job_ptrs = Cores /\ Cores \subseteq Int /\ -1 \notin Cores
         /\ Cores # {}
         /\ time \in Int
         /\ job \in [DOMAIN job -> JobStruct] /\ DOMAIN job \subseteq JobIds
         /\ jobs \in Seq(EntryStruct) /\ Len(jobs) \in Nat /\ Entries = 1..Len(jobs)
         /\ \A i \in Entries : jobs[i] \in EntryStruct
         /\ \A i \in Entries : jobs[i].job_id \in JobIds
         /\ \A i \in Entries, c \in Cores : jobs[i].core_id = c <=> core_job_ptrs[c] = jobs[i].job_id
         /\ \A c \in Cores : core_job_ptrs[c] # NULL => core_job_ptrs[c] \in DOMAIN job
<1>1. PICK w \in Workloads : Cores = 0..(w.cores - 1)
  BY DEF IInv, SchedInv, SchedTypeOK
<1>2. w.cores \in Nat \ {0}
  BY WorkloadsAssumption
<1>3. Cores \subseteq Nat /\ -1 \notin Cores /\ 0 \in Cores
  BY <1>1, <1>2
<1>4. NULL \notin JobIds /\ NULL \notin Cores
  BY <1>3, NullAssumption
<1>5. time \in Int /\ job \in [DOMAIN job -> JobStruct] /\ DOMAIN job \subseteq JobIds
  BY DEF IInv, SchedInv, SchedTypeOK
<1>6. jobs \in Seq(EntryStruct) /\ Len(jobs) \in Nat /\ Entries = 1..Len(jobs)
  BY DEF IInv, SimInv, Picture, Entries
<1>7. \A i \in Entries : jobs[i] \in EntryStruct
  BY <1>6
<1>8. \A i \in Entries : jobs[i].job_id \in JobIds
  BY <1>7 DEF EntryStruct
<1>9. \A i \in Entries, c \in Cores : jobs[i].core_id = c <=> core_job_ptrs[c] = jobs[i].job_id
  BY <1>6 DEF IInv, SimInv, Picture, Cores
<1>10. \A c \in Cores : core_job_ptrs[c] # NULL => core_job_ptrs[c] \in DOMAIN job
  BY DEF IInv, SchedInv, PlacedOnce, Cores
<1> QED BY <1>3, <1>4, <1>5, <1>6, <1>7, <1>8, <1>9, <1>10 DEF Cores

\* The entries agree with all structures of the same keys.
LEMMA SameKeysSameTimes ==
  ASSUME NEW es, NEW p, NEW J, Picture(es, p, J), NEW N, NEW M, SameTimes(es, N),
         \A j \in J : SameKey(N[j], M[j])
  PROVE  SameTimes(es, M)
BY DEF Picture, SameTimes, SameKey

\* A step of the loops that give a core away: es are the entries after the core
\* was given up, J the jobs that are left.
LEMMA CoreGivenAway ==
  ASSUME IInv, SchedInv', UNCHANGED time,
         NEW c \in Cores, NEW J, DOMAIN job' = J,
         NEW es, Picture(es, [core_job_ptrs EXCEPT ![c] = NULL], J),
         SameTimes(es, Now(core_job_ptrs, job, time)), DoneOnCore(es),
         NEW answer, answer = NULL \/ answer \in J,
         core_job_ptrs' = [core_job_ptrs EXCEPT ![c] = answer],
         \A j \in J : SameKey(Now(core_job_ptrs, job, time)[j], Now(core_job_ptrs', job', time)[j]),
         TakeChoice(es, c, answer)
  PROVE  /\ Picture(jobs', core_job_ptrs', DOMAIN job')
         /\ SameTimes(jobs', Now(core_job_ptrs, job, time)')
         /\ DoneOnCore(jobs')
         /\ phase' = phase
         /\ jobs' = es \/ jobs' = WithActiveJob(es, answer, c)
<1> DEFINE p == [core_job_ptrs EXCEPT ![c] = NULL]
           N == Now(core_job_ptrs, job, time)
           N1 == Now(core_job_ptrs', job', time)
<1>0. /\ NULL \notin JobIds /\ DOMAIN core_job_ptrs = Cores /\ Cores \subseteq Int /\ -1 \notin Cores
      /\ DOMAIN p = Cores /\ p[c] = NULL
  BY InvFacts
<1>1. J \subseteq JobIds /\ NULL \notin J
  BY <1>0 DEF SchedInv, SchedTypeOK
<1>2. N1 = Now(core_job_ptrs, job, time)'
  OBVIOUS
<1>3. CASE answer = NULL
  <2>1. jobs' = es /\ phase' = phase /\ core_job_ptrs' = p
    BY <1>3 DEF TakeChoice
  <2>2. Picture(jobs', core_job_ptrs', J)
    BY <2>1
  <2>3. SameTimes(jobs', N1)
    <3> HIDE DEF N, N1
    <3>1. SameTimes(es, N) /\ \A j \in J : SameKey(N[j], N1[j])
      BY DEF N, N1
    <3> QED BY <2>1, <2>2, <3>1, SameKeysSameTimes
  <2> QED BY <1>2, <2>1, <2>2, <2>3
<1>4. CASE answer # NULL
  <2>0. answer \in J
    BY <1>4
  <2>1. \A d \in DOMAIN p : p[d] # answer
    <3>1. PlacedOnce(core_job_ptrs', job_queue', J)
      BY DEF SchedInv
    <3>2. core_job_ptrs'[c] = answer /\ \A d \in Cores : d # c => core_job_ptrs'[d] = p[d]
      BY <1>0
    <3>3. DOMAIN core_job_ptrs' = Cores
      BY <1>0
    <3> QED BY <1>0, <1>4, <3>1, <3>2, <3>3 DEF PlacedOnce
  <2>2. \A k \in 1..Len(es) : es[k].job_id # p[c]
    <3>1. \A k \in 1..Len(es) : es[k].core_id = c <=> p[c] = es[k].job_id
      BY <1>0 DEF Picture
    <3>2. \A k \in 1..Len(es) : es[k] \in EntryStruct
      BY DEF Picture
    <3>3. \A k \in 1..Len(es) : es[k].job_id \in JobIds
      BY <3>2 DEF EntryStruct
    <3> QED BY <1>0, <3>3
  <2>3. core_job_ptrs' = [p EXCEPT ![c] = answer]
    BY <1>0
  <2> HIDE DEF p, N, N1
  <2>4. Picture(es, p, J) /\ SameTimes(es, N)
    BY DEF p, N
  <2>5. /\ Selectable(es, answer)
        /\ Picture(WithActiveJob(es, answer, c), [p EXCEPT ![c] = answer], J)
        /\ \A M : SameTimes(es, M) => SameTimes(WithActiveJob(es, answer, c), M)
        /\ DoneOnCore(es) => DoneOnCore(WithActiveJob(es, answer, c))
    BY <1>0, <2>0, <2>1, <2>2, <2>4, ChoiceTaken
  <2>6. jobs' = WithActiveJob(es, answer, c) /\ phase' = phase
    BY <1>4, <2>5 DEF TakeChoice
  <2>7. Picture(jobs', core_job_ptrs', J) /\ SameTimes(jobs', N) /\ DoneOnCore(jobs')
    BY <2>3, <2>4, <2>5, <2>6
  <2>8. \A j \in J : SameKey(N[j], N1[j])
    BY DEF N, N1
  <2>9. SameTimes(jobs', N1)
    BY <2>7, <2>8, SameKeysSameTimes
  <2> QED BY <1>2, <2>6, <2>7, <2>9
<1> QED BY <1>3, <1>4

\* Step 1 of the simulator's loop, a finished job, keeps the invariant.
LEMMA FinishKeeps ==
  ASSUME IInv, Finish
  PROVE  IInv'
<1> PICK i \in Entries, answer \in JobIds \cup {NULL} :
      /\ IsFirst(i, LAMBDA k : jobs[k].run_time = 0)
      /\ scheduler_job_finished(jobs[i].core_id, time, answer)
      /\ TakeChoice(Deleted(i), jobs[i].core_id, answer)
  BY DEF Finish
<1> DEFINE c == jobs[i].core_id
           J == DOMAIN job \ {jobs[i].job_id}
           N == Now(core_job_ptrs, job, time)
<1>1. /\ phase = "finish" /\ UNCHANGED time /\ jobs[i].run_time = 0
  BY DEF Finish, IsFirst
<1>2. c \in Cores /\ core_job_ptrs[c] = jobs[i].job_id /\ jobs[i].job_id # NULL
  <2>1. c \in Cores \cup {-1} /\ c # -1
    BY <1>1, InvFacts DEF IInv, SimInv, Picture, DoneOnCore
  <2> QED BY <2>1, InvFacts
<1>3. /\ SchedInv'
      /\ DOMAIN job' = J
      /\ core_job_ptrs' = [core_job_ptrs EXCEPT ![c] = answer]
      /\ answer = NULL \/ answer \in J
      /\ \A j \in J : SameKey(N[j], Now(core_job_ptrs', job', time)[j])
  <2>1. SchedInv
    BY DEF IInv
  <2> QED BY <1>1, <1>2, <2>1, FinishedKeeps
<1>4. /\ Picture(Deleted(i), [core_job_ptrs EXCEPT ![c] = NULL], J)
      /\ SameTimes(Deleted(i), N)
      /\ DoneOnCore(Deleted(i))
  <2>1. Picture(jobs, core_job_ptrs, DOMAIN job) /\ SameTimes(jobs, N) /\ DoneOnCore(jobs)
    BY DEF IInv, SimInv
  <2>2. /\ NULL \notin JobIds /\ DOMAIN core_job_ptrs \subseteq Int
        /\ -1 \notin DOMAIN core_job_ptrs /\ c \in DOMAIN core_job_ptrs
    BY <1>2, InvFacts
  <2> HIDE DEF N
  <2> QED BY <2>1, <2>2, DeletedPicture
<1>5. /\ Picture(jobs', core_job_ptrs', DOMAIN job')
      /\ SameTimes(jobs', Now(core_job_ptrs, job, time)')
      /\ DoneOnCore(jobs')
      /\ phase' = phase
  <2> HIDE DEF J
  <2> QED BY <1>1, <1>2, <1>3, <1>4, CoreGivenAway
<1>6. SimInv'
  BY <1>1, <1>5 DEF SimInv
<1> QED BY <1>3, <1>6 DEF IInv

\* Step 2, an expired quantum, keeps it.
LEMMA ExpireKeeps ==
  ASSUME IInv, Expire
  PROVE  IInv'
<1> PICK c \in Cores, i \in Entries, answer \in JobIds \cup {NULL} :
      /\ IsFirst(i, LAMBDA k : jobs[k].core_id = c)
      /\ scheduler_quantum_expired(c, time, answer)
      /\ TakeChoice([jobs EXCEPT ![i].core_id = -1], c, answer)
  BY DEF Expire
<1> DEFINE es == [jobs EXCEPT ![i].core_id = -1]
           J == DOMAIN job
           N == Now(core_job_ptrs, job, time)
<1>1. /\ phase = "expire" /\ UNCHANGED time /\ jobs[i].core_id = c
  BY DEF Expire, IsFirst
<1>2. core_job_ptrs[c] = jobs[i].job_id /\ jobs[i].job_id # NULL
  BY <1>1, InvFacts
<1>3. /\ SchedInv'
      /\ DOMAIN job' = J
      /\ core_job_ptrs' = [core_job_ptrs EXCEPT ![c] = answer]
      /\ answer = NULL \/ answer \in J
      /\ \A j \in J : SameKey(N[j], Now(core_job_ptrs', job', time)[j])
  <2>1. SchedInv /\ current_scheme = "RR" /\ core_job_ptrs[c] # NULL
    BY <1>1, <1>2 DEF IInv, SimInv
  <2> QED BY <1>1, <2>1, ExpiredKeeps
<1>4. UNCHANGED current_scheme
  BY DEF scheduler_quantum_expired
<1>5. \A k \in Entries : jobs[k].run_time # 0
  BY <1>1 DEF IInv, SimInv
<1>6. /\ Picture(es, [core_job_ptrs EXCEPT ![c] = NULL], J)
      /\ SameTimes(es, N)
      /\ \A k \in Entries : es[k].run_time = jobs[k].run_time
  <2>1. Picture(jobs, core_job_ptrs, DOMAIN job) /\ SameTimes(jobs, N)
    BY DEF IInv, SimInv
  <2>2. /\ NULL \notin JobIds /\ DOMAIN core_job_ptrs \subseteq Int
        /\ -1 \notin DOMAIN core_job_ptrs /\ c \in DOMAIN core_job_ptrs
    BY InvFacts
  <2> HIDE DEF N
  <2> QED BY <1>1, <2>1, <2>2, ReleasedPicture
<1>7. Len(es) = Len(jobs) /\ Entries = 1..Len(jobs) /\ Len(jobs) \in Nat
  <2>1. jobs \in Seq(EntryStruct) /\ Entries = 1..Len(jobs) /\ Len(jobs) \in Nat
    BY InvFacts
  <2> QED BY <2>1
<1> HIDE DEF es, J
<1>8. DoneOnCore(es)
  BY <1>5, <1>6, <1>7 DEF DoneOnCore
<1>9. /\ Picture(jobs', core_job_ptrs', DOMAIN job')
      /\ SameTimes(jobs', Now(core_job_ptrs, job, time)')
      /\ DoneOnCore(jobs')
      /\ phase' = phase
      /\ jobs' = es \/ jobs' = WithActiveJob(es, answer, c)
  <2>1. TakeChoice(es, c, answer)
    BY DEF es
  <2> QED BY <1>1, <1>3, <1>6, <1>8, <2>1, CoreGivenAway
<1>10. \A k \in 1..Len(jobs') : jobs'[k].run_time # 0
  <2>1. CASE jobs' = es
    BY <1>5, <1>6, <1>7, <2>1
  <2>2. CASE jobs' = WithActiveJob(es, answer, c)
    <3>1. es \in Seq(EntryStruct)
      BY <1>6 DEF Picture
    <3>2. \A k \in 1..Len(es) : es[k] \in EntryStruct
      BY <3>1
    <3>3. Len(jobs') = Len(es)
      BY <1>7, <2>2 DEF WithActiveJob
    <3>4. ASSUME NEW k \in 1..Len(es) PROVE jobs'[k].run_time = es[k].run_time
      <4>1. [es[k] EXCEPT !.core_id = c].run_time = es[k].run_time
        BY <3>2 DEF EntryStruct
      <4> QED BY <2>2, <4>1 DEF WithActiveJob
    <3> QED BY <1>5, <1>6, <1>7, <3>3, <3>4
  <2> QED BY <1>9, <2>1, <2>2
<1>11. SimInv'
  <2>1. current_scheme' = "RR"
    BY <1>1, <1>4 DEF IInv, SimInv
  <2> QED BY <1>1, <1>9, <1>10, <2>1 DEF SimInv, Entries
<1> QED BY <1>3, <1>11 DEF IInv

\* Step 3, an arrival, keeps it.
LEMMA ArriveKeeps ==
  ASSUME IInv, Arrive
  PROVE  IInv'
<1> PICK i \in Entries, answer \in Cores \cup {NULL} :
      /\ IsFirst(i, Arrives)
      /\ scheduler_new_job(jobs[i].job_id, time, jobs[i].run_time, jobs[i].priority, answer)
      /\ jobs' = WithArrived(i, answer)
  BY DEF Arrive
<1> DEFINE id == jobs[i].job_id
           N == Now(core_job_ptrs, job, time)
           N1 == Now(core_job_ptrs', job', time)
<1>1. /\ phase = "arrive" /\ UNCHANGED <<time, phase>> /\ ~jobs[i].arrived
  BY DEF Arrive, IsFirst, Arrives
<1>2. id \in JobIds \ DOMAIN job /\ jobs[i].run_time \in Int /\ jobs[i].priority \in Int
  <2>1. jobs[i] \in EntryStruct /\ Entries = 1..Len(jobs)
    BY InvFacts
  <2>2. jobs[i].arrived <=> id \in DOMAIN job
    BY <2>1 DEF IInv, SimInv, Picture
  <2> QED BY <1>1, <2>1, <2>2 DEF EntryStruct
<1>3. \A c \in Cores : core_job_ptrs[c] # id
  BY <1>2, InvFacts
<1>4. /\ SchedInv'
      /\ DOMAIN job' = DOMAIN job \cup {id}
      /\ \/ answer = NULL /\ core_job_ptrs' = core_job_ptrs
         \/ answer \in Cores /\ core_job_ptrs' = [core_job_ptrs EXCEPT ![answer] = id]
      /\ \A k \in DOMAIN job : SameKey(N[k], N1[k])
      /\ N1[id].remaining_time = jobs[i].run_time
  <2>1. SchedInv
    BY DEF IInv
  <2> QED BY <1>1, <1>2, <2>1, NewJobKeeps
<1>5. /\ Picture(jobs', core_job_ptrs', DOMAIN job \cup {id})
      /\ Len(jobs') = Len(jobs)
      /\ \A k \in Entries : /\ jobs'[k].job_id = jobs[k].job_id
                            /\ jobs'[k].run_time = jobs[k].run_time
                            /\ k # i => jobs'[k].arrived = jobs[k].arrived
  <2>1. Picture(jobs, core_job_ptrs, DOMAIN job)
    BY DEF IInv, SimInv
  <2>2. /\ NULL \notin JobIds /\ NULL \notin DOMAIN core_job_ptrs
        /\ DOMAIN core_job_ptrs \subseteq Int /\ -1 \notin DOMAIN core_job_ptrs
        /\ DOMAIN core_job_ptrs = Cores
    BY InvFacts
  <2> DEFINE es == WithArrived(i, answer)
  <2>3. ArrivalShown(es, i, core_job_ptrs', DOMAIN job \cup {id})
    <3>1. \/ answer = NULL /\ core_job_ptrs' = core_job_ptrs
          \/ answer \in DOMAIN core_job_ptrs /\ core_job_ptrs' = [core_job_ptrs EXCEPT ![answer] = id]
      BY <1>4, <2>2
    <3>2. \A c \in DOMAIN core_job_ptrs : core_job_ptrs[c] # id
      BY <1>3, <2>2
    <3> QED BY <1>1, <2>1, <2>2, <3>1, <3>2, ArrivedPicture
  <2>4. jobs' = es
    OBVIOUS
  <2> HIDE DEF es
  <2> QED BY <2>3, <2>4 DEF ArrivalShown
<1> HIDE DEF N, N1
<1>6. SameTimes(jobs', N1)
  <2> SUFFICES ASSUME NEW k \in 1..Len(jobs'), jobs'[k].arrived
               PROVE  jobs'[k].run_time = N1[jobs'[k].job_id].remaining_time
    BY DEF SameTimes
  <2>0. k \in Entries /\ Entries = 1..Len(jobs)
    BY <1>5, InvFacts
  <2>1. CASE k = i
    BY <1>4, <1>5, <2>0, <2>1
  <2>2. CASE k # i
    <3>1. jobs[k].arrived /\ SameTimes(jobs, N)
      BY <1>5, <2>0, <2>2 DEF IInv, SimInv, N
    <3>2. jobs[k].run_time = N[jobs[k].job_id].remaining_time
      BY <2>0, <3>1 DEF SameTimes
    <3>3. jobs[k].job_id \in DOMAIN job
      BY <2>0, <3>1 DEF IInv, SimInv, Picture
    <3> QED BY <1>4, <1>5, <2>0, <3>2, <3>3 DEF SameKey
  <2> QED BY <2>1, <2>2
<1>7. \A k \in 1..Len(jobs') : jobs'[k].run_time # 0
  BY <1>1, <1>5, InvFacts DEF IInv, SimInv
<1>8. DoneOnCore(jobs')
  BY <1>7 DEF DoneOnCore
<1>9. Picture(jobs', core_job_ptrs', DOMAIN job')
  BY <1>4, <1>5
<1>10. N1 = Now(core_job_ptrs, job, time)'
  BY <1>1 DEF N1
<1>11. SimInv'
  BY <1>1, <1>6, <1>7, <1>8, <1>9, <1>10 DEF SimInv, Entries
<1> QED BY <1>4, <1>11 DEF IInv

\* The keys after a time unit: the remaining time of a running job is one less.
LEMMA UnitOfTime ==
  ASSUME SchedTypeOK, NEW j \in DOMAIN job
  PROVE  LET N == Now(core_job_ptrs, job, time)
             N1 == Now(core_job_ptrs, job, time + 1) IN
         /\ N[j] \in JobStruct /\ N1[j] \in JobStruct
         /\ N1[j].arrival_time = N[j].arrival_time /\ N1[j].priority = N[j].priority
         /\ N1[j].remaining_time = IF \E c \in Cores : core_job_ptrs[c] = j
                                   THEN N[j].remaining_time - 1 ELSE N[j].remaining_time
<1> DEFINE N == Now(core_job_ptrs, job, time)
           N1 == Now(core_job_ptrs, job, time + 1)
           jb == job[j]
<1>1. jb \in JobStruct /\ time \in Int /\ time + 1 \in Int
  BY DEF SchedTypeOK
<1>2. /\ N[j] = IF \E c \in Cores : core_job_ptrs[c] = j THEN Aged(jb, time) ELSE jb
      /\ N1[j] = IF \E c \in Cores : core_job_ptrs[c] = j THEN Aged(jb, time + 1) ELSE jb
  BY DEF Now, Cores
<1> HIDE DEF jb, N, N1
<1>3. /\ Aged(jb, time) \in JobStruct /\ Aged(jb, time + 1) \in JobStruct
  BY <1>1, AgedStruct
<1>4. /\ Aged(jb, time + 1).arrival_time = Aged(jb, time).arrival_time
      /\ Aged(jb, time + 1).priority = Aged(jb, time).priority
  BY <1>1 DEF Aged, JobStruct
<1>5. Aged(jb, time + 1).remaining_time = Aged(jb, time).remaining_time - 1
  <2>1. /\ Aged(jb, time + 1).remaining_time = jb.remaining_time - (time + 1 - jb.last_scheduled_time)
        /\ Aged(jb, time).remaining_time = jb.remaining_time - (time - jb.last_scheduled_time)
        /\ jb.remaining_time \in Int /\ jb.last_scheduled_time \in Int
    BY <1>1 DEF Aged, JobStruct
  <2> QED BY <1>1, <2>1
<1>6. CASE \E c \in Cores : core_job_ptrs[c] = j
  BY <1>2, <1>3, <1>4, <1>5, <1>6 DEF N, N1
<1>7. CASE ~\E c \in Cores : core_job_ptrs[c] = j
  BY <1>1, <1>2, <1>7 DEF N, N1
<1> QED BY <1>6, <1>7

\* A job that has run gets no worse.
LEMMA RunningStaysFirst ==
  ASSUME current_scheme \in Schemes,
         NEW a \in JobStruct, NEW a1 \in JobStruct, NEW b \in JobStruct,
         a1.arrival_time = a.arrival_time, a1.priority = a.priority,
         a1.remaining_time = a.remaining_time - 1, comparer(a, b) <= 0
  PROVE  comparer(a1, b) <= 0
<1> USE DEF JobStruct
<1>1. CASE current_scheme \in {"FCFS", "RR"}
  BY <1>1 DEF comparer, compare_fcfs, compare_rr
<1>2. CASE current_scheme \in {"SJF", "PSJF"}
  BY <1>2 DEF comparer, compare_sjf
<1>3. CASE current_scheme \in {"PRI", "PPRI"}
  BY <1>3 DEF comparer, compare_pri
<1> QED BY <1>1, <1>2, <1>3 DEF Schemes

\* The scheduler's invariant holds over a time unit in which it is not called.
LEMMA TimeKeeps ==
  ASSUME SchedInv, UNCHANGED schedVars, time' = time + 1
  PROVE  SchedInv'
<1> DEFINE N == Now(core_job_ptrs, job, time)
           N1 == Now(core_job_ptrs, job, time + 1)
<1>0. /\ SchedTypeOK /\ current_scheme \in Schemes /\ DOMAIN core_job_ptrs = Cores
      /\ PlacedOnce(core_job_ptrs, job_queue, DOMAIN job)
      /\ UNCHANGED <<current_scheme, job, core_job_ptrs, job_queue>>
  BY DEF SchedInv, SchedTypeOK, schedVars, Cores
<1>1. \A k \in 1..Len(job_queue) :
         /\ job_queue[k] \in DOMAIN job
         /\ N[job_queue[k]] = job[job_queue[k]] /\ N1[job_queue[k]] = job[job_queue[k]]
  BY <1>0, QueuedIsCurrent
<1>2. ASSUME NEW c \in Cores, core_job_ptrs[c] # NULL, NEW k \in 1..Len(job_queue),
             NoneBefore(core_job_ptrs, job_queue, N)
      PROVE  comparer(N1[core_job_ptrs[c]], N1[job_queue[k]]) <= 0
  <2> DEFINE j == core_job_ptrs[c]
             b == job_queue[k]
  <2>1. j \in DOMAIN job /\ b \in DOMAIN job /\ N1[b] = N[b]
    BY <1>0, <1>1, <1>2 DEF PlacedOnce
  <2>2. /\ N[j] \in JobStruct /\ N1[j] \in JobStruct /\ N[b] \in JobStruct
        /\ N1[j].arrival_time = N[j].arrival_time /\ N1[j].priority = N[j].priority
        /\ N1[j].remaining_time = N[j].remaining_time - 1
    BY <1>0, <2>1, UnitOfTime
  <2>3. comparer(N[j], N[b]) <= 0
    BY <1>0, <1>2 DEF NoneBefore
  <2> HIDE DEF N, N1, j, b
  <2>4. comparer(N1[j], N[b]) <= 0
    BY <1>0, <2>2, <2>3, RunningStaysFirst
  <2> QED BY <2>1, <2>4 DEF j, b
<1>3. ASSUME NEW a, NEW b PROVE comparer(a, b)' = comparer(a, b)
  BY <1>0 DEF comparer
<1>4. Now(core_job_ptrs, job, time)' = N1
  BY <1>0
<1> HIDE DEF N, N1
<1>5. Sorted(job_queue, N1) /\ (current_scheme \in {"PSJF", "PPRI"} => NoneBefore(core_job_ptrs, job_queue, N1))
  <2>1. Sorted(job_queue, N) /\ (current_scheme \in {"PSJF", "PPRI"} => NoneBefore(core_job_ptrs, job_queue, N))
    BY DEF SchedInv, N
  <2>2. Sorted(job_queue, N1)
    BY <1>1, <2>1 DEF Sorted
  <2>3. ASSUME current_scheme \in {"PSJF", "PPRI"} PROVE NoneBefore(core_job_ptrs, job_queue, N1)
    BY <1>0, <1>2, <2>1, <2>3 DEF NoneBefore
  <2> QED BY <2>2, <2>3
<1>6. Sorted(job_queue, Now(core_job_ptrs, job, time))'
  BY <1>0, <1>3, <1>4, <1>5 DEF Sorted
<1>7. (current_scheme \in {"PSJF", "PPRI"} =>
         NoneBefore(core_job_ptrs, job_queue, Now(core_job_ptrs, job, time)))'
  BY <1>0, <1>3, <1>4, <1>5 DEF NoneBefore
<1>8. SchedTypeOK' /\ BusyIfWaiting' /\ PlacedOnce(core_job_ptrs, job_queue, DOMAIN job)'
  <2>1. time' \in Nat
    BY <1>0 DEF SchedTypeOK
  <2> QED BY <1>0, <2>1 DEF SchedInv, SchedTypeOK, BusyIfWaiting, AllBusy, Cores
<1> QED BY <1>6, <1>7, <1>8 DEF SchedInv

\* Two entries are never on one core, and a core never idles with all jobs
\* waiting: the assertion and the check of simulator.c hold.
LEMMA SanityHolds ==
  ASSUME IInv
  PROVE  ~CoresShared /\ ~AllIdle
<1>1. ~CoresShared
  <2> SUFFICES ASSUME NEW i \in Entries, NEW k \in Entries, i # k, Running(i),
                      jobs[i].core_id = jobs[k].core_id
               PROVE  FALSE
    BY DEF CoresShared
  <2>1. jobs[i].core_id \in Cores
    BY InvFacts DEF IInv, SimInv, Picture, Running
  <2>2. jobs[i].job_id = jobs[k].job_id
    BY <2>1, InvFacts
  <2> QED BY <2>2, InvFacts DEF IInv, SimInv, Picture
<1>2. ~AllIdle
  <2> SUFFICES ASSUME NEW i \in Entries, jobs[i].arrived, \A k \in Entries : ~Running(k)
               PROVE  FALSE
    BY DEF AllIdle
  <2>1. jobs[i].job_id \in DOMAIN job
    BY InvFacts DEF IInv, SimInv, Picture
  <2>2. \A c \in Cores, k \in Entries : core_job_ptrs[c] # jobs[k].job_id
    <3> SUFFICES ASSUME NEW c \in Cores, NEW k \in Entries, core_job_ptrs[c] = jobs[k].job_id
                 PROVE  FALSE
      OBVIOUS
    <3>1. jobs[k].core_id = c /\ c # -1
      BY InvFacts
    <3> QED BY <3>1 DEF Running
  <2>3. PICK k \in 1..Len(job_queue) : job_queue[k] = jobs[i].job_id
    BY <2>1, <2>2 DEF IInv, SchedInv, PlacedOnce, Cores
  <2>4. job_queue # <<>>
    <3>1. job_queue \in Seq(JobIds)
      BY DEF IInv, SchedInv, SchedTypeOK
    <3> QED BY <2>3, <3>1
  <2>5. AllBusy
    BY <2>4 DEF IInv, SchedInv, BusyIfWaiting
  <2>6. PICK c \in Cores : core_job_ptrs[c] \in DOMAIN job
    BY <2>5, InvFacts DEF AllBusy
  <2>7. PICK k2 \in Entries : jobs[k2].job_id = core_job_ptrs[c]
    BY <2>6, InvFacts DEF IInv, SimInv, Picture
  <2> QED BY <2>2, <2>7
<1> QED BY <1>1, <1>2

\* Steps 4 to 7, a unit of time, keep it.
LEMMA RunUnitKeeps ==
  ASSUME IInv, RunUnit
  PROVE  IInv'
<1> DEFINE n == Len(jobs)
           N == Now(core_job_ptrs, job, time)
           N1 == Now(core_job_ptrs, job, time + 1)
<1>0. /\ n \in Nat /\ Entries = 1..n /\ DOMAIN core_job_ptrs = Cores
      /\ \A i \in 1..n : jobs[i] \in EntryStruct
  BY InvFacts
<1>1. /\ phase = "run" /\ phase' = "finish" /\ time' = time + 1
      /\ UNCHANGED <<current_scheme, job, core_job_ptrs, job_queue>> /\ UNCHANGED schedVars
      /\ jobs' = [i \in 1..n |-> IF Running(i) THEN [jobs[i] EXCEPT !.run_time = @ - 1] ELSE jobs[i]]
  BY <1>0, SanityHolds DEF RunUnit, schedVars
<1>2. SchedInv'
  BY <1>1, TimeKeeps DEF IInv
<1>3. ASSUME NEW i \in 1..n
      PROVE  /\ jobs'[i] \in EntryStruct
             /\ jobs'[i].job_id = jobs[i].job_id /\ jobs'[i].core_id = jobs[i].core_id
             /\ jobs'[i].arrived = jobs[i].arrived
             /\ jobs'[i].run_time = IF Running(i) THEN jobs[i].run_time - 1 ELSE jobs[i].run_time
             /\ jobs[i].run_time \in Nat \ {0}
  <2>1. jobs[i].run_time \in Nat \ {0}
    BY <1>0, <1>1 DEF IInv, SimInv, EntryStruct
  <2> DEFINE r == jobs[i].run_time - 1
             e == [jobs[i] EXCEPT !.run_time = r]
  <2>2. r \in Nat
    BY <2>1
  <2>3. jobs'[i] = IF Running(i) THEN e ELSE jobs[i]
    BY <1>1
  <2>4. jobs[i] \in EntryStruct
    BY <1>0
  <2>5. /\ e \in EntryStruct /\ e.job_id = jobs[i].job_id /\ e.core_id = jobs[i].core_id
        /\ e.arrived = jobs[i].arrived /\ e.run_time = r
    <3> HIDE DEF r
    <3> QED BY <2>2, <2>4 DEF EntryStruct
  <2> HIDE DEF e
  <2> QED BY <2>1, <2>3, <2>4, <2>5
<1>4. jobs' \in Seq(EntryStruct) /\ Len(jobs') = n
  <2>1. jobs' \in [1..n -> EntryStruct]
    BY <1>1, <1>3
  <2> QED BY <1>0, <2>1, FunctionIsSequence
<1>5. Picture(jobs', core_job_ptrs, DOMAIN job)
  <2>0. Picture(jobs, core_job_ptrs, DOMAIN job)
    BY DEF IInv, SimInv
  <2>1. \A k \in 1..n : jobs'[k].core_id \in DOMAIN core_job_ptrs \cup {-1}
    BY <1>3, <2>0 DEF Picture
  <2>2. ASSUME NEW k \in 1..n, NEW l \in 1..n, jobs'[k].job_id = jobs'[l].job_id PROVE k = l
    <3>1. jobs[k].job_id = jobs[l].job_id
      BY <1>3, <2>2
    <3> QED BY <2>0, <3>1 DEF Picture
  <2>3. ASSUME NEW k \in 1..n, NEW c \in DOMAIN core_job_ptrs
        PROVE  jobs'[k].core_id = c <=> core_job_ptrs[c] = jobs'[k].job_id
    BY <1>3, <2>0 DEF Picture
  <2>4. ASSUME NEW k \in 1..n PROVE jobs'[k].arrived <=> jobs'[k].job_id \in DOMAIN job
    BY <1>3, <2>0 DEF Picture
  <2>5. ASSUME NEW j \in DOMAIN job PROVE \E k \in 1..n : jobs'[k].job_id = j
    BY <1>3, <2>0 DEF Picture
  <2> QED BY <1>4, <2>1, <2>2, <2>3, <2>4, <2>5 DEF Picture
<1>6. ASSUME NEW i \in 1..n, jobs'[i].arrived
      PROVE  jobs'[i].run_time = N1[jobs'[i].job_id].remaining_time
  <2> DEFINE j == jobs[i].job_id
  <2>1. /\ jobs[i].arrived /\ j \in DOMAIN job /\ SameTimes(jobs, N)
    BY <1>3, <1>6 DEF IInv, SimInv, Picture
  <2>2. jobs[i].run_time = N[j].remaining_time
    BY <2>1 DEF SameTimes
  <2>3. N1[j].remaining_time = IF \E c \in Cores : core_job_ptrs[c] = j
                               THEN N[j].remaining_time - 1 ELSE N[j].remaining_time
    <3>1. SchedTypeOK
      BY DEF IInv, SchedInv
    <3> QED BY <2>1, <3>1, UnitOfTime
  <2>4. Running(i) <=> \E c \in Cores : core_job_ptrs[c] = j
    <3>1. jobs[i].core_id \in Cores \cup {-1}
      BY <1>0 DEF IInv, SimInv, Picture
    <3> QED BY <1>0, <3>1, InvFacts DEF Running
  <2> QED BY <1>3, <2>2, <2>3, <2>4
<1>7. SameTimes(jobs', Now(core_job_ptrs, job, time)')
  <2>1. Now(core_job_ptrs, job, time)' = N1
    BY <1>1
  <2> HIDE DEF N1
  <2> QED BY <1>4, <1>6, <2>1 DEF SameTimes
<1>8. DoneOnCore(jobs')
  <2> SUFFICES ASSUME NEW i \in 1..n, jobs'[i].run_time = 0 PROVE jobs'[i].core_id # -1
    BY <1>4 DEF DoneOnCore
  <2> QED BY <1>3 DEF Running
<1>9. SimInv'
  BY <1>1, <1>5, <1>7, <1>8 DEF SimInv
<1> QED BY <1>2, <1>9 DEF IInv

\* Before the first call everything is empty and the entries are on no core.
LEMMA InitIInv == SimInit => IInv
<1> SUFFICES ASSUME SimInit PROVE IInv
  OBVIOUS
<1>1. PICK w \in Workloads, s \in Selected :
        scheduler_start_up(w.cores, s) /\ jobs = [i \in DOMAIN w.file |-> Entry(w.file, i)]
  BY DEF SimInit
<1>2. /\ w.cores \in Nat \ {0} /\ s \in Schemes
      /\ w.file \in Seq([arrival_time : Nat, run_time : Nat \ {0}, priority : Int])
      /\ \A i \in DOMAIN w.file : i - 1 \in JobIds
  BY WorkloadsAssumption, SelectedAssumption
<1>3. /\ current_scheme = s /\ job = <<>> /\ job_queue = <<>>
      /\ core_job_ptrs = [c \in 0..(w.cores - 1) |-> NULL]
      /\ time = 0 /\ phase = "finish"
  BY <1>1 DEF scheduler_start_up, SimInit
<1>4. DOMAIN job = {}
  BY <1>3
<1>5. SchedInv
  <2>1. /\ Cores = 0..(w.cores - 1) /\ core_job_ptrs \in [Cores -> JobIds \cup {NULL}]
        /\ \A c \in Cores : core_job_ptrs[c] = NULL
    BY <1>3 DEF Cores
  <2>2. job \in [DOMAIN job -> JobStruct]
    BY <1>3, <1>4
  <2>3. SchedTypeOK
    BY <1>2, <1>3, <1>4, <2>1, <2>2 DEF SchedTypeOK
  <2>4. PlacedOnce(core_job_ptrs, job_queue, DOMAIN job)
    BY <1>3, <1>4, <2>1 DEF PlacedOnce, Cores
  <2>5. Sorted(job_queue, Now(core_job_ptrs, job, time))
        /\ NoneBefore(core_job_ptrs, job_queue, Now(core_job_ptrs, job, time))
    BY <1>3 DEF Sorted, NoneBefore
  <2> QED BY <1>3, <2>3, <2>4, <2>5 DEF SchedInv, BusyIfWaiting
<1>6. SimInv
  <2> DEFINE n == Len(w.file)
  <2>1. n \in Nat /\ DOMAIN w.file = 1..n
        /\ \A i \in 1..n : w.file[i] \in [arrival_time : Nat, run_time : Nat \ {0}, priority : Int]
    <3> DEFINE S == [arrival_time : Nat, run_time : Nat \ {0}, priority : Int]
    <3>1. w.file \in Seq(S)
      BY <1>2
    <3> HIDE DEF S
    <3>2. n \in Nat /\ DOMAIN w.file = 1..n /\ \A i \in 1..n : w.file[i] \in S
      BY <3>1
    <3> QED BY <3>2 DEF S
  <2>2. ASSUME NEW i \in 1..n
        PROVE  /\ jobs[i] = Entry(w.file, i) /\ jobs[i] \in EntryStruct
               /\ jobs[i].job_id = i - 1 /\ jobs[i].core_id = -1 /\ jobs[i].arrived = FALSE
               /\ jobs[i].run_time # 0
    <3>1. jobs[i] = Entry(w.file, i)
      BY <1>1, <2>1
    <3>2. /\ w.file[i].run_time \in Nat \ {0} /\ w.file[i].arrival_time \in Nat
          /\ w.file[i].priority \in Int /\ i - 1 \in JobIds
      BY <1>2, <2>1
    <3> QED BY <3>1, <3>2 DEF Entry, EntryStruct
  <2>3. jobs \in Seq(EntryStruct) /\ Len(jobs) = n
    <3>1. jobs = [i \in 1..n |-> jobs[i]]
      BY <1>1, <2>1
    <3>2. jobs \in [1..n -> EntryStruct]
      BY <2>2, <3>1
    <3> QED BY <2>1, <3>2, FunctionIsSequence
  <2>4. Picture(jobs, core_job_ptrs, DOMAIN job)
    <3>1. DOMAIN core_job_ptrs = 0..(w.cores - 1) /\ \A c \in DOMAIN core_job_ptrs : core_job_ptrs[c] = NULL
      BY <1>3
    <3>2. -1 \notin DOMAIN core_job_ptrs
      BY <1>2, <3>1
    <3>3. \A k \in 1..n : jobs[k].job_id \in JobIds
      BY <2>2 DEF EntryStruct
    <3>4. NULL \notin JobIds
      BY NullAssumption
    <3>5. ASSUME NEW k \in 1..n, NEW l \in 1..n, jobs[k].job_id = jobs[l].job_id PROVE k = l
      <4>1. k \in Int /\ l \in Int
        BY <2>1
      <4>2. jobs[k].job_id = k - 1
        BY <2>2
      <4>3. jobs[l].job_id = l - 1
        BY <2>2
      <4>4. k - 1 = l - 1
        BY <3>5, <4>2, <4>3, Zenon
      <4> QED BY <4>1, <4>4
    <3>6. \A k \in 1..n : jobs[k].core_id \in DOMAIN core_job_ptrs \cup {-1}
      BY <2>2
    <3>7. \A k \in 1..n, c \in DOMAIN core_job_ptrs : jobs[k].core_id = c <=> core_job_ptrs[c] = jobs[k].job_id
      BY <2>2, <3>1, <3>2, <3>3, <3>4
    <3> QED BY <1>4, <2>2, <2>3, <3>5, <3>6, <3>7 DEF Picture
  <2>5. SameTimes(jobs, Now(core_job_ptrs, job, time)) /\ DoneOnCore(jobs)
    BY <2>2, <2>3 DEF SameTimes, DoneOnCore
  <2> QED BY <1>3, <2>4, <2>5 DEF SimInv
<1> QED BY <1>5, <1>6 DEF IInv

\* Every step of the simulator keeps the invariant.
LEMMA StepIInv == IInv /\ [Next]_vars => IInv'
<1> SUFFICES ASSUME IInv, [Next]_vars PROVE IInv'
  OBVIOUS
<1>1. ASSUME UNCHANGED <<schedVars, jobs, time>>, UNCHANGED phase \/
             (phase' \in {"done", "arrive", "run", "expire"} /\ \A i \in Entries : jobs[i].run_time # 0),
             phase' = "expire" => current_scheme = "RR"
      PROVE  IInv'
  <2>1. UNCHANGED <<current_scheme, job, core_job_ptrs, job_queue, jobs, time>>
    BY <1>1 DEF schedVars
  <2>2. SchedInv'
    <3>1. ASSUME NEW a, NEW b PROVE comparer(a, b)' = comparer(a, b)
      BY <2>1 DEF comparer
    <3> QED BY <2>1, <3>1 DEF IInv, SchedInv, SchedTypeOK, BusyIfWaiting, AllBusy, Cores, Sorted, NoneBefore
  <2>3. SimInv'
    BY <1>1, <2>1 DEF IInv, SimInv, Entries
  <2> QED BY <2>2, <2>3 DEF IInv
<1>2. CASE Finish
  BY <1>2, FinishKeeps
<1>3. CASE FinishesOver
  BY <1>1, <1>3 DEF FinishesOver
<1>4. CASE Expire
  BY <1>4, ExpireKeeps
<1>5. CASE ExpiriesOver
  BY <1>1, <1>5 DEF ExpiriesOver, IInv, SimInv
<1>6. CASE Arrive
  BY <1>6, ArriveKeeps
<1>7. CASE ArrivalsOver
  BY <1>1, <1>7 DEF ArrivalsOver, IInv, SimInv
<1>8. CASE RunUnit
  BY <1>8, RunUnitKeeps
<1>9. CASE UNCHANGED vars
  BY <1>1, <1>9 DEF vars, simVars, IInv, SimInv
<1> QED BY <1>2, <1>3, <1>4, <1>5, <1>6, <1>7, <1>8, <1>9 DEF Next

-----------------------------------------------------------------------------
(* The statistics *)

\* Job j is on a core of p.
OnCore(p, j) == \E c \in DOMAIN p : p[c] = j

\* What a call at time t makes of the structure of a job that was there: nothing
\* that the statistics are computed from changes, but that a job which is on a
\* core and had no start_time gets one.
RecordKept(old, new, on, t) ==
  /\ new.arrival_time = old.arrival_time
  /\ new.running_time = old.running_time
  /\ old.start_time # -1 => new.start_time = old.start_time
  /\ old.start_time = -1 => new.start_time = IF on THEN t ELSE -1

\* place_job_on_core sets start_time if it is not set.
LEMMA PlacedRecord ==
  ASSUME NEW jb \in JobStruct, NEW c, NEW t
  PROVE  RecordKept(jb, Placed(jb, c, t), TRUE, t)
BY DEF JobStruct, Placed, RecordKept

\* The job that is dispatched to core c is placed, and no other.
LEMMA DispatchRecords ==
  ASSUME NEW c \in Cores, NEW q, NEW J, NULL \notin J, NEW js \in [J -> JobStruct],
         NEW answer, Dispatch(c, time, q, js, answer),
         NEW j \in J, \A d \in Cores \ {c} : js[j].start_time = -1 => core_job_ptrs[d] # j
  PROVE  RecordKept(js[j], job'[j], OnCore(core_job_ptrs', j), time)
<1>1. /\ DOMAIN core_job_ptrs' = Cores /\ core_job_ptrs'[c] = answer
      /\ \A d \in Cores \ {c} : core_job_ptrs'[d] = core_job_ptrs[d]
  BY DEF Dispatch, Cores
<1>2. js[j].start_time = -1 => (OnCore(core_job_ptrs', j) <=> answer = j)
  BY <1>1 DEF OnCore
<1>3. CASE answer = j
  <2>1. job'[j] = Placed(js[j], c, time)
    BY <1>3 DEF Dispatch
  <2>2. RecordKept(js[j], job'[j], TRUE, time)
    BY <2>1, PlacedRecord
  <2>3. OnCore(core_job_ptrs', j)
    BY <1>1, <1>3 DEF OnCore
  <2> QED BY <2>2, <2>3 DEF RecordKept
<1>4. CASE answer # j
  <2>1. job'[j] = js[j]
    BY <1>4 DEF Dispatch
  <2> QED BY <1>2, <1>4, <2>1 DEF RecordKept
<1> QED BY <1>3, <1>4

\* A call of the scheduler at the present time keeps the records of the jobs J.
RecordsKept(J) ==
  \A j \in J : RecordKept(job[j], job'[j], OnCore(core_job_ptrs', j), time)

\* The jobs that are on a core have a start_time.
Started == \A c \in Cores : core_job_ptrs[c] # NULL => job[core_job_ptrs[c]].start_time # -1

\* scheduler_job_finished keeps the records of the other jobs.
LEMMA FinishedRecords ==
  ASSUME SchedInv, Started,
         NEW c \in Cores, core_job_ptrs[c] # NULL,
         NEW answer, scheduler_job_finished(c, time, answer)
  PROVE  RecordsKept(DOMAIN job \ {core_job_ptrs[c]})
<1> DEFINE J == DOMAIN job \ {core_job_ptrs[c]}
           js == [j \in J |-> job[j]]
<1>1. NULL \notin J /\ js \in [J -> JobStruct]
  BY NullAssumption DEF SchedInv, SchedTypeOK
<1>2. Dispatch(c, time, job_queue, js, answer)
  BY DEF scheduler_job_finished
<1>3. \A j \in J : js[j] = job[j]
  OBVIOUS
<1> HIDE DEF js
<1>4. ASSUME NEW j \in J PROVE RecordKept(job[j], job'[j], OnCore(core_job_ptrs', j), time)
  <2>1. \A d \in Cores \ {c} : js[j].start_time = -1 => core_job_ptrs[d] # j
    BY <1>1, <1>3 DEF Started
  <2>2. RecordKept(js[j], job'[j], OnCore(core_job_ptrs', j), time)
    BY <1>1, <1>2, <2>1, DispatchRecords
  <2> QED BY <1>3, <2>2
<1> QED BY <1>4 DEF RecordsKept

\* scheduler_quantum_expired keeps the records of all jobs.
LEMMA ExpiredRecords ==
  ASSUME SchedInv, Started,
         NEW c \in Cores, core_job_ptrs[c] # NULL,
         NEW answer, scheduler_quantum_expired(c, time, answer)
  PROVE  RecordsKept(DOMAIN job)
<1> DEFINE e == core_job_ptrs[c]
           J == DOMAIN job
           je == [Charged(e, time) EXCEPT !.core_id = -1]
           js == [job EXCEPT ![e] = je]
<1>0. NULL \notin J /\ job \in [J -> JobStruct] /\ time \in Int /\ e \in J
  BY NullAssumption DEF SchedInv, SchedTypeOK, PlacedOnce, Cores
<1>1. Dispatch(c, time, Offer(job_queue, e, js), js, answer)
  BY DEF scheduler_quantum_expired
<1>2. Aged(job[e], time) \in JobStruct /\ je = [Aged(job[e], time) EXCEPT !.core_id = -1]
  BY <1>0, AgedStruct DEF Charged, Aged
<1>3. /\ Aged(job[e], time).arrival_time = job[e].arrival_time
      /\ Aged(job[e], time).running_time = job[e].running_time
      /\ Aged(job[e], time).start_time = job[e].start_time
  BY <1>0 DEF Aged, JobStruct
<1> HIDE DEF je
<1>4. /\ je \in JobStruct /\ je.arrival_time = job[e].arrival_time
      /\ je.running_time = job[e].running_time /\ je.start_time = job[e].start_time
  BY <1>2, <1>3 DEF JobStruct
<1>5. js \in [J -> JobStruct] /\ js[e] = je /\ \A j \in J \ {e} : js[j] = job[j]
  BY <1>0, <1>4
<1> HIDE DEF js
<1>6. ASSUME NEW j \in J PROVE RecordKept(job[j], job'[j], OnCore(core_job_ptrs', j), time)
  <2>1. /\ js[j].arrival_time = job[j].arrival_time /\ js[j].running_time = job[j].running_time
        /\ js[j].start_time = job[j].start_time
    BY <1>4, <1>5
  <2>2. \A d \in Cores \ {c} : js[j].start_time = -1 => core_job_ptrs[d] # j
    BY <1>0, <2>1 DEF Started
  <2>3. RecordKept(js[j], job'[j], OnCore(core_job_ptrs', j), time)
    BY <1>0, <1>1, <1>5, <2>2, DispatchRecords
  <2> QED BY <2>1, <2>3 DEF RecordKept
<1> QED BY <1>6 DEF RecordsKept

\* A new job's record: it arrives now, and starts now if it gets a core.
RecordMade(j, running) ==
  /\ job'[j].arrival_time = time
  /\ job'[j].running_time = running
  /\ job'[j].start_time = IF OnCore(core_job_ptrs', j) THEN time ELSE -1

\* js has the records of the jobs that are there and a blank one for job j.
RecordsBefore(js, j, running) ==
  /\ js \in [DOMAIN job \cup {j} -> JobStruct]
  /\ \A k \in DOMAIN job : /\ js[k].arrival_time = job[k].arrival_time
                           /\ js[k].running_time = job[k].running_time
                           /\ js[k].start_time = job[k].start_time
  /\ js[j].arrival_time = time /\ js[j].running_time = running /\ js[j].start_time = -1

\* The structures from which the three ways of a new job start.
LEMMA NewJobRecordsBefore ==
  ASSUME SchedInv, NEW j \in JobIds \ DOMAIN job, NEW running \in Int, NEW priority \in Int,
         NEW js, js = WithNewJob(j, time, running, priority)
  PROVE  RecordsBefore(js, j, running)
<1> DEFINE N == Now(core_job_ptrs, job, time)
<1>0. time \in Int /\ job \in [DOMAIN job -> JobStruct]
  BY DEF SchedInv, SchedTypeOK
<1>1. N \in [DOMAIN job -> JobStruct]
  BY <1>0, NowStruct
<1>2. ASSUME NEW k \in DOMAIN job
      PROVE  /\ N[k].arrival_time = job[k].arrival_time
             /\ N[k].running_time = job[k].running_time
             /\ N[k].start_time = job[k].start_time
  <2>1. job[k] \in JobStruct
    BY <1>0
  <2>2. /\ Aged(job[k], time).arrival_time = job[k].arrival_time
        /\ Aged(job[k], time).running_time = job[k].running_time
        /\ Aged(job[k], time).start_time = job[k].start_time
    BY <2>1 DEF Aged, JobStruct
  <2>3. N[k] = Aged(job[k], time) \/ N[k] = job[k]
    BY DEF Now
  <2> QED BY <2>2, <2>3
<1>3. js = [k \in DOMAIN job \cup {j} |->
              IF k = j THEN NewJob(time, running, priority) ELSE N[k]]
  BY NowIsUpdated DEF WithNewJob
<1> HIDE DEF N
<1>4. /\ NewJob(time, running, priority) \in JobStruct
      /\ NewJob(time, running, priority).arrival_time = time
      /\ NewJob(time, running, priority).running_time = running
      /\ NewJob(time, running, priority).start_time = -1
  BY <1>0 DEF NewJob, JobStruct
<1>5. js \in [DOMAIN job \cup {j} -> JobStruct]
  BY <1>1, <1>3, <1>4
<1>6. js[j] = NewJob(time, running, priority) /\ \A k \in DOMAIN job : js[k] = N[k]
  BY <1>3
<1> QED BY <1>2, <1>4, <1>5, <1>6 DEF RecordsBefore

\* scheduler_new_job makes the new job's record and keeps the others.
LEMMA NewJobRecords ==
  ASSUME SchedInv, Started,
         NEW j \in JobIds \ DOMAIN job, NEW running \in Int, NEW priority \in Int,
         NEW answer, scheduler_new_job(j, time, running, priority, answer)
  PROVE  RecordsKept(DOMAIN job) /\ RecordMade(j, running)
<1> DEFINE D == DOMAIN job
           js == WithNewJob(j, time, running, priority)
<1>0. /\ NULL \notin D /\ NULL # j /\ D \subseteq JobIds
      /\ \A c \in Cores : core_job_ptrs[c] # NULL => core_job_ptrs[c] \in D
      /\ DOMAIN core_job_ptrs = Cores
  BY NullAssumption DEF SchedInv, SchedTypeOK, PlacedOnce, Cores
<1>1. \/ answer \in Cores /\ NewJobOnIdleCore(j, time, js, answer)
      \/ answer \in Cores /\ NewJobPreempts(j, time, js, answer)
      \/ NewJobWaits(j, js, answer)
  BY DEF scheduler_new_job
<1> HIDE DEF js
<1>2. RecordsBefore(js, j, running)
  BY NewJobRecordsBefore DEF js
<1> HIDE DEF D
<1> SUFFICES RecordsKept(D) /\ RecordMade(j, running)
  BY DEF D
<1>3. js \in [D \cup {j} -> JobStruct]
  BY <1>2 DEF RecordsBefore, D
<1>4. \A k \in D : /\ js[k].arrival_time = job[k].arrival_time
                   /\ js[k].running_time = job[k].running_time
                   /\ js[k].start_time = job[k].start_time
  BY <1>2 DEF RecordsBefore, D
<1>5. js[j].arrival_time = time /\ js[j].running_time = running /\ js[j].start_time = -1
  BY <1>2 DEF RecordsBefore
\* It is enough to know the structure and the place of each job.
<1>6. ASSUME RecordKept(js[j], job'[j], OnCore(core_job_ptrs', j), time),
             \A k \in D : RecordKept(js[k], job'[k], OnCore(core_job_ptrs', k), time)
      PROVE  RecordsKept(D) /\ RecordMade(j, running)
  BY <1>4, <1>5, <1>6 DEF RecordsKept, RecordMade, RecordKept
<1>7. \A k \in D : js[k].start_time = -1 => ~OnCore(core_job_ptrs, k)
  BY <1>0, <1>4 DEF Started, OnCore
<1>8. CASE NewJobWaits(j, js, answer)
  <2>1. job' = js /\ core_job_ptrs' = core_job_ptrs
    BY <1>8 DEF NewJobWaits
  <2>2. ~OnCore(core_job_ptrs, j)
    BY <1>0 DEF OnCore, D
  <2> QED BY <1>6, <1>7, <2>1, <2>2 DEF RecordKept
\* On a core, idle or not, that the job gets.
<1>9. ASSUME answer \in Cores, core_job_ptrs' = [core_job_ptrs EXCEPT ![answer] = j]
      PROVE  /\ OnCore(core_job_ptrs', j)
             /\ \A k \in D : OnCore(core_job_ptrs', k) => OnCore(core_job_ptrs, k)
  <2>1. /\ DOMAIN core_job_ptrs' = Cores /\ core_job_ptrs'[answer] = j
        /\ \A d \in Cores \ {answer} : core_job_ptrs'[d] = core_job_ptrs[d]
    BY <1>0, <1>9
  <2>2. j \notin D
    BY DEF D
  <2> QED BY <1>0, <1>9, <2>1, <2>2 DEF OnCore
<1>10. RecordKept(js[j], Placed(js[j], answer, time), TRUE, time)
  BY <1>3, PlacedRecord
<1>11. CASE answer \in Cores /\ NewJobOnIdleCore(j, time, js, answer)
  <2>1. /\ job' = [js EXCEPT ![j] = Placed(js[j], answer, time)]
        /\ core_job_ptrs' = [core_job_ptrs EXCEPT ![answer] = j]
    BY <1>11 DEF NewJobOnIdleCore
  <2>2. job'[j] = Placed(js[j], answer, time) /\ \A k \in D : job'[k] = js[k]
    BY <1>3, <2>1 DEF D
  <2>3. OnCore(core_job_ptrs', j) /\ \A k \in D : OnCore(core_job_ptrs', k) => OnCore(core_job_ptrs, k)
    BY <1>9, <1>11, <2>1
  <2>4. RecordKept(js[j], job'[j], OnCore(core_job_ptrs', j), time)
    BY <1>10, <2>2, <2>3 DEF RecordKept
  <2>5. \A k \in D : RecordKept(js[k], job'[k], OnCore(core_job_ptrs', k), time)
    BY <1>7, <2>2, <2>3 DEF RecordKept
  <2> QED BY <1>6, <2>4, <2>5
<1>12. CASE answer \in Cores /\ NewJobPreempts(j, time, js, answer)
  <2> DEFINE w == core_job_ptrs[answer]
  <2>1. /\ AllBusy
        /\ job' = [js EXCEPT ![w].core_id = -1, ![j] = Placed(@, answer, time)]
        /\ core_job_ptrs' = [core_job_ptrs EXCEPT ![answer] = j]
    BY <1>12 DEF NewJobPreempts
  <2>2. w \in D /\ w # j /\ js[w].start_time # -1
    <3>1. w # NULL /\ w \in D
      BY <1>0, <1>12, <2>1 DEF AllBusy
    <3>2. job[w].start_time # -1
      BY <1>12, <3>1 DEF Started
    <3> QED BY <1>4, <3>1, <3>2 DEF D
  <2> HIDE DEF w
  <2>3. /\ job'[j] = Placed(js[j], answer, time) /\ job'[w] = [js[w] EXCEPT !.core_id = -1]
        /\ \A k \in D : k # w => job'[k] = js[k]
    <3>1. job' = [[js EXCEPT ![w] = [js[w] EXCEPT !.core_id = -1]] EXCEPT ![j] = Placed(js[j], answer, time)]
      BY <1>3, <2>1, <2>2 DEF D
    <3> QED BY <1>3, <2>2, <3>1 DEF D
  <2>4. OnCore(core_job_ptrs', j) /\ \A k \in D : OnCore(core_job_ptrs', k) => OnCore(core_job_ptrs, k)
    BY <1>9, <1>12, <2>1
  <2>5. RecordKept(js[j], job'[j], OnCore(core_job_ptrs', j), time)
    BY <1>10, <2>3, <2>4 DEF RecordKept
  <2>6. ASSUME NEW k \in D PROVE RecordKept(js[k], job'[k], OnCore(core_job_ptrs', k), time)
    <3>1. CASE k = w
      <4>1. js[w] \in JobStruct
        BY <1>3, <2>2
      <4>2. /\ job'[w].arrival_time = js[w].arrival_time
            /\ job'[w].running_time = js[w].running_time
            /\ job'[w].start_time = js[w].start_time
        BY <2>3, <4>1 DEF JobStruct
      <4> QED BY <2>2, <3>1, <4>2 DEF RecordKept
    <3>2. CASE k # w
      BY <1>7, <2>3, <2>4, <3>2 DEF RecordKept
    <3> QED BY <3>1, <3>2
  <2> QED BY <1>6, <2>5, <2>6
<1> QED BY <1>1, <1>11, <1>12, <1>8

-----------------------------------------------------------------------------
(* The invariant of the statistics *)

\* The jobs that have not finished.
IdsLeft == {jobs[k].job_id : k \in Entries}

HistoryTypeOK ==
  /\ waited \in [JobIds -> Nat]
  /\ firstRun \in [JobIds -> Nat \cup {-1}]
  /\ DOMAIN quantum_clock = Cores
  /\ total_jobs_finished \in Nat
  /\ total_wait_time \in Int
  /\ 0..(JobCount - 1) \subseteq JobIds
  /\ IdsLeft \subseteq 0..(JobCount - 1)

\* A job that has not arrived has neither waited nor run.
NothingBeforeArrival == \A j \in IdsLeft \ DOMAIN job : waited[j] = 0 /\ firstRun[j] = -1

\* The time since its arrival a job has waited or run.
WaitRight(j) ==
  waited[j] + (job[j].running_time - Now(core_job_ptrs, job, time)[j].remaining_time)
    = time - job[j].arrival_time

\* Without preemption a job that has not run has a start_time just if it is
\* placed, namely now, and runs in this unit.
StartRight(j) ==
  current_scheme \notin {"PSJF", "PPRI"} =>
    job[j].start_time = IF firstRun[j] # -1 THEN firstRun[j]
                        ELSE IF OnCore(core_job_ptrs, j) THEN time ELSE -1

\* A job whose quantum expires has run.
FirstQuantum ==
  current_scheme = "RR" =>
    \A c \in Cores : core_job_ptrs[c] # NULL /\ firstRun[core_job_ptrs[c]] = -1
                       => quantum_clock[c] # 0

WaitedIfFinished(j) == IF j \in IdsLeft THEN 0 ELSE waited[j]

\* The sums of the waiting times of the finished jobs, in the order of their numbers.
SumsWaited(upTo) ==
  /\ upTo \in [0..JobCount -> Int]
  /\ upTo[0] = 0
  /\ \A k \in 1..JobCount : upTo[k] = upTo[k - 1] + WaitedIfFinished(k - 1)

TotalIsSum == \E upTo : SumsWaited(upTo) /\ upTo[JobCount] = total_wait_time

StatInv ==
  /\ HistoryTypeOK
  /\ NothingBeforeArrival
  /\ \A j \in DOMAIN job : WaitRight(j) /\ StartRight(j)
  /\ Started
  /\ FirstQuantum
  /\ TotalIsSum

\* A call leaves the times of a job right that it keeps and that it does not
\* take off a core before the job has run.
LEMMA JobStaysRight ==
  ASSUME IInv, IInv', StatInv, UNCHANGED <<current_scheme, time, history>>,
         NEW j \in DOMAIN job, j \in DOMAIN job',
         RecordKept(job[j], job'[j], OnCore(core_job_ptrs', j), time),
         SameKey(Now(core_job_ptrs, job, time)[j], Now(core_job_ptrs', job', time)[j]),
         current_scheme \notin {"PSJF", "PPRI"} /\ firstRun[j] = -1 /\ OnCore(core_job_ptrs, j)
           => OnCore(core_job_ptrs', j)
  PROVE  WaitRight(j)' /\ StartRight(j)'
<1>1. WaitRight(j)'
  <2>1. Now(core_job_ptrs', job', time')[j].remaining_time = Now(core_job_ptrs, job, time)[j].remaining_time
    BY DEF SameKey
  <2>2. /\ job'[j].arrival_time = job[j].arrival_time
        /\ job'[j].running_time = job[j].running_time
    BY DEF RecordKept
  <2>3. waited' = waited /\ time' = time
    BY DEF history
  <2>4. WaitRight(j)
    BY DEF StatInv
  <2> QED BY <2>1, <2>2, <2>3, <2>4 DEF WaitRight
<1>2. StartRight(j)'
  <2>0. time \in Nat /\ firstRun[j] \in Nat \cup {-1}
    BY InvFacts DEF IInv, SchedInv, SchedTypeOK, StatInv, HistoryTypeOK
  <2>1. firstRun' = firstRun /\ time' = time /\ current_scheme' = current_scheme
    BY DEF history
  <2>2. StartRight(j)
    BY DEF StatInv
  <2> SUFFICES ASSUME current_scheme \notin {"PSJF", "PPRI"}
               PROVE  job'[j].start_time = IF firstRun[j] # -1 THEN firstRun[j]
                                           ELSE IF OnCore(core_job_ptrs', j) THEN time ELSE -1
    BY <2>1 DEF StartRight, OnCore
  <2>3. CASE firstRun[j] # -1
    BY <2>2, <2>3 DEF StartRight, RecordKept
  <2>4. CASE firstRun[j] = -1
    BY <2>0, <2>2, <2>4 DEF StartRight, RecordKept
  <2> QED BY <2>3, <2>4
<1> QED BY <1>1, <1>2

\* A job that is on a core after a call has a start_time.
LEMMA StartedStays ==
  ASSUME NEW J, DOMAIN job' = J, time \in Nat,
         \A c \in Cores : core_job_ptrs'[c] # NULL => core_job_ptrs'[c] \in J,
         DOMAIN core_job_ptrs' = Cores,
         \A j \in J : \/ RecordKept(job[j], job'[j], OnCore(core_job_ptrs', j), time)
                      \/ job'[j].start_time = IF OnCore(core_job_ptrs', j) THEN time ELSE -1
  PROVE  Started'
<1> SUFFICES ASSUME NEW c \in Cores, core_job_ptrs'[c] # NULL
             PROVE  job'[core_job_ptrs'[c]].start_time # -1
  BY DEF Started, Cores
<1>1. core_job_ptrs'[c] \in J /\ OnCore(core_job_ptrs', core_job_ptrs'[c])
  BY DEF OnCore
<1> QED BY <1>1 DEF RecordKept

\* The sums change with nothing but the jobs that have finished.
LEMMA TotalStays ==
  ASSUME TotalIsSum, UNCHANGED total_wait_time, JobCount' = JobCount, IdsLeft' = IdsLeft,
         JobCount \in Nat,
         \A k \in 0..(JobCount - 1) : k \notin IdsLeft => waited'[k] = waited[k]
  PROVE  TotalIsSum'
<1>1. PICK upTo : SumsWaited(upTo) /\ upTo[JobCount] = total_wait_time
  BY DEF TotalIsSum
<1>2. ASSUME NEW k \in 1..JobCount PROVE WaitedIfFinished(k - 1)' = WaitedIfFinished(k - 1)
  <2>1. k - 1 \in 0..(JobCount - 1)
    OBVIOUS
  <2> QED BY <2>1 DEF WaitedIfFinished
<1>3. SumsWaited(upTo)'
  <2>1. ASSUME NEW k \in 1..JobCount PROVE upTo[k] = upTo[k - 1] + WaitedIfFinished(k - 1)'
    BY <1>1, <1>2 DEF SumsWaited
  <2> QED BY <1>1, <2>1 DEF SumsWaited
<1> QED BY <1>1, <1>3 DEF TotalIsSum

\* When job f finishes, every sum that it belongs to grows by what it waited.
LEMMA TotalGrows ==
  ASSUME StatInv, JobCount \in Nat, NEW f \in IdsLeft, IdsLeft' = IdsLeft \ {f}, JobCount' = JobCount,
         UNCHANGED waited, total_wait_time' = total_wait_time + waited[f]
  PROVE  TotalIsSum'
<1>0. /\ waited \in [JobIds -> Nat] /\ 0..(JobCount - 1) \subseteq JobIds
      /\ f \in 0..(JobCount - 1) /\ JobCount \in Nat
  BY DEF StatInv, HistoryTypeOK
<1>1. PICK upTo : SumsWaited(upTo) /\ upTo[JobCount] = total_wait_time
  BY DEF StatInv, TotalIsSum
<1> DEFINE next == [k \in 0..JobCount |-> IF k > f THEN upTo[k] + waited[f] ELSE upTo[k]]
<1>2. waited[f] \in Int /\ \A k \in 0..JobCount : upTo[k] \in Int
  BY <1>0, <1>1 DEF SumsWaited
<1>3. next \in [0..JobCount -> Int] /\ next[0] = 0
  BY <1>0, <1>1, <1>2 DEF SumsWaited
<1>4. ASSUME NEW k \in 1..JobCount PROVE next[k] = next[k - 1] + WaitedIfFinished(k - 1)'
  <2>0. /\ k \in 0..JobCount /\ k - 1 \in 0..JobCount /\ k - 1 \in 0..(JobCount - 1)
        /\ next[k] = IF k > f THEN upTo[k] + waited[f] ELSE upTo[k]
        /\ next[k - 1] = IF k - 1 > f THEN upTo[k - 1] + waited[f] ELSE upTo[k - 1]
    BY <1>0
  <2>1. upTo[k] = upTo[k - 1] + WaitedIfFinished(k - 1)
    BY <1>1 DEF SumsWaited
  <2>2. WaitedIfFinished(k - 1) \in Int
    <3>1. waited[k - 1] \in Nat
      BY <1>0, <2>0
    <3> QED BY <3>1 DEF WaitedIfFinished
  <2> HIDE DEF next
  <2>3. CASE k - 1 = f
    <3>1. WaitedIfFinished(k - 1)' = waited[f]
      BY <2>3 DEF WaitedIfFinished
    <3>2. WaitedIfFinished(k - 1) = 0
      BY <2>3 DEF WaitedIfFinished
    <3>3. k > f /\ ~(k - 1 > f)
      BY <1>0, <2>3
    <3> QED BY <1>2, <2>0, <2>1, <3>1, <3>2, <3>3
  <2>4. CASE k - 1 # f
    <3>1. WaitedIfFinished(k - 1)' = WaitedIfFinished(k - 1)
      BY <2>4 DEF WaitedIfFinished
    <3>2. k > f <=> k - 1 > f
      BY <1>0, <2>4
    <3> QED BY <1>2, <2>0, <2>1, <2>2, <3>1, <3>2
  <2> QED BY <2>3, <2>4
<1>5. next[JobCount] = total_wait_time'
  BY <1>0, <1>1
<1> HIDE DEF next
<1>6. PICK sums : sums = next
  OBVIOUS
<1>7. SumsWaited(sums)'
  BY <1>3, <1>4, <1>6 DEF SumsWaited
<1>8. sums[JobCount'] = total_wait_time'
  BY <1>5, <1>6
<1> QED BY <1>7, <1>8 DEF TotalIsSum

-----------------------------------------------------------------------------
(* The steps keep it *)

IdsIn(es) == {es[k].job_id : k \in 1..Len(es)}

\* set_active_job changes no job number.
LEMMA ChoiceKeepsIds ==
  ASSUME NEW es \in Seq(EntryStruct), NEW c \in Int, NEW answer, TakeChoice(es, c, answer)
  PROVE  IdsIn(jobs') = IdsIn(es) /\ Len(jobs') = Len(es)
<1> DEFINE n == Len(es)
           fs == WithActiveJob(es, answer, c)
<1>1. n \in Nat /\ \A k \in 1..n : es[k] \in EntryStruct
  OBVIOUS
<1>2. ASSUME NEW k \in 1..n PROVE fs[k] \in EntryStruct /\ fs[k].job_id = es[k].job_id
  <2>1. LET f == [es[k] EXCEPT !.core_id = c] IN f \in EntryStruct /\ f.job_id = es[k].job_id
    BY <1>1, EntryOnCore
  <2>2. fs[k] = [es[k] EXCEPT !.core_id = c] \/ fs[k] = es[k]
    BY DEF WithActiveJob
  <2> QED BY <1>1, <2>1, <2>2
<1>3. Len(fs) = n
  <2>1. fs \in [1..n -> EntryStruct]
    <3>1. fs = [k \in 1..n |-> fs[k]]
      BY DEF WithActiveJob
    <3> HIDE DEF fs
    <3> QED BY <1>2, <3>1
  <2> QED BY <1>1, <2>1, FunctionIsSequence
<1>4. jobs' = es \/ jobs' = fs
  BY DEF TakeChoice
<1> HIDE DEF fs
<1>5. IdsIn(fs) = IdsIn(es)
  BY <1>2, <1>3 DEF IdsIn
<1> QED BY <1>3, <1>4, <1>5

\* The deletion of an entry takes its number away and no other.
LEMMA DeletedIds ==
  ASSUME IInv, NEW i \in Entries
  PROVE  /\ Deleted(i) \in Seq(EntryStruct)
         /\ Len(Deleted(i)) = Len(jobs) - 1
         /\ IdsIn(Deleted(i)) = IdsLeft \ {jobs[i].job_id}
<1> DEFINE n == Len(jobs)
           es == Deleted(i)
           at(k) == IF k = i THEN n ELSE k
<1>0. n \in Nat \ {0} /\ n - 1 \in Nat /\ i \in 1..n /\ Entries = 1..n
  BY InvFacts
<1>1. \A k \in 1..n : jobs[k] \in EntryStruct
  BY <1>0, InvFacts
<1>2. \A k, l \in 1..n : jobs[k].job_id = jobs[l].job_id => k = l
  BY DEF IInv, SimInv, Picture
<1>3. \A k \in 1..(n - 1) : at(k) \in 1..n /\ at(k) # i /\ es[k] = jobs[at(k)]
  BY <1>0 DEF Deleted
<1>4. ASSUME NEW m \in 1..n, m # i PROVE \E k \in 1..(n - 1) : at(k) = m
  <2>1. CASE m = n
    <3>1. i \in 1..(n - 1) /\ at(i) = m
      BY <1>0, <1>4, <2>1
    <3> QED BY <3>1
  <2>2. CASE m # n
    <3>1. m \in 1..(n - 1) /\ at(m) = m
      BY <1>0, <1>4, <2>2
    <3> QED BY <3>1
  <2> QED BY <2>1, <2>2
<1>5. es \in Seq(EntryStruct) /\ Len(es) = n - 1
  <2>1. es = [k \in 1..(n - 1) |-> es[k]]
    BY DEF Deleted
  <2> HIDE DEF es, at
  <2>2. es \in [1..(n - 1) -> EntryStruct]
    BY <1>1, <1>3, <2>1
  <2> QED BY <1>0, <2>2, FunctionIsSequence
<1> HIDE DEF es, at
<1>6. ASSUME NEW k \in 1..(n - 1) PROVE es[k].job_id \in IdsLeft \ {jobs[i].job_id}
  <2>1. es[k].job_id = jobs[at(k)].job_id /\ at(k) \in 1..n /\ at(k) # i
    BY <1>3
  <2> QED BY <1>0, <1>2, <2>1 DEF IdsLeft
<1>7. ASSUME NEW j \in IdsLeft, j # jobs[i].job_id PROVE \E k \in 1..(n - 1) : es[k].job_id = j
  <2>1. PICK m \in 1..n : jobs[m].job_id = j
    BY <1>0 DEF IdsLeft
  <2>2. PICK k \in 1..(n - 1) : at(k) = m
    BY <1>4, <1>7, <2>1
  <2> QED BY <1>3, <2>1, <2>2
<1>8. IdsIn(es) = IdsLeft \ {jobs[i].job_id}
  BY <1>5, <1>6, <1>7 DEF IdsIn
<1> QED BY <1>5, <1>8 DEF es

\* What a call of the scheduler has to keep.
LEMMA CallKeepsStatistics ==
  ASSUME IInv, IInv', StatInv, UNCHANGED <<current_scheme, time, history>>,
         DOMAIN core_job_ptrs' = Cores,
         HistoryTypeOK', NothingBeforeArrival', FirstQuantum', TotalIsSum',
         NEW J, J \subseteq DOMAIN job, J \subseteq DOMAIN job', RecordsKept(J),
         \A j \in J : SameKey(Now(core_job_ptrs, job, time)[j], Now(core_job_ptrs', job', time)[j]),
         \A j \in J : firstRun[j] = -1 /\ current_scheme \notin {"PSJF", "PPRI"}
                        => (OnCore(core_job_ptrs, j) => OnCore(core_job_ptrs', j)),
         \A j \in DOMAIN job' \ J :
           /\ WaitRight(j)' /\ StartRight(j)'
           /\ job'[j].start_time = IF OnCore(core_job_ptrs', j) THEN time ELSE -1
  PROVE  StatInv'
<1>1. ASSUME NEW j \in J PROVE WaitRight(j)' /\ StartRight(j)'
  <2>1. j \in DOMAIN job /\ j \in DOMAIN job'
    OBVIOUS
  <2>2. RecordKept(job[j], job'[j], OnCore(core_job_ptrs', j), time)
    BY DEF RecordsKept
  <2> QED BY <2>1, <2>2, JobStaysRight
<1>2. \A j \in DOMAIN job' : WaitRight(j)' /\ StartRight(j)'
  BY <1>1
<1>3. Started'
  <2>1. time \in Nat
    BY DEF IInv, SchedInv, SchedTypeOK
  <2>2. \A c \in Cores : core_job_ptrs'[c] # NULL => core_job_ptrs'[c] \in DOMAIN job'
    BY DEF IInv, SchedInv, PlacedOnce
  <2>3. \A j \in DOMAIN job' :
          \/ RecordKept(job[j], job'[j], OnCore(core_job_ptrs', j), time)
          \/ job'[j].start_time = IF OnCore(core_job_ptrs', j) THEN time ELSE -1
    BY DEF RecordsKept
  <2> QED BY <2>1, <2>2, <2>3, StartedStays
<1> QED BY <1>2, <1>3 DEF StatInv

\* What every step finds in the records of what happened.
LEMMA StatFacts ==
  ASSUME IInv, StatInv
  PROVE  /\ JobCount \in Nat /\ Len(jobs) \in Nat /\ total_jobs_finished \in Nat
         /\ IdsIn(jobs) = IdsLeft
         /\ waited \in [JobIds -> Nat] /\ firstRun \in [JobIds -> Nat \cup {-1}]
         /\ time \in Nat
<1>1. Len(jobs) \in Nat /\ Entries = 1..Len(jobs)
  BY InvFacts
<1>2. total_jobs_finished \in Nat /\ waited \in [JobIds -> Nat] /\ firstRun \in [JobIds -> Nat \cup {-1}]
  BY DEF StatInv, HistoryTypeOK
<1>3. time \in Nat
  BY DEF IInv, SchedInv, SchedTypeOK
<1> QED BY <1>1, <1>2, <1>3 DEF JobCount, IdsIn, IdsLeft

\* A core that was given away, and its quantum with it.
LEMMA QuantumGivenAway ==
  ASSUME IInv, StatInv, UNCHANGED <<current_scheme, firstRun>>, NEW c \in Cores, NEW answer,
         core_job_ptrs' = [core_job_ptrs EXCEPT ![c] = answer],
         quantum_clock' = (IF current_scheme = "RR" THEN [quantum_clock EXCEPT ![c] = Quantum]
                                                    ELSE quantum_clock)
  PROVE  DOMAIN core_job_ptrs' = Cores /\ DOMAIN quantum_clock' = Cores /\ FirstQuantum'
<1>1. DOMAIN quantum_clock = Cores /\ DOMAIN core_job_ptrs = Cores /\ Quantum # 0
  BY QuantumAssumption DEF StatInv, HistoryTypeOK, Cores
<1>2. DOMAIN core_job_ptrs' = Cores /\ \A d \in Cores : d # c => core_job_ptrs'[d] = core_job_ptrs[d]
  BY <1>1
<1>3. DOMAIN quantum_clock' = Cores
  BY <1>1
<1>4. ASSUME current_scheme = "RR", NEW d \in Cores,
             core_job_ptrs'[d] # NULL, firstRun[core_job_ptrs'[d]] = -1
      PROVE  quantum_clock'[d] # 0
  <2>1. CASE d = c
    BY <1>1, <1>4, <2>1
  <2>2. CASE d # c
    <3>1. quantum_clock'[d] = quantum_clock[d] /\ core_job_ptrs'[d] = core_job_ptrs[d]
      BY <1>1, <1>2, <1>4, <2>2
    <3> QED BY <1>4, <3>1 DEF StatInv, FirstQuantum
  <2> QED BY <2>1, <2>2
<1> QED BY <1>2, <1>3, <1>4 DEF FirstQuantum, Cores

\* A job that finishes has waited its turnaround time less its running time.
LEMMA FinishKeepsStatistics ==
  ASSUME IInv, IInv', StatInv, Finish
  PROVE  StatInv'
<1> PICK i \in Entries, answer \in JobIds \cup {NULL} :
      /\ IsFirst(i, LAMBDA k : jobs[k].run_time = 0)
      /\ scheduler_job_finished(jobs[i].core_id, time, answer)
      /\ quantum_clock' = IF current_scheme = "RR"
                          THEN [quantum_clock EXCEPT ![jobs[i].core_id] = Quantum] ELSE quantum_clock
      /\ TakeChoice(Deleted(i), jobs[i].core_id, answer)
  BY DEF Finish
<1> PICK c, f : c = jobs[i].core_id /\ f = jobs[i].job_id
  OBVIOUS
<1> DEFINE N == Now(core_job_ptrs, job, time)
           J == DOMAIN job \ {f}
<1>1. /\ UNCHANGED <<time, history>> /\ UNCHANGED current_scheme /\ jobs[i].run_time = 0
      /\ scheduler_job_finished(c, time, answer) /\ TakeChoice(Deleted(i), c, answer)
  BY DEF Finish, IsFirst, scheduler_job_finished
<1>2. c \in Cores /\ core_job_ptrs[c] = f /\ f # NULL
  <2>1. c \in Cores \cup {-1} /\ c # -1
    BY <1>1, InvFacts DEF IInv, SimInv, Picture, DoneOnCore
  <2> QED BY <2>1, InvFacts
<1>3. f \in DOMAIN job /\ jobs[i].arrived /\ N[f].remaining_time = 0
  <2>1. f \in DOMAIN job
    BY <1>2, InvFacts
  <2>2. jobs[i].arrived
    BY <2>1, InvFacts DEF IInv, SimInv, Picture
  <2>3. jobs[i].run_time = N[f].remaining_time
    BY <2>2, InvFacts DEF IInv, SimInv, SameTimes
  <2> HIDE DEF N
  <2> QED BY <1>1, <2>1, <2>2, <2>3
<1>4. /\ DOMAIN job' = J
      /\ core_job_ptrs' = [core_job_ptrs EXCEPT ![c] = answer]
      /\ \A j \in J : SameKey(N[j], Now(core_job_ptrs', job', time)[j])
  <2>1. SchedInv
    BY DEF IInv
  <2> QED BY <1>1, <1>2, <2>1, FinishedKeeps
<1>5. RecordsKept(J)
  <2>1. SchedInv /\ Started
    BY DEF IInv, StatInv
  <2> QED BY <1>1, <1>2, <2>1, FinishedRecords
<1>6. DOMAIN core_job_ptrs' = Cores /\ DOMAIN quantum_clock' = Cores /\ FirstQuantum'
  BY <1>1, <1>2, <1>4, QuantumGivenAway DEF history
<1>7. IdsLeft' = IdsLeft \ {f} /\ Len(jobs') = Len(jobs) - 1 /\ f \in IdsLeft
  <2>1. /\ Deleted(i) \in Seq(EntryStruct) /\ Len(Deleted(i)) = Len(jobs) - 1
        /\ IdsIn(Deleted(i)) = IdsLeft \ {f}
    BY DeletedIds
  <2>2. IdsIn(jobs') = IdsIn(Deleted(i)) /\ Len(jobs') = Len(Deleted(i))
    <3>1. c \in Int
      BY <1>2, InvFacts
    <3> QED BY <1>1, <2>1, <3>1, ChoiceKeepsIds
  <2> QED BY <2>1, <2>2 DEF IdsIn, IdsLeft, Entries
<1>8. JobCount' = JobCount /\ total_jobs_finished' \in Nat
  <2>1. total_jobs_finished' = total_jobs_finished + 1
    BY <1>1 DEF scheduler_job_finished
  <2>2. Len(jobs) \in Nat /\ total_jobs_finished \in Nat
    BY StatFacts
  <2> QED BY <1>7, <2>1, <2>2 DEF JobCount
<1>9. total_wait_time' = total_wait_time + waited[f] /\ total_wait_time' \in Int
  <2>1. total_wait_time' = total_wait_time + ((time - job[f].arrival_time) - job[f].running_time)
    BY <1>1, <1>2 DEF scheduler_job_finished
  <2>2. waited[f] + (job[f].running_time - 0) = time - job[f].arrival_time
    BY <1>3 DEF StatInv, WaitRight
  <2>3. /\ total_wait_time \in Int /\ waited[f] \in Int /\ time \in Int
        /\ job[f].arrival_time \in Int /\ job[f].running_time \in Int
    <3>1. total_wait_time \in Int
      BY DEF StatInv, HistoryTypeOK
    <3>2. f \in JobIds /\ job[f] \in JobStruct /\ time \in Int
      BY <1>3, InvFacts
    <3>3. waited[f] \in Nat
      BY <3>2, StatFacts
    <3> QED BY <3>1, <3>2, <3>3 DEF JobStruct
  <2> QED BY <2>1, <2>2, <2>3
<1>10. HistoryTypeOK'
  <2>1. waited' = waited /\ firstRun' = firstRun /\ Cores' = Cores
    BY <1>1, <1>6 DEF history, Cores
  <2> QED BY <1>6, <1>7, <1>8, <1>9, <2>1 DEF StatInv, HistoryTypeOK
<1>11. NothingBeforeArrival'
  BY <1>1, <1>4, <1>7 DEF StatInv, NothingBeforeArrival, history
<1>12. TotalIsSum'
  BY <1>1, <1>7, <1>8, <1>9, StatFacts, TotalGrows DEF history
<1>13. ASSUME NEW j \in J, OnCore(core_job_ptrs, j) PROVE OnCore(core_job_ptrs', j)
  <2>1. PICK d \in Cores : core_job_ptrs[d] = j
    BY <1>13 DEF OnCore, Cores
  <2>2. d # c /\ core_job_ptrs'[d] = j
    BY <1>2, <1>4, <2>1 DEF Cores
  <2> QED BY <1>6, <2>2 DEF OnCore
<1> HIDE DEF N
<1>14. \A j \in J : SameKey(Now(core_job_ptrs, job, time)[j], Now(core_job_ptrs', job', time)[j])
  BY <1>4 DEF N
<1> HIDE DEF J
<1>15. J \subseteq DOMAIN job /\ DOMAIN job' = J
  BY <1>4 DEF J
<1> QED BY <1>1, <1>5, <1>6, <1>10, <1>11, <1>12, <1>13, <1>14, <1>15, CallKeepsStatistics

\* Taking an entry off its core takes no number away.
LEMMA ReleasedIds ==
  ASSUME IInv, NEW i \in Entries
  PROVE  LET es == [jobs EXCEPT ![i].core_id = -1] IN
         es \in Seq(EntryStruct) /\ Len(es) = Len(jobs) /\ IdsIn(es) = IdsLeft
<1> DEFINE n == Len(jobs)
           e == [jobs[i] EXCEPT !.core_id = -1]
           es == [jobs EXCEPT ![i].core_id = -1]
<1>0. n \in Nat /\ i \in 1..n /\ Entries = 1..n /\ jobs \in [1..n -> EntryStruct]
  BY InvFacts
<1>1. e \in EntryStruct /\ e.job_id = jobs[i].job_id
  BY <1>0, EntryOnCore
<1>2. es = [jobs EXCEPT ![i] = e]
  OBVIOUS
<1> HIDE DEF e, es
<1>3. es \in Seq(EntryStruct) /\ Len(es) = n /\ \A k \in 1..n : es[k].job_id = jobs[k].job_id
  <2>1. es \in [1..n -> EntryStruct]
    BY <1>0, <1>1, <1>2
  <2> QED BY <1>0, <1>1, <1>2, <2>1, FunctionIsSequence
<1> QED BY <1>0, <1>3 DEF es, IdsIn, IdsLeft

\* The job that loses its core at the end of its quantum has run.
LEMMA ExpireKeepsStatistics ==
  ASSUME IInv, IInv', StatInv, Expire
  PROVE  StatInv'
<1> PICK c \in Cores, i \in Entries, answer \in JobIds \cup {NULL} :
      /\ Expired(c)
      /\ IsFirst(i, LAMBDA k : jobs[k].core_id = c)
      /\ scheduler_quantum_expired(c, time, answer)
      /\ quantum_clock' = [quantum_clock EXCEPT ![c] = Quantum]
      /\ TakeChoice([jobs EXCEPT ![i].core_id = -1], c, answer)
  BY DEF Expire
<1> DEFINE es == [jobs EXCEPT ![i].core_id = -1]
           J == DOMAIN job
           N == Now(core_job_ptrs, job, time)
<1>1. /\ phase = "expire" /\ UNCHANGED <<time, history>> /\ jobs[i].core_id = c
      /\ UNCHANGED current_scheme /\ UNCHANGED stats
  BY DEF Expire, IsFirst, scheduler_quantum_expired
<1>2. core_job_ptrs[c] = jobs[i].job_id /\ core_job_ptrs[c] # NULL /\ current_scheme = "RR"
  BY <1>1, InvFacts DEF IInv, SimInv
<1>3. /\ DOMAIN job' = J
      /\ core_job_ptrs' = [core_job_ptrs EXCEPT ![c] = answer]
      /\ \A j \in J : SameKey(N[j], Now(core_job_ptrs', job', time)[j])
  <2>1. SchedInv
    BY DEF IInv
  <2> QED BY <1>1, <1>2, <2>1, ExpiredKeeps
<1>4. RecordsKept(J)
  <2>1. SchedInv /\ Started
    BY DEF IInv, StatInv
  <2> QED BY <1>2, <2>1, ExpiredRecords
<1>5. DOMAIN core_job_ptrs' = Cores /\ DOMAIN quantum_clock' = Cores /\ FirstQuantum'
  BY <1>1, <1>2, <1>3, QuantumGivenAway DEF history
<1>6. firstRun[core_job_ptrs[c]] # -1
  BY <1>2 DEF StatInv, FirstQuantum, Expired
<1>7. IdsLeft' = IdsLeft /\ Len(jobs') = Len(jobs)
  <2>1. c \in Int
    BY InvFacts
  <2>2. es \in Seq(EntryStruct) /\ Len(es) = Len(jobs) /\ IdsIn(es) = IdsLeft
    BY ReleasedIds
  <2> HIDE DEF es
  <2>6. TakeChoice(es, c, answer)
    BY DEF es
  <2>7. IdsIn(jobs') = IdsIn(es) /\ Len(jobs') = Len(es)
    BY <2>1, <2>2, <2>6, ChoiceKeepsIds
  <2> QED BY <2>2, <2>7 DEF IdsIn, IdsLeft, Entries
<1>8. UNCHANGED <<total_jobs_finished, total_wait_time>> /\ JobCount' = JobCount
  BY <1>1, <1>7 DEF stats, JobCount
<1>9. HistoryTypeOK'
  <2>1. waited' = waited /\ firstRun' = firstRun /\ Cores' = Cores
    BY <1>1, <1>5 DEF history, Cores
  <2> QED BY <1>5, <1>7, <1>8, <2>1 DEF StatInv, HistoryTypeOK
<1>10. NothingBeforeArrival'
  BY <1>1, <1>3, <1>7 DEF StatInv, NothingBeforeArrival, history
<1>11. TotalIsSum'
  BY <1>1, <1>7, <1>8, StatFacts, TotalStays DEF history, StatInv
<1>12. ASSUME NEW j \in J, firstRun[j] = -1, OnCore(core_job_ptrs, j) PROVE OnCore(core_job_ptrs', j)
  <2>1. PICK d \in Cores : core_job_ptrs[d] = j
    BY <1>12 DEF OnCore, Cores
  <2>2. d # c /\ core_job_ptrs'[d] = j
    BY <1>3, <1>6, <1>12, <2>1 DEF Cores
  <2> QED BY <1>5, <2>2 DEF OnCore
<1> HIDE DEF N
<1>13. \A j \in J : SameKey(Now(core_job_ptrs, job, time)[j], Now(core_job_ptrs', job', time)[j])
  BY <1>3 DEF N
<1> HIDE DEF J
<1>14. J \subseteq DOMAIN job /\ DOMAIN job' = J
  BY <1>3 DEF J
<1> QED BY <1>1, <1>4, <1>5, <1>9, <1>10, <1>11, <1>12, <1>13, <1>14, CallKeepsStatistics

\* A job arrives with its whole running time before it.
LEMMA ArriveKeepsStatistics ==
  ASSUME IInv, IInv', StatInv, Arrive
  PROVE  StatInv'
<1>0. PICK i \in Entries, answer \in Cores \cup {NULL} :
        /\ IsFirst(i, Arrives)
        /\ scheduler_new_job(jobs[i].job_id, time, jobs[i].run_time, jobs[i].priority, answer)
        /\ jobs' = WithArrived(i, answer)
        /\ quantum_clock' = IF current_scheme = "RR" /\ answer # NULL
                            THEN [quantum_clock EXCEPT ![answer] = Quantum] ELSE quantum_clock
  BY DEF Arrive
<1> PICK id, running : id = jobs[i].job_id /\ running = jobs[i].run_time
  OBVIOUS
<1> DEFINE D == DOMAIN job
           N == Now(core_job_ptrs, job, time)
           N1 == Now(core_job_ptrs', job', time')
<1>1. /\ UNCHANGED <<time, history>> /\ UNCHANGED current_scheme /\ UNCHANGED stats
      /\ ~jobs[i].arrived
      /\ scheduler_new_job(id, time, running, jobs[i].priority, answer)
  BY <1>0 DEF Arrive, IsFirst, Arrives, scheduler_new_job
<1>2. id \in JobIds \ D /\ id \in IdsLeft /\ running \in Int /\ jobs[i].priority \in Int
  <2>1. jobs[i] \in EntryStruct /\ Entries = 1..Len(jobs)
    BY InvFacts
  <2>2. jobs[i].arrived <=> id \in D
    BY <2>1 DEF IInv, SimInv, Picture
  <2> QED BY <1>1, <2>1, <2>2 DEF EntryStruct, IdsLeft
<1>3. /\ DOMAIN job' = D \cup {id}
      /\ \/ answer = NULL /\ core_job_ptrs' = core_job_ptrs
         \/ answer \in Cores /\ core_job_ptrs' = [core_job_ptrs EXCEPT ![answer] = id]
      /\ \A k \in D : SameKey(N[k], N1[k])
      /\ N1[id].remaining_time = running
  <2>1. SchedInv
    BY DEF IInv
  <2> QED BY <1>1, <1>2, <2>1, NewJobKeeps
<1>4. RecordsKept(D) /\ RecordMade(id, running)
  <2>1. SchedInv /\ Started
    BY DEF IInv, StatInv
  <2> QED BY <1>1, <1>2, <2>1, NewJobRecords
<1>5. answer \in Cores /\ current_scheme \notin {"PSJF", "PPRI"} => core_job_ptrs[answer] = NULL
  BY <1>1, InvFacts DEF scheduler_new_job, NewJobOnIdleCore, NewJobPreempts, Preempts,
     NewJobWaits, find_idle_core
<1> HIDE DEF D, N, N1
<1>6. DOMAIN core_job_ptrs' = Cores /\ DOMAIN quantum_clock' = Cores /\ FirstQuantum'
  <2>1. CASE answer = NULL
    <3>1. quantum_clock' = quantum_clock /\ core_job_ptrs' = core_job_ptrs
      BY <1>0, <1>3, <2>1, InvFacts
    <3> QED BY <1>1, <3>1 DEF StatInv, HistoryTypeOK, FirstQuantum, Cores, history
  <2>2. CASE answer # NULL
    <3>1. answer \in Cores /\ core_job_ptrs' = [core_job_ptrs EXCEPT ![answer] = id]
      BY <1>3, <2>2
    <3>2. quantum_clock' = IF current_scheme = "RR"
                           THEN [quantum_clock EXCEPT ![answer] = Quantum] ELSE quantum_clock
      BY <1>0, <2>2
    <3> QED BY <1>1, <3>1, <3>2, QuantumGivenAway DEF history
  <2> QED BY <2>1, <2>2
<1>7. IdsLeft' = IdsLeft /\ Len(jobs') = Len(jobs)
  <2>1. ArrivalShown(WithArrived(i, answer), i, core_job_ptrs', DOMAIN job \cup {id})
    <3>1. Picture(jobs, core_job_ptrs, DOMAIN job)
      BY DEF IInv, SimInv
    <3>2. /\ NULL \notin JobIds /\ NULL \notin DOMAIN core_job_ptrs
          /\ DOMAIN core_job_ptrs \subseteq Int /\ -1 \notin DOMAIN core_job_ptrs
          /\ DOMAIN core_job_ptrs = Cores
      BY InvFacts
    <3>3. \/ answer = NULL /\ core_job_ptrs' = core_job_ptrs
          \/ answer \in DOMAIN core_job_ptrs /\ core_job_ptrs' = [core_job_ptrs EXCEPT ![answer] = id]
      BY <1>3, <3>2
    <3>4. \A c \in DOMAIN core_job_ptrs : core_job_ptrs[c] # id
      BY <1>2, <3>2, InvFacts DEF D
    <3> QED BY <1>1, <3>1, <3>2, <3>3, <3>4, ArrivedPicture
  <2>2. Len(jobs') = Len(jobs) /\ \A k \in Entries : jobs'[k].job_id = jobs[k].job_id
    BY <1>0, <2>1 DEF ArrivalShown
  <2> QED BY <2>2 DEF IdsLeft, Entries
<1>8. UNCHANGED <<total_jobs_finished, total_wait_time>> /\ JobCount' = JobCount
  BY <1>1, <1>7 DEF stats, JobCount
<1>9. HistoryTypeOK'
  <2>1. waited' = waited /\ firstRun' = firstRun /\ Cores' = Cores
    BY <1>1, <1>6 DEF history, Cores
  <2> QED BY <1>6, <1>7, <1>8, <2>1 DEF StatInv, HistoryTypeOK
<1>10. NothingBeforeArrival'
  BY <1>1, <1>3, <1>7 DEF StatInv, NothingBeforeArrival, history, D
<1>11. TotalIsSum'
  BY <1>1, <1>7, <1>8, StatFacts, TotalStays DEF history, StatInv
<1>12. ASSUME NEW j \in D, current_scheme \notin {"PSJF", "PPRI"}, OnCore(core_job_ptrs, j)
       PROVE  OnCore(core_job_ptrs', j)
  <2>1. PICK d \in Cores : core_job_ptrs[d] = j
    BY <1>12 DEF OnCore, Cores
  <2>2. j # NULL
    BY InvFacts DEF D
  <2>3. core_job_ptrs'[d] = j
    BY <1>3, <1>5, <1>12, <2>1, <2>2 DEF Cores
  <2> QED BY <1>6, <2>3 DEF OnCore
\* The new job.
<1>13. waited'[id] = 0 /\ firstRun'[id] = -1
  BY <1>1, <1>2 DEF StatInv, NothingBeforeArrival, history, D
<1>14. WaitRight(id)' /\ StartRight(id)'
  <2>1. WaitRight(id)'
    <3>1. time \in Int
      BY InvFacts
    <3>2. N1 = Now(core_job_ptrs, job, time)'
      BY DEF N1
    <3>3. job'[id].arrival_time = time /\ job'[id].running_time = running /\ time' = time
      BY <1>1, <1>4 DEF RecordMade
    <3>4. waited'[id] + (job'[id].running_time - N1[id].remaining_time) = time' - job'[id].arrival_time
      BY <1>2, <1>3, <1>13, <3>1, <3>3
    <3> QED BY <3>2, <3>4 DEF WaitRight
  <2>2. StartRight(id)'
    <3>1. job'[id].start_time = IF OnCore(core_job_ptrs', id) THEN time ELSE -1
      BY <1>4 DEF RecordMade
    <3> QED BY <1>1, <1>13, <3>1 DEF StartRight
  <2> QED BY <2>1, <2>2
<1>15. \A j \in D : SameKey(Now(core_job_ptrs, job, time)[j], Now(core_job_ptrs', job', time)[j])
  BY <1>1, <1>3 DEF N, N1
<1>16. D \subseteq DOMAIN job /\ D \subseteq DOMAIN job' /\ DOMAIN job' \ D \subseteq {id}
  BY <1>3 DEF D
<1>17. \A j \in DOMAIN job' \ D :
         /\ WaitRight(j)' /\ StartRight(j)'
         /\ job'[j].start_time = IF OnCore(core_job_ptrs', j) THEN time ELSE -1
  <2>1. job'[id].start_time = IF OnCore(core_job_ptrs', id) THEN time ELSE -1
    BY <1>4 DEF RecordMade
  <2> QED BY <1>14, <1>16, <2>1
<1> QED BY <1>1, <1>4, <1>6, <1>9, <1>10, <1>11, <1>12, <1>15, <1>16, <1>17, CallKeepsStatistics

\* What the simulator records of a job in a time unit: whether it waits or runs.
Waits(j) == \E i \in Entries : jobs[i].job_id = j /\ jobs[i].arrived /\ ~Running(i)
Runs(j) == \E i \in Entries : jobs[i].job_id = j /\ Running(i)

\* A job that is there either runs, on its core, or waits; no other does either.
LEMMA RunsOrWaits ==
  ASSUME IInv, NEW j \in JobIds
  PROVE  /\ Runs(j) <=> OnCore(core_job_ptrs, j)
         /\ Waits(j) <=> j \in DOMAIN job /\ ~OnCore(core_job_ptrs, j)
         /\ Runs(j) => j \in DOMAIN job
         /\ j \in DOMAIN job => j \in IdsLeft
<1>1. ASSUME NEW i \in Entries, jobs[i].job_id = j
      PROVE  /\ Running(i) <=> OnCore(core_job_ptrs, j)
             /\ jobs[i].arrived <=> j \in DOMAIN job
  <2>1. jobs[i].core_id \in Cores \cup {-1}
    BY InvFacts DEF IInv, SimInv, Picture
  <2>2. jobs[i].arrived <=> j \in DOMAIN job
    BY <1>1, InvFacts DEF IInv, SimInv, Picture
  <2> QED BY <1>1, <2>1, <2>2, InvFacts DEF Running, OnCore
<1>2. j \in DOMAIN job => \E i \in Entries : jobs[i].job_id = j
  BY InvFacts DEF IInv, SimInv, Picture
<1>3. OnCore(core_job_ptrs, j) => j \in DOMAIN job
  BY InvFacts DEF OnCore
<1> QED BY <1>1, <1>2, <1>3 DEF Runs, Waits, IdsLeft

\* A time unit is waited by the jobs that are on no core, and recorded as the
\* first of those that run and have not run before.
LEMMA RunUnitKeepsStatistics ==
  ASSUME IInv, IInv', StatInv, RunUnit
  PROVE  StatInv'
<1> DEFINE n == Len(jobs)
           N == Now(core_job_ptrs, job, time)
           N1 == Now(core_job_ptrs, job, time + 1)
           p == core_job_ptrs
<1>0. /\ n \in Nat /\ Entries = 1..n /\ DOMAIN core_job_ptrs = Cores
      /\ \A i \in 1..n : jobs[i] \in EntryStruct
      /\ DOMAIN job \subseteq JobIds /\ NULL \notin JobIds
      /\ \A c \in Cores : core_job_ptrs[c] # NULL => core_job_ptrs[c] \in DOMAIN job
  BY InvFacts
<1>1. /\ time' = time + 1
      /\ UNCHANGED <<current_scheme, job, core_job_ptrs, total_wait_time, total_jobs_finished>>
      /\ jobs' = [i \in 1..n |-> IF Running(i) THEN [jobs[i] EXCEPT !.run_time = @ - 1] ELSE jobs[i]]
      /\ DOMAIN quantum_clock' = Cores
  BY <1>0, SanityHolds DEF RunUnit, schedVars, stats
<1>2. /\ waited' = [j \in JobIds |-> IF Waits(j) THEN waited[j] + 1 ELSE waited[j]]
      /\ firstRun' = [j \in JobIds |-> IF firstRun[j] = -1 /\ Runs(j) THEN time ELSE firstRun[j]]
  BY DEF RunUnit, Waits, Runs
<1>3. /\ waited \in [JobIds -> Nat] /\ firstRun \in [JobIds -> Nat \cup {-1}] /\ time \in Nat
      /\ JobCount \in Nat
  BY StatFacts
<1>4. IdsLeft' = IdsLeft /\ Len(jobs') = Len(jobs)
  <2>1. ASSUME NEW i \in 1..n PROVE jobs'[i].job_id = jobs[i].job_id
    BY <1>0, <1>1 DEF EntryStruct
  <2>2. Len(jobs') = n
    BY <1>0, <1>1
  <2> QED BY <1>0, <2>1, <2>2 DEF IdsLeft, Entries
<1>5. JobCount' = JobCount
  BY <1>1, <1>4 DEF JobCount
<1>6. HistoryTypeOK'
  <2>1. waited' \in [JobIds -> Nat] /\ firstRun' \in [JobIds -> Nat \cup {-1}]
    BY <1>2, <1>3
  <2>2. Cores' = Cores
    BY <1>1 DEF Cores
  <2> QED BY <1>1, <1>4, <1>5, <2>1, <2>2 DEF StatInv, HistoryTypeOK
<1>7. NothingBeforeArrival'
  <2> SUFFICES ASSUME NEW j \in IdsLeft, j \notin DOMAIN job PROVE waited'[j] = 0 /\ firstRun'[j] = -1
    BY <1>1, <1>4 DEF NothingBeforeArrival
  <2>1. j \in JobIds
    BY InvFacts DEF IdsLeft
  <2>2. ~Waits(j) /\ ~Runs(j)
    BY <2>1, RunsOrWaits
  <2> QED BY <1>2, <2>1, <2>2 DEF StatInv, NothingBeforeArrival
<1>8. ASSUME NEW j \in DOMAIN job PROVE WaitRight(j)' /\ StartRight(j)'
  <2>0. j \in JobIds /\ (Runs(j) <=> OnCore(p, j)) /\ (Waits(j) <=> ~OnCore(p, j))
    BY <1>0, RunsOrWaits
  <2>1. WaitRight(j)'
    <3>1. /\ N[j] \in JobStruct
          /\ N1[j].remaining_time = IF OnCore(p, j) THEN N[j].remaining_time - 1
                                    ELSE N[j].remaining_time
      <4>1. SchedTypeOK
        BY DEF IInv, SchedInv
      <4> QED BY <4>1, UnitOfTime DEF OnCore, Cores
    <3>2. waited'[j] = IF OnCore(p, j) THEN waited[j] ELSE waited[j] + 1
      BY <1>2, <2>0
    <3>3. waited[j] + (job[j].running_time - N[j].remaining_time) = time - job[j].arrival_time
      BY DEF StatInv, WaitRight
    <3>4. /\ waited[j] \in Int /\ time \in Int /\ N[j].remaining_time \in Int
          /\ job[j].running_time \in Int /\ job[j].arrival_time \in Int
      <4>1. job[j] \in JobStruct
        BY InvFacts
      <4>2. waited[j] \in Nat
        BY <1>3, <2>0
      <4> QED BY <1>3, <3>1, <4>1, <4>2 DEF JobStruct
    <3>5. Now(core_job_ptrs, job, time)' = N1
      BY <1>1
    <3> HIDE DEF N, N1
    <3>6. waited'[j] + (job[j].running_time - N1[j].remaining_time) = (time + 1) - job[j].arrival_time
      BY <3>1, <3>2, <3>3, <3>4
    <3> QED BY <1>1, <3>5, <3>6 DEF WaitRight
  <2>2. StartRight(j)'
    <3>1. firstRun'[j] = IF firstRun[j] = -1 /\ OnCore(p, j) THEN time ELSE firstRun[j]
      BY <1>2, <2>0
    <3>2. StartRight(j)
      BY DEF StatInv
    <3>3. time # -1
      BY <1>3
    <3> SUFFICES ASSUME current_scheme \notin {"PSJF", "PPRI"}
                 PROVE  job[j].start_time = IF firstRun'[j] # -1 THEN firstRun'[j]
                                            ELSE IF OnCore(p, j) THEN time' ELSE -1
      BY <1>1 DEF StartRight, OnCore
    <3> QED BY <3>1, <3>2, <3>3 DEF StartRight
  <2> QED BY <2>1, <2>2
<1>9. Started'
  BY <1>1 DEF StatInv, Started, Cores
<1>10. FirstQuantum'
  <2>1. ASSUME NEW c \in Cores, core_job_ptrs[c] # NULL PROVE firstRun'[core_job_ptrs[c]] # -1
    <3>1. core_job_ptrs[c] \in JobIds /\ OnCore(p, core_job_ptrs[c])
      BY <1>0, <2>1 DEF OnCore
    <3>2. Runs(core_job_ptrs[c])
      BY <3>1, RunsOrWaits
    <3> QED BY <1>2, <1>3, <3>1, <3>2
  <2> QED BY <1>1, <2>1 DEF FirstQuantum, Cores
<1>11. TotalIsSum'
  <2>1. ASSUME NEW k \in 0..(JobCount - 1), k \notin IdsLeft PROVE waited'[k] = waited[k]
    <3>1. k \in JobIds
      BY DEF StatInv, HistoryTypeOK
    <3>2. ~Waits(k)
      BY <2>1, <3>1, RunsOrWaits
    <3> QED BY <1>2, <3>1, <3>2
  <2>2. TotalIsSum
    BY DEF StatInv
  <2> QED BY <1>1, <1>3, <1>4, <1>5, <2>1, <2>2, TotalStays
<1>12. \A j \in DOMAIN job' : WaitRight(j)' /\ StartRight(j)'
  BY <1>1, <1>8
<1> QED BY <1>6, <1>7, <1>9, <1>10, <1>11, <1>12 DEF StatInv

\* Nothing has arrived, waited or finished.
LEMMA InitStat == SimInit => StatInv
<1> SUFFICES ASSUME SimInit PROVE StatInv
  OBVIOUS
<1>1. PICK w \in Workloads, s \in Selected :
        scheduler_start_up(w.cores, s) /\ jobs = [i \in DOMAIN w.file |-> Entry(w.file, i)]
  BY DEF SimInit
<1>2. IInv
  BY InitIInv
<1>3. job = <<>> /\ DOMAIN job = {} /\ total_jobs_finished = 0 /\ total_wait_time = 0
      /\ \A c \in Cores : core_job_ptrs[c] = NULL
  BY <1>1 DEF scheduler_start_up, Cores
<1>4. Len(jobs) \in Nat /\ Entries = 1..Len(jobs) /\ JobCount = Len(jobs)
  BY <1>2, <1>3, InvFacts DEF JobCount
<1>5. ASSUME NEW i \in Entries PROVE jobs[i].job_id = i - 1 /\ jobs[i].job_id \in JobIds
  <2>1. Entries = DOMAIN jobs
    BY <1>2, InvFacts
  <2>2. DOMAIN jobs = DOMAIN w.file
    BY <1>1
  <2> QED BY <1>1, <1>2, <2>1, <2>2, InvFacts DEF Entry
<1>6. IdsLeft = 0..(JobCount - 1) /\ IdsLeft \subseteq JobIds
  <2>1. ASSUME NEW k \in 0..(JobCount - 1) PROVE k \in IdsLeft
    <3>1. k + 1 \in Entries /\ (k + 1) - 1 = k
      BY <1>4
    <3>2. jobs[k + 1].job_id = k
      BY <1>5, <3>1
    <3> QED BY <3>1, <3>2 DEF IdsLeft
  <2>2. ASSUME NEW k \in IdsLeft PROVE k \in 0..(JobCount - 1) /\ k \in JobIds
    <3>1. PICK i \in Entries : k = jobs[i].job_id
      BY DEF IdsLeft
    <3> QED BY <1>4, <1>5, <3>1
  <2> QED BY <2>1, <2>2
<1>7. HistoryTypeOK
  BY <1>3, <1>6 DEF SimInit, HistoryTypeOK
<1>8. NothingBeforeArrival /\ Started /\ FirstQuantum
  BY <1>3, <1>6 DEF SimInit, NothingBeforeArrival, Started, FirstQuantum
<1>9. TotalIsSum
  <2>1. PICK upTo : upTo = [k \in 0..JobCount |-> 0]
    OBVIOUS
  <2>2. \A k \in 1..JobCount : WaitedIfFinished(k - 1) = 0 /\ k - 1 \in 0..JobCount
    BY <1>4, <1>6 DEF WaitedIfFinished
  <2>3. SumsWaited(upTo) /\ upTo[JobCount] = total_wait_time
    BY <1>3, <1>4, <2>1, <2>2 DEF SumsWaited
  <2> QED BY <2>3 DEF TotalIsSum
<1> QED BY <1>3, <1>7, <1>8, <1>9 DEF StatInv

\* Every step of the simulator keeps it.
LEMMA StepStat == IInv /\ StatInv /\ [Next]_vars => StatInv'
<1> SUFFICES ASSUME IInv, StatInv, [Next]_vars PROVE StatInv'
  OBVIOUS
<1>1. IInv'
  BY StepIInv
<1>2. ASSUME UNCHANGED <<schedVars, jobs, quantum_clock, time, history>> PROVE StatInv'
  <2>1. UNCHANGED <<current_scheme, job, core_job_ptrs, jobs, quantum_clock, time, waited, firstRun,
                    total_wait_time, total_jobs_finished>>
    BY <1>2 DEF schedVars, stats, history
  <2>2. Cores' = Cores /\ Entries' = Entries /\ JobCount' = JobCount /\ IdsLeft' = IdsLeft
    BY <2>1 DEF Cores, Entries, JobCount, IdsLeft
  <2>3. HistoryTypeOK' /\ NothingBeforeArrival' /\ Started' /\ FirstQuantum'
    BY <2>1, <2>2 DEF StatInv, HistoryTypeOK, NothingBeforeArrival, Started, FirstQuantum
  <2>4. \A j \in DOMAIN job' : WaitRight(j)' /\ StartRight(j)'
    BY <2>1 DEF StatInv, WaitRight, StartRight, OnCore
  <2>5. TotalIsSum'
    BY <2>1, <2>2, StatFacts, TotalStays DEF StatInv
  <2> QED BY <2>3, <2>4, <2>5 DEF StatInv
<1>3. CASE Finish
  BY <1>1, <1>3, FinishKeepsStatistics
<1>4. CASE FinishesOver
  BY <1>2, <1>4 DEF FinishesOver
<1>5. CASE Expire
  BY <1>1, <1>5, ExpireKeepsStatistics
<1>6. CASE ExpiriesOver
  BY <1>2, <1>6 DEF ExpiriesOver
<1>7. CASE Arrive
  BY <1>1, <1>7, ArriveKeepsStatistics
<1>8. CASE ArrivalsOver
  BY <1>2, <1>8 DEF ArrivalsOver
<1>9. CASE RunUnit
  BY <1>1, <1>9, RunUnitKeepsStatistics
<1>10. CASE UNCHANGED vars
  BY <1>2, <1>10 DEF vars, simVars
<1> QED BY <1>3, <1>4, <1>5, <1>6, <1>7, <1>8, <1>9, <1>10 DEF Next

-----------------------------------------------------------------------------
(* The sum *)

\* upTo satisfies the equation by which UnitsWaited is defined.
IsSum(upTo) ==
  upTo = [n \in 0..JobCount |->
            IF n = 0 THEN 0
            ELSE upTo[n - 1] + (IF HasFinished(n - 1) THEN waited[n - 1] ELSE 0)]

\* UnitsWaited is the last value of a function that does.
LEMMA UnitsWaitedUnfolds ==
  ASSUME NEW g, IsSum(g)
  PROVE  \E upTo : IsSum(upTo) /\ UnitsWaited = upTo[JobCount]
  BY DEF IsSum, UnitsWaited

\* The sums of the invariant do.
LEMMA SumsAreSum ==
  ASSUME NEW upTo, SumsWaited(upTo), JobCount \in Nat
  PROVE  IsSum(upTo)
<1>1. ASSUME NEW n \in 0..JobCount
      PROVE  upTo[n] = IF n = 0 THEN 0
                       ELSE upTo[n - 1] + (IF HasFinished(n - 1) THEN waited[n - 1] ELSE 0)
  <2>1. CASE n = 0
    BY <2>1 DEF SumsWaited
  <2>2. CASE n # 0
    <3>1. n \in 1..JobCount
      BY <2>2
    <3>2. upTo[n] = upTo[n - 1] + WaitedIfFinished(n - 1)
      BY <3>1 DEF SumsWaited
    <3>3. n - 1 \in IdsLeft <=> ~HasFinished(n - 1)
      BY DEF IdsLeft, HasFinished
    <3> QED BY <2>2, <3>2, <3>3 DEF WaitedIfFinished
  <2> QED BY <2>1, <2>2
<1>2. upTo \in [0..JobCount -> Int]
  BY DEF SumsWaited
<1> QED BY <1>1, <1>2 DEF IsSum

\* The equation has one solution.
LEMMA SumIsUnique ==
  ASSUME JobCount \in Nat, NEW f, IsSum(f), NEW g, IsSum(g)
  PROVE  f[JobCount] = g[JobCount]
<1> DEFINE add(n) == IF HasFinished(n) THEN waited[n] ELSE 0
           Wrong == {n \in 0..JobCount : f[n] # g[n]}
<1>1. \A n \in 0..JobCount : /\ f[n] = IF n = 0 THEN 0 ELSE f[n - 1] + add(n - 1)
                             /\ g[n] = IF n = 0 THEN 0 ELSE g[n - 1] + add(n - 1)
  BY DEF IsSum
<1> HIDE DEF add
<1>2. Wrong = {}
  <2> SUFFICES ASSUME Wrong # {} PROVE FALSE
    OBVIOUS
  <2>1. PICK m \in Wrong : \A n \in Wrong : m <= n
    <3>1. Wrong \in SUBSET Nat
      OBVIOUS
    <3> HIDE DEF Wrong
    <3> QED BY <3>1, LeastNatural
  <2>2. m \in 0..JobCount /\ m # 0
    BY <1>1
  <2>3. m - 1 \in 0..JobCount /\ ~(m <= m - 1)
    BY <2>2
  <2>4. f[m - 1] = g[m - 1]
    BY <2>1, <2>3
  <2> QED BY <1>1, <2>2, <2>4
<1> QED BY <1>2

-----------------------------------------------------------------------------
(* The theorems *)

\* The invariant holds in every state of every simulation.
THEOREM InvariantHolds == Spec => []IInv
BY InitIInv, StepIInv, PTL DEF Spec

\* The core numbers that the simulator keeps from the scheduler's answers
\* (simulator.c, set_active_job and steps 1 to 3) and the core_job_ptrs of
\* libscheduler.c agree after every call, and neither the simulator's assertion
\* that a core runs one job nor its "selected an invalid job" and "selected an
\* invalid core" errors are reached.
THEOREM PicturesAgree == Spec => []SimulatorAgreesWithScheduler
<1>1. IInv => SimulatorAgreesWithScheduler
  <2> SUFFICES ASSUME IInv PROVE SimulatorAgreesWithScheduler
    OBVIOUS
  <2>1. phase # "error"
    BY DEF IInv, SimInv
  <2>2. \A i \in Entries, c \in Cores : jobs[i].core_id = c <=> core_job_ptrs[c] = jobs[i].job_id
    BY InvFacts
  <2>3. ASSUME NEW i \in Entries
        PROVE  /\ jobs[i].arrived <=> jobs[i].job_id \in DOMAIN job
               /\ (jobs[i].arrived /\ ~Running(i)) <=> Queued(jobs[i].job_id)
    <3>1. jobs[i].arrived <=> jobs[i].job_id \in DOMAIN job
      BY InvFacts DEF IInv, SimInv, Picture
    <3>2. Queued(jobs[i].job_id) => jobs[i].job_id \in DOMAIN job
      BY DEF IInv, SchedInv, PlacedOnce, Queued
    <3>3. Running(i) <=> \E c \in Cores : core_job_ptrs[c] = jobs[i].job_id
      <4>1. jobs[i].core_id \in Cores \cup {-1}
        BY InvFacts DEF IInv, SimInv, Picture
      <4> QED BY <4>1, InvFacts DEF Running
    <3>4. jobs[i].job_id \in DOMAIN job =>
            ((\E c \in Cores : core_job_ptrs[c] = jobs[i].job_id) <=> ~Queued(jobs[i].job_id))
      BY DEF IInv, SchedInv, PlacedOnce, Queued, Cores
    <3> QED BY <3>1, <3>2, <3>3, <3>4
  <2>4. \A k, l \in 1..Len(job_queue) : job_queue[k] = job_queue[l] => k = l
    BY DEF IInv, SchedInv, PlacedOnce
  <2>5. \A j \in DOMAIN job : \E i \in Entries : jobs[i].job_id = j
    BY DEF IInv, SimInv, Picture, Entries
  <2> QED BY <2>1, <2>2, <2>3, <2>4, <2>5 DEF SimulatorAgreesWithScheduler
<1> QED BY <1>1, InvariantHolds, PTL

\* The remaining time that libscheduler.c computes from the times of the calls
\* is what the simulator still has to run, however often a job was preempted.
THEOREM RemainingTimeRight == Spec => []RemainingTimeIsExact
<1>1. IInv => RemainingTimeIsExact
  <2> SUFFICES ASSUME IInv, NEW i \in Entries, jobs[i].arrived
               PROVE  jobs[i].run_time =
                        IF Running(i)
                        THEN job[jobs[i].job_id].remaining_time
                               - (time - job[jobs[i].job_id].last_scheduled_time)
                        ELSE job[jobs[i].job_id].remaining_time
    BY DEF RemainingTimeIsExact
  <2> DEFINE j == jobs[i].job_id
             N == Now(core_job_ptrs, job, time)
  <2>1. j \in DOMAIN job /\ jobs[i].run_time = N[j].remaining_time
    BY InvFacts DEF IInv, SimInv, Picture, SameTimes
  <2>2. N[j] = IF \E c \in Cores : core_job_ptrs[c] = j THEN Aged(job[j], time) ELSE job[j]
    BY <2>1 DEF Now, Cores
  <2>3. Running(i) <=> \E c \in Cores : core_job_ptrs[c] = j
    <3>1. jobs[i].core_id \in Cores \cup {-1}
      BY InvFacts DEF IInv, SimInv, Picture
    <3> QED BY <3>1, InvFacts DEF Running
  <2>4. job[j] \in JobStruct
    BY <2>1, InvFacts
  <2>5. Aged(job[j], time).remaining_time =
          job[j].remaining_time - (time - job[j].last_scheduled_time)
    BY <2>4 DEF Aged, JobStruct
  <2> HIDE DEF N
  <2> QED BY <2>1, <2>2, <2>3, <2>5
<1> QED BY <1>1, InvariantHolds, PTL

\* The list of libpriqueue.c stays sorted although offer is the only function
\* that compares and the structures change between the offers.
THEOREM QueueIsSorted == Spec => []QueueSorted
<1>1. IInv => QueueSorted
  <2> SUFFICES ASSUME IInv PROVE QueueSorted
    OBVIOUS
  <2> DEFINE N == Now(core_job_ptrs, job, time)
  <2>1. \A k \in 1..Len(job_queue) : N[job_queue[k]] = job[job_queue[k]]
    BY QueuedIsCurrent DEF IInv, SchedInv
  <2>2. Sorted(job_queue, N)
    BY DEF IInv, SchedInv
  <2> HIDE DEF N
  <2> QED BY <2>1, <2>2 DEF Sorted, QueueSorted
<1> QED BY <1>1, InvariantHolds, PTL

\* No core idles while a job waits: every function that frees a core polls the
\* queue, and scheduler_new_job looks for an idle core first.
THEOREM NoCoreIdles == Spec => []WorkConserving
<1>1. IInv => WorkConserving
  BY DEF IInv, SchedInv, BusyIfWaiting, WorkConserving
<1> QED BY <1>1, InvariantHolds, PTL

\* Under PSJF and PPRI no waiting job comes before a running one when a unit
\* runs: scheduler_new_job preempts the worst, and only the worst, in time.
THEOREM BestRun == Spec => []BestJobsRun
<1>1. IInv => BestJobsRun
  BY NowIsUpdated DEF IInv, SchedInv, NoneBefore, BestJobsRun, Cores
<1> QED BY <1>1, InvariantHolds, PTL

\* The waiting time that scheduler_job_finished adds up from the times of the
\* calls (turnaround less running time) is, for all jobs that have finished,
\* the number of units in which the simulator had them on no core; and the
\* start_time from which the response time is computed is, without preemption,
\* the first unit the job ran.
THEOREM StatisticsRight == Spec => []StatisticsAreExact
<1>1. IInv /\ StatInv => StatisticsAreExact
  <2> SUFFICES ASSUME IInv, StatInv PROVE StatisticsAreExact
    OBVIOUS
  <2>1. total_wait_time = UnitsWaited
    <3>1. PICK sums : SumsWaited(sums) /\ sums[JobCount] = total_wait_time
      BY DEF StatInv, TotalIsSum
    <3>2. JobCount \in Nat /\ IsSum(sums)
      BY <3>1, StatFacts, SumsAreSum
    <3>3. PICK upTo : IsSum(upTo) /\ UnitsWaited = upTo[JobCount]
      BY <3>2, UnitsWaitedUnfolds
    <3> QED BY <3>1, <3>2, <3>3, SumIsUnique
  <2>2. ASSUME current_scheme \notin {"PSJF", "PPRI"}, NEW j \in DOMAIN job, firstRun[j] # -1
        PROVE  job[j].start_time = firstRun[j]
    BY <2>2 DEF StatInv, StartRight
  <2> QED BY <2>1, <2>2 DEF StatisticsAreExact
<1>2. SimInit => IInv /\ StatInv
  BY InitIInv, InitStat
<1>3. IInv /\ StatInv /\ [Next]_vars => (IInv /\ StatInv)'
  BY StepIInv, StepStat
<1> QED BY <1>1, <1>2, <1>3, PTL DEF Spec
=============================================================================
