-------------------------- MODULE PhilosophersProofs --------------------------
(***************************************************************************)
(* Mutual exclusion and freedom from deadlock of the dining philosophers,  *)
(* for every number of philosophers and every number of periods.           *)
(***************************************************************************)
EXTENDS DiningPhilosophers, TLAPS

IInv == TypeOK /\ ChopsticksExclusive

-----------------------------------------------------------------------------
\* A philosopher has two different chopsticks, and takes one, then the other.
LEMMA ChopstickFacts ==
  ASSUME NEW p \in Phils
  PROVE  /\ left_chop(p) \in Phils
         /\ right_chop(p) \in Phils
         /\ left_chop(p) # right_chop(p)
         /\ first(p) \in Phils
         /\ second(p) \in Phils
         /\ first(p) # second(p)
         /\ {first(p), second(p)} = {left_chop(p), right_chop(p)}
<1>1. /\ left_chop(p) \in Phils /\ right_chop(p) \in Phils
      /\ left_chop(p) # right_chop(p)
  BY NumPhilsAssumption DEF Phils, left_chop, right_chop
<1> QED BY <1>1 DEF first, second

\* set_table establishes the invariant.
LEMMA InitIInv == Init => IInv
<1> SUFFICES ASSUME Init PROVE IInv
  OBVIOUS
<1>1. TypeOK
  <2>1. i \in 0..NUM_PHILS /\ iter \in Nat
    BY NumPhilsAssumption DEF Init
  <2>2. /\ Stop \in BOOLEAN /\ deadlock \in BOOLEAN
        /\ prog \in [Phils -> BOOLEAN]
        /\ chopstick \in [Phils -> Phils \cup {Nobody}]
    BY DEF Init
  <2> QED BY <2>1, <2>2 DEF Init, TypeOK
<1>2. ChopsticksExclusive
  BY NobodyAssumption DEF Init, ChopsticksExclusive, Held
<1> QED BY <1>1, <1>2 DEF IInv

\* Every step of a philosopher or of main keeps the types.
LEMMA NextTypeOK == TypeOK /\ [Next]_vars => TypeOK'
<1> SUFFICES ASSUME TypeOK, [Next]_vars PROVE TypeOK'
  OBVIOUS
<1> USE DEF TypeOK
<1>1. ASSUME NEW p \in Phils, Philosopher(p) PROVE TypeOK'
  <2>1. left_chop(p) \in Phils /\ right_chop(p) \in Phils
        /\ first(p) \in Phils /\ second(p) \in Phils
    BY ChopstickFacts
  <2>2. CASE TestStop(p)
    BY <2>2 DEF TestStop, Goes, mainVars
  <2>3. CASE GrabFirst(p)
    BY <2>1, <2>3 DEF GrabFirst, Goes, Lock, mainVars
  <2>4. CASE GrabSecond(p)
    BY <2>1, <2>4 DEF GrabSecond, Goes, Lock, mainVars
  <2>5. CASE GrabNone(p)
    BY <2>5 DEF GrabNone, Goes, mainVars
  <2>6. CASE ReleaseRight(p)
    BY <2>1, <2>6 DEF ReleaseRight, Goes, Unlock, mainVars
  <2>7. CASE ReleaseLeft(p)
    BY <2>1, <2>7 DEF ReleaseLeft, Goes, Unlock, mainVars
  <2>8. CASE CountProgress(p)
    BY <2>8 DEF CountProgress, Goes, mainVars
  <2> QED BY <1>1, <2>2, <2>3, <2>4, <2>5, <2>6, <2>7, <2>8 DEF Philosopher
<1>2. CASE Main
  <2> USE DEF Main, ResetProgress, Sleep, CheckProgress, EndPeriod, EndCheck, UnlockAll,
              UnlocksOver, Join, Exit, LoopEnds, philVars
  <2>1. i' \in 0..NUM_PHILS /\ iter' \in Nat
    <3>1. (i < NUM_PHILS /\ i' = i + 1) \/ i' = 0
      BY <1>2, Zenon DEF NextIndex
    <3>2. iter' = iter \/ iter' = iter + 1
      BY <1>2, Zenon
    <3>3. i \in 0..NUM_PHILS /\ iter \in Nat
      OBVIOUS
    <3> HIDE DEF TypeOK, Main, ResetProgress, Sleep, CheckProgress, EndPeriod, EndCheck,
                 UnlockAll, UnlocksOver, Join, Exit, LoopEnds, philVars
    <3> QED BY <3>1, <3>2, <3>3, NumPhilsAssumption
  <2>2. Stop' \in BOOLEAN /\ deadlock' \in BOOLEAN /\ prog' \in [Phils -> BOOLEAN]
    BY <1>2, Zenon
  <2>3. chopstick' \in [Phils -> Phils \cup {Nobody}]
    BY <1>2 DEF Unlock
  <2>4. /\ program' \in Selected
        /\ main_at' \in {"reset", "check", "unlock", "join", "exited"}
        /\ at' = at
    BY <1>2
  <2> QED BY <2>1, <2>2, <2>3, <2>4
<1>3. ASSUME NEW p \in Phils, Tick(p) PROVE TypeOK'
  BY <1>3 DEF Tick, mainVars
<1>4. CASE UNCHANGED vars
  BY <1>4 DEF vars, philVars, mainVars
<1> QED BY <1>1, <1>2, <1>3, <1>4 DEF Next

\* main leaves the chopsticks alone while the philosophers dine, and never
\* comes back to that time once it has left it.
LEMMA MainLeavesDiners ==
  ASSUME Main, Dining'
  PROVE  Dining /\ UNCHANGED <<program, chopstick, at>>
BY DEF Main, ResetProgress, Sleep, CheckProgress, EndPeriod, EndCheck, UnlockAll, UnlocksOver,
       Join, Exit, LoopEnds, philVars, Dining

\* What a philosopher holds is a matter of its own place in the program.
LEMMA HeldFrame ==
  ASSUME NEW q \in Phils, at'[q] = at[q], program' = program
  PROVE  Held(q)' = Held(q)
BY DEF Held, first, second, LeftFirst

\* Every step of a philosopher keeps chopsticks and owners in agreement.
LEMMA PhilosopherExclusive ==
  ASSUME TypeOK, ChopsticksExclusive, Dining, program # "dp_waiter",
         NEW p \in Phils, Philosopher(p)
  PROVE  ChopsticksExclusive'
<1> USE DEF TypeOK
<1>1. /\ program' = program
      /\ \E to : at' = [at EXCEPT ![p] = to]
  BY DEF Philosopher, TestStop, GrabFirst, GrabSecond, GrabNone, ReleaseRight,
         ReleaseLeft, CountProgress, Goes
<1>2. ASSUME NEW q \in Phils, q # p PROVE Held(q)' = Held(q)
  BY <1>1, <1>2, HeldFrame
<1>3. /\ left_chop(p) \in Phils /\ right_chop(p) \in Phils
      /\ left_chop(p) # right_chop(p)
      /\ first(p) \in Phils /\ second(p) \in Phils
      /\ {first(p), second(p)} = {left_chop(p), right_chop(p)}
  BY ChopstickFacts
<1>4. first(p)' = first(p)
  BY <1>1 DEF first, LeftFirst
<1>5. \A q, c \in Phils : chopstick[c] = q <=> c \in Held(q)
  BY DEF ChopsticksExclusive
<1>6. SUFFICES \A q, c \in Phils : chopstick'[c] = q <=> c \in Held(q)'
  BY DEF ChopsticksExclusive
<1>7. CASE chopstick' = chopstick /\ Held(p)' = Held(p)
  <2> SUFFICES ASSUME NEW q \in Phils, NEW d \in Phils
               PROVE  chopstick'[d] = q <=> d \in Held(q)'
    OBVIOUS
  <2>1. Held(q)' = Held(q)
    BY <1>2, <1>7
  <2>2. chopstick'[d] = chopstick[d]
    BY <1>7
  <2>3. chopstick[d] = q <=> d \in Held(q)
    BY <1>5
  <2> QED BY <2>1, <2>2, <2>3, Zenon
<1>8. ASSUME NEW c \in Phils, chopstick[c] = Nobody,
             chopstick' = [chopstick EXCEPT ![c] = p],
             Held(p)' = Held(p) \cup {c}
      PROVE  \A q, d \in Phils : chopstick'[d] = q <=> d \in Held(q)'
  <2> SUFFICES ASSUME NEW q \in Phils, NEW d \in Phils
               PROVE  chopstick'[d] = q <=> d \in Held(q)'
    OBVIOUS
  <2>1. chopstick'[d] = IF d = c THEN p ELSE chopstick[d]
    BY <1>8
  <2>2. chopstick[d] = q <=> d \in Held(q)
    BY <1>5
  <2>3. c \notin Held(q)
    BY <1>5, <1>8, NobodyAssumption
  <2>4. CASE q = p
    BY <2>1, <2>2, <2>4, <1>8
  <2>5. CASE q # p
    <3>1. Held(q)' = Held(q)
      BY <1>2, <2>5
    <3> QED BY <2>1, <2>2, <2>3, <2>5, <3>1
  <2> QED BY <2>4, <2>5
<1>9. ASSUME NEW c \in Phils, c \in Held(p),
             chopstick' = [chopstick EXCEPT ![c] = Nobody],
             Held(p)' = Held(p) \ {c}
      PROVE  \A q, d \in Phils : chopstick'[d] = q <=> d \in Held(q)'
  <2> SUFFICES ASSUME NEW q \in Phils, NEW d \in Phils
               PROVE  chopstick'[d] = q <=> d \in Held(q)'
    OBVIOUS
  <2>1. chopstick'[d] = IF d = c THEN Nobody ELSE chopstick[d]
    BY <1>9
  <2>2. chopstick[d] = q <=> d \in Held(q)
    BY <1>5
  <2>3. chopstick[c] = p
    BY <1>5, <1>9
  <2>4. CASE q = p
    BY <2>1, <2>2, <2>4, <1>9, NobodyAssumption
  <2>5. CASE q # p
    <3>1. Held(q)' = Held(q) /\ c \notin Held(q)
      BY <1>2, <1>5, <2>3, <2>5
    <3> QED BY <2>1, <2>2, <2>5, <3>1, NobodyAssumption
  <2> QED BY <2>4, <2>5
<1>10. CASE TestStop(p)
  BY <1>7, <1>10 DEF TestStop, Goes, Held
<1>11. CASE GrabFirst(p)
  <2>1. Held(p) = {} /\ Held(p)' = {first(p)}
    BY <1>4, <1>11 DEF GrabFirst, Goes, Held
  <2> QED BY <1>3, <1>8, <1>11, <2>1 DEF GrabFirst, Lock
<1>12. CASE GrabSecond(p)
  <2>1. Held(p) = {first(p)} /\ Held(p)' = {left_chop(p), right_chop(p)}
    BY <1>12 DEF GrabSecond, Goes, Held, left_chop, right_chop
  <2>2. Held(p)' = Held(p) \cup {second(p)}
    BY <1>3, <2>1
  <2> QED BY <1>3, <1>8, <1>12, <2>2 DEF GrabSecond, Lock
<1>13. CASE ReleaseRight(p)
  <2>1. Held(p) = {left_chop(p), right_chop(p)} /\ Held(p)' = {left_chop(p)}
    BY <1>13 DEF ReleaseRight, Goes, Held, left_chop
  <2> QED BY <1>3, <1>9, <1>13, <2>1 DEF ReleaseRight, Unlock
<1>14. CASE ReleaseLeft(p)
  <2>1. Held(p) = {left_chop(p)} /\ Held(p)' = {}
    BY <1>14 DEF ReleaseLeft, Goes, Held
  <2> QED BY <1>3, <1>9, <1>14, <2>1 DEF ReleaseLeft, Unlock
<1>15. CASE CountProgress(p)
  BY <1>7, <1>15 DEF CountProgress, Goes, Held
<1> QED BY <1>10, <1>11, <1>12, <1>13, <1>14, <1>15 DEF Philosopher, GrabNone

-----------------------------------------------------------------------------
\* Every step preserves the invariant.
LEMMA NextIInv == IInv /\ [Next]_vars => IInv'
<1> SUFFICES ASSUME IInv, [Next]_vars PROVE IInv'
  OBVIOUS
<1>1. TypeOK /\ TypeOK'
  BY NextTypeOK DEF IInv
<1>2. CASE Main
  <2> SUFFICES ASSUME Dining', program' # "dp_waiter" PROVE ChopsticksExclusive'
    BY <1>1 DEF IInv, ChopsticksExclusive
  <2>1. Dining /\ UNCHANGED <<program, chopstick, at>>
    BY <1>2, MainLeavesDiners
  <2>2. \A q \in Phils : Held(q)' = Held(q)
    BY <2>1, HeldFrame
  <2>3. \A p, c \in Phils : chopstick[c] = p <=> c \in Held(p)
    BY <2>1 DEF IInv, ChopsticksExclusive
  <2> QED BY <2>1, <2>2, <2>3 DEF ChopsticksExclusive
<1>3. ASSUME NEW p \in Phils, Philosopher(p) PROVE ChopsticksExclusive'
  <2> SUFFICES ASSUME Dining', program' # "dp_waiter" PROVE ChopsticksExclusive'
    BY DEF ChopsticksExclusive
  <2>1. program' = program /\ main_at' = main_at
    BY <1>3 DEF Philosopher, TestStop, GrabFirst, GrabSecond, GrabNone, ReleaseRight,
                ReleaseLeft, CountProgress, mainVars
  <2>2. ChopsticksExclusive /\ Dining /\ program # "dp_waiter"
    BY <2>1 DEF IInv, Dining
  <2> QED BY <1>1, <1>3, <2>2, PhilosopherExclusive
<1>4. CASE UNCHANGED vars \/ \E p \in Phils : Tick(p)
  <2>1. UNCHANGED <<program, chopstick, at, main_at>>
    BY <1>4 DEF vars, philVars, mainVars, Tick
  <2>2. \A q \in Phils : Held(q)' = Held(q)
    BY <2>1, HeldFrame
  <2>3. ChopsticksExclusive
    BY DEF IInv
  <2>4. ChopsticksExclusive'
    BY <2>1, <2>2, <2>3 DEF ChopsticksExclusive, Dining
  <2> QED BY <1>1, <2>4 DEF IInv
<1> QED BY <1>1, <1>2, <1>3, <1>4 DEF Next, IInv

\* The invariant holds in every reachable state.
LEMMA AlwaysIInv == Spec => []IInv
  BY InitIInv, NextIInv, PTL DEF Spec

\* Type correctness of the philosophers and of main, whose loop variable never
\* leaves the arrays.
THEOREM TypeCorrect == Spec => []TypeOK
<1>1. IInv => TypeOK
  BY DEF IInv
<1> QED BY <1>1, AlwaysIInv, PTL

\* A philosopher of dining_philosophers or dp_asymmetric is the only owner of
\* the chopsticks it uses, at a table of any size.
THEOREM ChopsticksAlwaysExclusive == Spec => []ChopsticksExclusive
<1>1. IInv => ChopsticksExclusive
  BY DEF IInv
<1> QED BY <1>1, AlwaysIInv, PTL

\* Neighbours of dining_philosophers and dp_asymmetric never eat together.
THEOREM NeighboursAlwaysTakeTurns == Spec => []NeighboursTakeTurns
<1>1. IInv => NeighboursTakeTurns
  <2> SUFFICES ASSUME IInv, Dining, NEW p \in Phils,
                      program # "dp_waiter",
                      at[p] = "eating", at[right_phil(p)] = "eating"
               PROVE  FALSE
    BY DEF NeighboursTakeTurns
  <2> DEFINE q == right_phil(p)
  <2>1. q \in Phils /\ q # p /\ right_chop(p) = q /\ left_chop(q) = q
    BY NumPhilsAssumption DEF Phils, right_phil, right_chop, left_chop
  <2>2. q \in Held(p) /\ q \in Held(q)
    BY <2>1 DEF Held
  <2> HIDE DEF q
  <2>3. ChopsticksExclusive
    BY DEF IInv
  <2>4. chopstick[q] = p /\ chopstick[q] = q
    BY <2>1, <2>2, <2>3 DEF ChopsticksExclusive
  <2> QED BY <2>1, <2>4
<1> QED BY <1>1, AlwaysIInv, PTL

-----------------------------------------------------------------------------
(* The asymmetric order *)

\* The order in which the philosophers of dp_asymmetric take the chopsticks.
LEMMA AsymmetricOrder ==
  ASSUME program = "dp_asymmetric", NEW p \in Phils
  PROVE  \/ p % 2 = 0 /\ first(p) = p /\ second(p) = right_chop(p)
         \/ p % 2 = 1 /\ p # 0 /\ first(p) = p - 1 /\ second(p) = p
<1>1. CASE p % 2 = 0
  BY <1>1 DEF first, second, LeftFirst, left_chop
<1>2. CASE p % 2 # 0
  <2>1. p \in Nat /\ p # 0 /\ p % 2 = 1
    BY <1>2, NumPhilsAssumption DEF Phils
  <2> QED BY <1>2, <2>1 DEF first, second, LeftFirst, right_chop, left_chop
<1> QED BY <1>1, <1>2

\* In dp_asymmetric every philosopher takes an even chopstick first.
LEMMA FirstIsEven ==
  ASSUME program = "dp_asymmetric", NEW p \in Phils
  PROVE  first(p) % 2 = 0
<1>1. p \in Nat
  BY NumPhilsAssumption DEF Phils
<1>2. CASE p % 2 = 0 /\ first(p) = p
  BY <1>2
<1>3. CASE p % 2 = 1 /\ p # 0 /\ first(p) = p - 1
  BY <1>1, <1>3
<1> QED BY <1>2, <1>3, AsymmetricOrder

\* When all are blocked, a chopstick somebody waits for is the first one of
\* another philosopher that waits for its second.
LEMMA OwnerWaits ==
  ASSUME IInv, Dining, Deadlocked, program = "dp_asymmetric",
         NEW c \in Phils, chopstick[c] # Nobody
  PROVE  \E q \in Phils : at[q] = "holds one" /\ first(q) = c /\ c % 2 = 0
<1>1. ChopsticksExclusive
  BY DEF IInv
<1>2. PICK q \in Phils : chopstick[c] = q
  BY DEF IInv, TypeOK
<1>3. c \in Held(q)
  BY <1>1, <1>2 DEF ChopsticksExclusive
<1>4. at[q] = "hungry" \/ at[q] = "holds one"
  BY DEF Deadlocked, Blocked
<1>5. at[q] = "holds one" /\ first(q) = c
  BY <1>3, <1>4 DEF Held
<1> QED BY <1>5, FirstIsEven

\* In dp_asymmetric the philosophers are never all blocked.  Philosopher 1
\* cannot wait for chopstick 1, which is odd, so it waits for chopstick 0, and
\* philosopher 0 has that and waits for the last one.  Its owner can only be
\* the last philosopher, who in turn waits for an odd chopstick.
LEMMA AsymmetricNotBlocked ==
  ASSUME IInv, Dining, program = "dp_asymmetric"
  PROVE  ~Deadlocked
<1> SUFFICES ASSUME Deadlocked PROVE FALSE
  OBVIOUS
<1> DEFINE last == NUM_PHILS - 1
<1>1. last \in Nat \ {0} /\ Phils = 0..last
  BY NumPhilsAssumption DEF Phils
<1>2. right_chop(0) = last /\ right_chop(last) = last - 1
  BY NumPhilsAssumption DEF right_chop
<1> HIDE DEF last
<1>3. 0 \in Phils /\ 1 \in Phils /\ last \in Phils /\ last - 1 \in Phils
  BY <1>1
<1>4. first(1) = 0 /\ second(1) = 1 /\ first(0) = 0 /\ second(0) = last
  BY <1>2 DEF first, second, LeftFirst, left_chop, right_chop
<1>5. at[1] = "hungry" /\ chopstick[0] # Nobody
  <2>1. 1 % 2 # 0
    OBVIOUS
  <2>2. chopstick[1] = Nobody
    BY <1>3, <2>1, OwnerWaits
  <2> QED BY <1>3, <1>4, <2>2 DEF Deadlocked, Blocked
<1>6. at[0] = "holds one"
  <2>1. PICK q \in Phils : at[q] = "holds one" /\ first(q) = 0
    BY <1>3, <1>5, OwnerWaits
  <2>2. first(q) = q \/ first(q) = q - 1
    BY AsymmetricOrder
  <2>3. \A n \in Nat : 0 = n - 1 => n = 1
    OBVIOUS
  <2>4. q \in Nat
    BY <1>1
  <2>5. q = 0 \/ q = 1
    BY <2>1, <2>2, <2>3, <2>4, Zenon
  <2> QED BY <1>5, <2>1, <2>5
<1>7. chopstick[last] # Nobody
  BY <1>3, <1>4, <1>6 DEF Deadlocked, Blocked
<1>8. PICK q \in Phils : at[q] = "holds one" /\ first(q) = last /\ last % 2 = 0
  BY <1>3, <1>7, OwnerWaits
<1>9. q = last
  <2>1. first(q) = q \/ first(q) = q - 1
    BY AsymmetricOrder
  <2>2. q # last => q - 1 # last
    BY <1>1
  <2> QED BY <1>8, <2>1, <2>2, Zenon
<1>10. second(last) = last - 1
  <2>1. ~(last % 2 = 1)
    <3>1. 0 # 1
      OBVIOUS
    <3> QED BY <1>8, <3>1, Zenon
  <2> QED BY <1>2, <1>3, <2>1, AsymmetricOrder, Zenon
<1>11. (last - 1) % 2 # 0
  <2>1. \A n \in Nat \ {0} : n % 2 = 0 => (n - 1) % 2 # 0
    OBVIOUS
  <2> QED BY <1>1, <1>8, <2>1
<1>12. chopstick[last - 1] # Nobody
  BY <1>3, <1>8, <1>9, <1>10 DEF Deadlocked, Blocked
<1> QED BY <1>3, <1>11, <1>12, OwnerWaits

\* In dp_asymmetric the philosophers never all wait for each other, at a table
\* of any size: main only ever reports "Finished without Deadlock" of it, as
\* long as every philosopher that can eat does so within a period.
THEOREM AsymmetricNeverDeadlocks == Spec => []NeverDeadlocked
<1>1. IInv => NeverDeadlocked
  BY AsymmetricNotBlocked DEF NeverDeadlocked
<1> QED BY <1>1, AlwaysIInv, PTL
=============================================================================
