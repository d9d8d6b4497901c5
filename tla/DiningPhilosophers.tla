-------------------------- MODULE DiningPhilosophers --------------------------
(***************************************************************************)
(* The three programs of lab6/pthreads_dp and dine of lab10/procfs: one    *)
(* thread per philosopher, one mutex per chopstick, and main, which looks  *)
(* for progress once per accounting period, stops the philosophers,        *)
(* unlocks every chopstick and joins the threads.  The programs of lab6    *)
(* differ in the way dp_thread takes the chopsticks; progress is a counter *)
(* that main resets.  dine goes on until it finds a deadlock; progress is  *)
(* a change of the CPU time that the operating system has for a thread.    *)
(*                                                                         *)
(* An action is what a thread does between two accesses to shared memory.  *)
(* Of the counters only whether they are zero matters, and of CPU times    *)
(* whether they have changed; thinking and eating take any time, and so    *)
(* does the sleep of an accounting period.                                 *)
(***************************************************************************)
EXTENDS Integers

CONSTANTS NUM_PHILS,        \* philosophers, and chopsticks
          ITERATION_LIMIT,  \* accounting periods
          Selected,         \* the programs that may be run
          Nobody            \* the owner of a mutex that is not locked

Phils == 0..(NUM_PHILS - 1)
Programs == {"dining_philosophers", "dp_asymmetric", "dp_waiter", "dine"}

ASSUME NumPhilsAssumption == NUM_PHILS \in Nat /\ NUM_PHILS >= 2
ASSUME IterationAssumption == ITERATION_LIMIT \in Nat \ {0}
ASSUME SelectedAssumption == Selected \subseteq Programs
ASSUME NobodyAssumption == Nobody \notin Phils

VARIABLES
  program,    \* the program that is run
  chopstick,  \* the owner of each mutex
  prog,       \* whether Diners[p].prog is not 0; in dine, whether the CPU
              \* times of p differ from user_time[p] and sys_time[p]
  Stop,
  at,         \* per philosopher: where its thread is
  main_at,    \* where main is
  i,          \* the loop variable of main
  deadlock,   \* local of main
  iter        \* local of main

philVars == <<chopstick, prog, at>>
mainVars == <<Stop, main_at, i, deadlock, iter>>
vars == <<program, philVars, mainVars>>

-----------------------------------------------------------------------------
left_chop(p) == p
right_chop(p) == IF p = 0 THEN NUM_PHILS - 1 ELSE p - 1
right_phil(p) == IF p = 0 THEN NUM_PHILS - 1 ELSE p - 1

\* Mutant: odd philosophers, too, start with the left chopstick.
LeftIsFirst(p) == TRUE

LeftFirst(p) == program = "dp_asymmetric" => p % 2 = 0

first(p) == IF LeftFirst(p) THEN left_chop(p) ELSE right_chop(p)
second(p) == IF LeftFirst(p) THEN right_chop(p) ELSE left_chop(p)

\* set_table; main has not entered its loop, or in dine slept once.
Init ==
  /\ program \in Selected
  /\ chopstick = [c \in Phils |-> Nobody]
  /\ prog = [p \in Phils |-> FALSE]
  /\ Stop = FALSE
  /\ at = [p \in Phils |-> "loop"]
  /\ main_at = IF program = "dine" THEN "check" ELSE "reset"
  /\ i = 0
  /\ deadlock = (program = "dine")
  /\ iter = 0

-----------------------------------------------------------------------------
(* The mutexes: pthreads, as the programs use them *)

Lock(p, c) == chopstick[c] = Nobody /\ chopstick' = [chopstick EXCEPT ![c] = p]

\* Unlocking is not tied to the owner: main unlocks what others have locked,
\* and a mutex that is not locked stays so.
Unlock(c) == chopstick' = [chopstick EXCEPT ![c] = Nobody]

-----------------------------------------------------------------------------
(* dp_thread *)

Goes(p, from, to) == at[p] = from /\ at' = [at EXCEPT ![p] = to]

\* The test of the loop; then the philosopher thinks.
TestStop(p) ==
  /\ \/ ~Stop /\ Goes(p, "loop", "hungry")
     \/ Stop /\ Goes(p, "loop", "finished")
  /\ UNCHANGED <<program, chopstick, prog, mainVars>>

GrabFirst(p) ==
  /\ Goes(p, "hungry", "holds one")
  /\ Lock(p, first(p))
  /\ UNCHANGED <<program, prog, mainVars>>

GrabSecond(p) ==
  /\ Goes(p, "holds one", "eating")
  /\ Lock(p, second(p))
  /\ UNCHANGED <<program, prog, mainVars>>

\* dp_waiter reads available_chopsticks[NUM_CHOPS], which lies outside the
\* array, and locks only if it finds 2 there: it may find anything.
GrabNone(p) ==
  /\ program = "dp_waiter"
  /\ Goes(p, "hungry", "eating")
  /\ UNCHANGED <<program, chopstick, prog, mainVars>>

\* Mutant: the right chopstick is not put down.
ReleaseNothing(p) ==
  /\ Goes(p, "eating", "holds left")
  /\ UNCHANGED <<program, chopstick, prog, mainVars>>

ReleaseRight(p) ==
  /\ Goes(p, "eating", "holds left")
  /\ Unlock(right_chop(p))
  /\ UNCHANGED <<program, prog, mainVars>>

ReleaseLeft(p) ==
  /\ Goes(p, "holds left", "fed")
  /\ Unlock(left_chop(p))
  /\ UNCHANGED <<program, prog, mainVars>>

CountProgress(p) ==
  /\ Goes(p, "fed", "loop")
  /\ prog' = IF program = "dine" THEN prog ELSE [prog EXCEPT ![p] = TRUE]
  /\ UNCHANGED <<program, chopstick, mainVars>>

Philosopher(p) ==
  \/ TestStop(p)
  \/ GrabFirst(p) \/ GrabSecond(p) \/ GrabNone(p)
  \/ ReleaseRight(p) \/ ReleaseLeft(p)
  \/ CountProgress(p)

\* Philosopher p waits for a chopstick.
Blocked(p) ==
  \/ at[p] = "hungry" /\ chopstick[first(p)] # Nobody
  \/ at[p] = "holds one" /\ chopstick[second(p)] # Nobody

\* A thread has used its processor for long enough to be charged for it; one
\* that waits uses none.
Tick(p) ==
  /\ program = "dine" /\ at[p] # "finished" /\ ~Blocked(p)
  /\ prog' = [prog EXCEPT ![p] = TRUE]
  /\ UNCHANGED <<program, chopstick, at, mainVars>>

-----------------------------------------------------------------------------
(* main *)

\* One iteration of a loop over the philosophers; the loop ends at NUM_PHILS.
NextIndex == i < NUM_PHILS /\ i' = i + 1
LoopEnds(from, to) == main_at = from /\ i = NUM_PHILS /\ main_at' = to /\ i' = 0

\* Mutant: the counters are not reset.
ResetNothing ==
  /\ main_at = "reset"
  /\ NextIndex
  /\ UNCHANGED <<program, philVars, Stop, main_at, deadlock, iter>>

ResetProgress ==
  /\ main_at = "reset"
  /\ NextIndex
  /\ prog' = [prog EXCEPT ![i] = FALSE]
  /\ UNCHANGED <<program, chopstick, at, Stop, main_at, deadlock, iter>>

\* The sleep of the accounting period, and the start of the check.
Sleep ==
  /\ LoopEnds("reset", "check")
  /\ deadlock' = TRUE
  /\ UNCHANGED <<program, philVars, Stop, iter>>

\* Mutant: the new times are not stored for the next comparison.
CheckProgressKeepsTimes ==
  /\ main_at = "check"
  /\ NextIndex
  /\ deadlock' = (deadlock /\ ~prog[i])
  /\ UNCHANGED <<program, philVars, Stop, main_at, iter>>

\* check_for_deadlock of dine stores the times it has read.
CheckProgress ==
  /\ main_at = "check"
  /\ NextIndex
  /\ deadlock' = (deadlock /\ ~prog[i])
  /\ prog' = IF program = "dine" THEN [prog EXCEPT ![i] = FALSE] ELSE prog
  /\ UNCHANGED <<program, chopstick, at, Stop, main_at, iter>>

\* The test at the end of the loop, and the assignment to Stop behind it.
EndPeriod ==
  /\ program # "dine"
  /\ iter' = iter + 1
  /\ IF ~deadlock /\ iter + 1 < ITERATION_LIMIT
     THEN LoopEnds("check", "reset") /\ UNCHANGED Stop
     ELSE LoopEnds("check", "unlock") /\ Stop' = TRUE
  /\ UNCHANGED <<program, philVars, deadlock>>

\* dine sleeps and checks until it has found a deadlock.
EndCheck ==
  /\ program = "dine"
  /\ LoopEnds("check", IF deadlock THEN "unlock" ELSE "check")
  /\ Stop' = deadlock
  /\ deadlock' = TRUE
  /\ UNCHANGED <<program, philVars, iter>>

UnlockAll ==
  /\ main_at = "unlock"
  /\ NextIndex
  /\ Unlock(i)
  /\ UNCHANGED <<program, prog, at, Stop, main_at, deadlock, iter>>

UnlocksOver ==
  /\ LoopEnds("unlock", "join")
  /\ UNCHANGED <<program, philVars, Stop, deadlock, iter>>

\* pthread_join waits for the threads in turn.
Join ==
  /\ main_at = "join"
  /\ NextIndex
  /\ at[i] = "finished"
  /\ UNCHANGED <<program, philVars, Stop, main_at, deadlock, iter>>

Exit ==
  /\ LoopEnds("join", "exited")
  /\ UNCHANGED <<program, philVars, Stop, deadlock, iter>>

Main == \/ ResetProgress \/ Sleep \/ CheckProgress \/ EndPeriod \/ EndCheck
        \/ UnlockAll \/ UnlocksOver \/ Join \/ Exit

Next == Main \/ \E p \in Phils : Philosopher(p) \/ Tick(p)

\* Every thread that can run runs, sooner or later.  Nothing is assumed of the
\* order in which a mutex admits the threads that wait for it, nor of when a
\* thread is charged.
Spec == /\ Init /\ [][Next]_vars
        /\ WF_vars(Main)
        /\ \A p \in Phils : WF_vars(Philosopher(p))

-----------------------------------------------------------------------------
(* Properties *)

\* Type invariant.
TypeOK ==
  /\ program \in Selected
  /\ chopstick \in [Phils -> Phils \cup {Nobody}]
  /\ prog \in [Phils -> BOOLEAN]
  /\ Stop \in BOOLEAN
  /\ at \in [Phils -> {"loop", "hungry", "holds one", "eating", "holds left",
                       "fed", "finished"}]
  /\ main_at \in {"reset", "check", "unlock", "join", "exited"}
  /\ i \in 0..NUM_PHILS
  /\ deadlock \in BOOLEAN
  /\ iter \in Nat

\* The chopsticks philosopher p believes to hold.
Held(p) ==
  CASE at[p] = "holds one" -> {first(p)}
    [] at[p] = "eating" -> {left_chop(p), right_chop(p)}
    [] at[p] = "holds left" -> {left_chop(p)}
    [] OTHER -> {}

\* main has not begun to unlock the chopsticks of others.
Dining == main_at \in {"reset", "check"}

\* Until main unlocks everything, a chopstick is owned by the philosopher that
\* uses it and by no other, and a chopstick that is owned is in use; except in
\* dp_waiter, whose philosophers may eat without chopsticks.
ChopsticksExclusive ==
  Dining /\ program # "dp_waiter" => \A p, c \in Phils : chopstick[c] = p <=> c \in Held(p)

\* Neighbours never eat at the same time while they dine, except in dp_waiter.
NeighboursTakeTurns ==
  Dining /\ program # "dp_waiter" => \A p \in Phils : ~(at[p] = "eating" /\ at[right_phil(p)] = "eating")

\* Every thread waits for another, as the comment in main has it.
Deadlocked == \A p \in Phils : Blocked(p)

\* dp_asymmetric: while they dine, the philosophers never all wait for each
\* other, whatever the order of events.
NeverDeadlocked == program = "dp_asymmetric" /\ Dining => ~Deadlocked

\* A deadlock that is there when an accounting period begins is reported at
\* its end.
DeadlockIsReported ==
  (Deadlocked /\ main_at = "reset" /\ i = 0) ~> (main_at = "unlock" /\ deadlock)

\* "Release all locks so philosophers can exit even if they are deadlocked"
\* (comment in main): a table that is deadlocked when main starts to unlock is
\* cleared, and all threads are joined.  A deadlock of dine gets that far,
\* whenever its threads were charged for the time they used before.
DeadlockIsResolved ==
  (Deadlocked /\ (\/ main_at = "unlock" /\ i = 0
                  \/ main_at = "check" /\ program = "dine"))
    ~> (main_at = "exited")

\* The program ends: all threads see Stop, finish and are joined.
EverybodyLeaves == <>(main_at = "exited")

\* dp_asymmetric ends, whatever the order of events while main unlocks
\* chopsticks that are in use.
AsymmetricLeaves == program = "dp_asymmetric" ~> main_at = "exited"
=============================================================================
