----------------------------- MODULE CountingThreads -----------------------------
(***************************************************************************)
(* The threads of lab5 that add to one counter: ptcount_mutex.c, which     *)
(* takes a lock, and ptcount_atomic.c, which uses __sync_fetch_and_add.    *)
(* Creating threads is successful; printing and freeing are left out.      *)
(***************************************************************************)
EXTENDS Integers

CONSTANTS NUM_THREADS,
          LoopBounds, Increments,   \* what the command line may say
          INT_RANGE                 \* the number of values of an int

ASSUME ThreadsAssumption ==
  /\ NUM_THREADS \in Nat \ {0} /\ INT_RANGE \in Nat \ {0}
  /\ LoopBounds \subseteq Nat /\ Increments \subseteq Int

Threads == 0..(NUM_THREADS - 1)
Main == -1

VARIABLES locking,      \* it is ptcount_mutex that runs
          loop, inc,
          total,        \* the variable count
          count_mutex,  \* the thread that holds the lock, or Main
          thread_at,    \* per thread: "new", "head", "locked", "add", "end"
          rounds,       \* per thread: i
          read,         \* per thread: what it has read of total
          loc,
          main_at       \* the thread main creates or waits for, as <<"create", t>> or
                        \* <<"join", t>>, then <<"done", 0>>

threadVars == <<locking, loop, inc, total, count_mutex, thread_at, rounds, read, loc, main_at>>

\* The value an int takes when x is put into it.
Int32(x) == x % INT_RANGE

ThreadsInit ==
  /\ locking \in BOOLEAN /\ loop \in LoopBounds /\ inc \in Increments
  /\ total = 0 /\ count_mutex = Main
  /\ thread_at = [t \in Threads |-> "new"]
  /\ rounds = [t \in Threads |-> 0] /\ read = [t \in Threads |-> 0]
  /\ loc = [t \in Threads |-> 0]
  /\ main_at = <<"create", 0>>

arguments == <<locking, loop, inc>>

Create(t) ==
  /\ main_at = <<"create", t>>
  /\ thread_at' = [thread_at EXCEPT ![t] = "head"]
  /\ main_at' = IF t + 1 \in Threads THEN <<"create", t + 1>> ELSE <<"join", 0>>
  /\ UNCHANGED <<arguments, total, count_mutex, rounds, read, loc>>

Join(t) ==
  /\ main_at = <<"join", t>> /\ thread_at[t] = "end"
  /\ main_at' = IF t + 1 \in Threads THEN <<"join", t + 1>> ELSE <<"done", 0>>
  /\ UNCHANGED <<arguments, total, count_mutex, thread_at, rounds, read, loc>>

\* The rest of an iteration, after the addition.
Iterated(t) ==
  /\ rounds' = [rounds EXCEPT ![t] = @ + 1]
  /\ loc' = [loc EXCEPT ![t] = Int32(@ + inc)]
  /\ thread_at' = [thread_at EXCEPT ![t] = "head"]

AtomicAdd(t) ==
  /\ thread_at[t] = "head" /\ rounds[t] < loop /\ ~locking
  /\ total' = Int32(total + inc)
  /\ Iterated(t)
  /\ UNCHANGED <<arguments, count_mutex, read, main_at>>

\* Mutant: the lock is not waited for.
LockHeld(t) ==
  /\ thread_at[t] = "head" /\ rounds[t] < loop /\ locking
  /\ count_mutex' = t
  /\ thread_at' = [thread_at EXCEPT ![t] = "locked"]
  /\ UNCHANGED <<arguments, total, rounds, read, loc, main_at>>

Lock(t) ==
  /\ thread_at[t] = "head" /\ rounds[t] < loop /\ locking
  /\ count_mutex = Main /\ count_mutex' = t
  /\ thread_at' = [thread_at EXCEPT ![t] = "locked"]
  /\ UNCHANGED <<arguments, total, rounds, read, loc, main_at>>

\* count = count + inc reads count, and another step writes it.
ReadTotal(t) ==
  /\ thread_at[t] = "locked"
  /\ read' = [read EXCEPT ![t] = total]
  /\ thread_at' = [thread_at EXCEPT ![t] = "add"]
  /\ UNCHANGED <<arguments, total, count_mutex, rounds, loc, main_at>>

\* The write, the unlock and the addition to loc, which nobody else sees.
WriteTotal(t) ==
  /\ thread_at[t] = "add"
  /\ total' = Int32(read[t] + inc)
  /\ count_mutex' = Main
  /\ Iterated(t)
  /\ UNCHANGED <<arguments, read, main_at>>

EndThread(t) ==
  /\ thread_at[t] = "head" /\ rounds[t] >= loop
  /\ thread_at' = [thread_at EXCEPT ![t] = "end"]
  /\ UNCHANGED <<arguments, total, count_mutex, rounds, read, loc, main_at>>

ThreadStep(t) == AtomicAdd(t) \/ Lock(t) \/ ReadTotal(t) \/ WriteTotal(t) \/ EndThread(t)
MainStep == \E t \in Threads : Create(t) \/ Join(t)
ThreadsNext == MainStep \/ \E t \in Threads : ThreadStep(t)

-----------------------------------------------------------------------------
(* Properties *)

\* main comes to its end, and what it prints there, when it has waited for all
\* threads, has all additions in it, even if the sum does not fit an int.
TotalIsExact ==
  (main_at # <<"create", 0>>) ~>
    (main_at[1] = "done" /\ total = Int32(NUM_THREADS * loop * inc))
=============================================================================
