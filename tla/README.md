# EECS 678 operating systems: a verification development

TLA+ models of the programs of this repository, the TLC configurations that
check them and TLAPS proofs about them.  Paths are relative to the repository.

## 1. The system

The repository is a course's worth of operating-system programs.  Each program
is self-contained; none calls another.  What they share is the subject:
resource allocation, scheduling, processes, threads, signals and pipes.

| component | source | state it keeps | operations | what is hard |
|---|---|---|---|---|
| buddy allocator | `project2/buddy/buddy.c`, `list.h` | page descriptors `g_pages` (`order`, `free`), free lists `free_area` | `buddy_init`, `buddy_alloc`, `buddy_free`, `buddy_dump` | marks of merged pages go stale; lists and descriptors must agree after any series of calls; width of `int` |
| buddy simulator | `project2/buddy/simulator.c` | `var_map`, one entry per letter | one command per input line | the allocator trusts its caller; overwritten variables, failed and double frees |
| scheduler library | `lab7/eecs678-scheduler/src/libscheduler/libscheduler.c` | `core_job_ptrs`, `job_queue`, the `job_t` structures, the totals | `scheduler_start_up`, `_new_job`, `_job_finished`, `_quantum_expired` | remaining times computed lazily from call times; queue order over mutable fields; preemption on several cores |
| priority queue | `.../libpriqueue/libpriqueue.c` | linked list of nodes, comparer | offer, peek, poll, at, remove, remove_at, size | stability, unlinking during removal |
| scheduler simulator | `lab7/eecs678-scheduler/src/simulator.c` | job array, per-core quantum clocks, time | the main loop, steps 1 to 7 | array compacted while it is scanned; two records of who is on which core |
| quash shell | `project1/quash/src/execute.c`, `quash.c` | background job deque, pid deques, `pipes[2][2]`, `pipe_index`, `next_job_id` | `run_script`, `create_process`, `check_jobs_bg_status`, `run_kill`, `run_jobs`, `run_cd`, ... | children run concurrently and end at any time; pipe ends must be closed everywhere; failed `fork`/`pipe` |
| quash deque | `project1/quash/src/deque.h` | ring buffer `data`, `cap`, `front`, `back` | `new`, push, pop, peek, update, `empty`, `as_array`, `destroy` | growth and realignment of a buffer that wraps around |
| quash parser and memory pool | `project1/quash/src/parsing`, `command.c` | command holders, a deque of memory pools | parsing one line to `CommandHolder`s; `memory_pool_alloc` | pools grow while earlier pointers stay in use; `malloc` fails; lexer and interpreter must agree on quotes |
| dining philosophers | `lab6/pthreads_dp/*.c`, `lab10/procfs/dine.c` | one mutex per chopstick, `prog` counters or CPU times, `Stop` | thread loop, accounting loop of `main` | deadlock, the deadlock detector, shutdown with locks held |
| counting threads | `lab5/ptcount_mutex.c`, `ptcount_atomic.c` | shared `count` | increments | lost updates |
| signal handlers | `lab2/signals/signals.c` | `ctrl_c_count`, pending alarm | SIGINT, SIGTSTP, SIGALRM handlers | the answer races with the alarm |
| address translation | `lab8/VM_addr_map.c` | `page_table`, `mem_map` | one translation per input line | running out of frames |
| IPC exercises | `lab4/lab4_base` | pipes, a FIFO, shared memory | two processes | order of output across processes |
| finder pipeline | `lab3/3122729-ipc-lab/finder.c` | three pipes, four pids | fork, redirect, exec, wait | end-of-file needs every write end closed; failed forks and execs |
| file copy | `lab9/mmio` | none | one copy loop | last, partial block |
| process statistics | `lab10/procfs/procstat.c` | none | prints fields of a procfs file | input and output only |
| debugging exercises | `lab1/bugs.c`, `valgrind_test.c`; vendored `lab1/valgrind-3.22.0` | none | none | not this program's logic |

How the parts interact:

* the buddy simulator calls `buddy_alloc` and `buddy_free`, keeps the returned
  addresses in `var_map`, and is the only caller;
* the scheduler simulator tells the scheduler of every event (arrival, end of a
  job, end of a quantum) and obeys the core or job number it is answered with;
  both keep a record of which job is on which core, and nothing but the answers
  keeps the records equal; the scheduler keeps waiting jobs in the priority queue;
* quash and its children share pipes and the process table; a child is a copy of
  the shell up to `exec`;
* the parser puts the command holders of a line into deques, and deques,
  tokens and structures into the memory pool, which is itself a deque of pools;
  all of it is freed at the end of the line;
* philosophers share chopsticks, `Stop` and `prog` with `main`; the counting
  threads share the counter and its mutex;
* a signal handler shares the counter and the alarm with `main` and with the
  handlers that interrupt it.

What makes each component correct:

* **allocator**: allocated and free blocks always divide the memory; buddies
  that are both free are combined; a request gets the smallest sufficient block
  and is refused only if no block of that size is available; an allocated block
  is left alone until it is freed; every request is answered.
* **buddy simulator**: only allocated blocks are freed, no two variables own one
  block, every command completes.
* **scheduler and simulator**: both agree who runs where; no core idles while a
  job waits; the scheme decides who runs; times and totals are exact; every
  simulation ends.
* **priority queue**: stays sorted, equal elements in order of insertion.
* **quash**: every child is reaped once, signals go to the processes of the job
  only, every pipeline sees end-of-file, job numbers identify jobs.
* **deque**: a sequence to its callers, however it wraps around and grows.
* **memory pool**: what is handed out stays apart and is freed once, a request
  is answered or ends quash, and quash gives up only when nothing is left.
* **string tokens**: each piece the lexer matched keeps its meaning.
* **philosophers**: a chopstick has one user; the asymmetric version never
  deadlocks; every deadlock is detected and resolved; all threads end.
* **counting threads**: no increment is lost, and `main` gets past its joins.
* **signal handlers**: the question ends, by its answer or by the alarm, and the
  alarm strikes only until it is cancelled; whoever answers in time goes on (the
  code does not keep this, see `signals_late_alarm`).
* **address translation**: pages do not share frames while there are any, and a
  translation never changes.
* **pipes**: output comes in the intended order, and nobody waits for ever.

The hazards this code is exposed to, each at its line, with the properties that
would catch it, are listed in `PROJECT.json`.

## 2. Modules

| module | models | role |
|---|---|---|
| `FreeList` | `list.h` | list operations of the free lists, as operators on sequences |
| `Buddy` | `buddy.c` | the allocator: one action per call entry, loop iteration and return |
| `PageAllocator` | contract of `buddy.c` | abstract specification: a set of disjoint aligned blocks |
| `SizeRequest` | `simulator.c` size parsing, loop of step 1 of `buddy_alloc` | the same computation with the width of `int` |
| `BuddySimulator` | `buddy/simulator.c` | composes the command loop with `Buddy` |
| `PriQueue` | `libpriqueue.c` | the queue as an ordered sequence, for the scheduler |
| `LinkedQueue` | `libpriqueue.c` | nodes and links; the loops of offer and remove step by step |
| `AbstractPriQueue` | comments of `libpriqueue.c` | abstract specification of `LinkedQueue` |
| `Scheduler` | `libscheduler.c` | every function as an action, its return value as a parameter |
| `SchedulerSimulator` | lab7 `simulator.c` | composes the main loop with `Scheduler` |
| `DiningPhilosophers` | the three programs of `lab6/pthreads_dp`, `dine` of `lab10/procfs` | threads, mutexes, `main`; the programs differ in the order of the chopsticks and in the detector |
| `Processes` | the operating system, as quash and finder use it (external) | processes, pipe ends, `waitpid`, `kill`, and a few programs a user runs |
| `QuashParser` | `parsing/parse.y`, redirections and pipes | what a typed line becomes before it is run |
| `Quash` | `execute.c`, loop of `quash.c` | the shell, composed with `Processes` and `QuashParser` |
| `Deque` | `deque.h` | the generated functions, as operators on the structure |
| `DequeOperations` | `deque.h` | any sequence of calls; refines `AbstractDeque` |
| `AbstractDeque` | comments of `deque.h` | abstract specification: a sequence |
| `MemoryPool` | `parsing/memory_pool.c` | the pools, kept in a `Deque` |
| `StringToken` | `parsing/parsing_interface.c`, rule `string` of `parse.l` | the scan of a token, character by character |
| `CountingThreads` | `lab5/ptcount_mutex.c`, `ptcount_atomic.c` | threads, mutex, `main` |
| `Signals` | `lab2/signals/signals.c` | handlers, pending signals, alarm |
| `PipeSync` | `lab4/lab4_base/pipe-sync.c` | two processes and two pipes |
| `Finder` | `lab3/3122729-ipc-lab/finder.c` | the parent and its stages, composed with `Processes` |
| `AddressTranslation` | `lab8/VM_addr_map.c` | page table and frame map |
| `FileCopy` | `lab9/mmio/read_write.c`, `memmap.c` | the two copies |
| `BuddyProofs` | | theorems about `Buddy` and `BuddySimulator` |
| `SchedulerProofs` | | theorems about `SchedulerSimulator` and `Scheduler` |
| `LinkedQueueProofs` | | theorem about `LinkedQueue`: it is the `AbstractPriQueue` |
| `QuashProofs` | | theorems about `Quash` and `Processes` |
| `PhilosophersProofs` | | theorems about `DiningPhilosophers` |
| `DequeProofs` | | theorems about `DequeOperations` |
| `ParserProofs` | | theorems about `MemoryPool` and `StringToken` |
| `ExercisesProofs` | | theorems about `AddressTranslation`, `Signals`, `FileCopy` and `CountingThreads` |
| `MCSmallParts` | | the small parts side by side, see the runs |
| `MC*` | | values of the constants for TLC |

### Buddy

A page is its index in `g_pages`; `PAGE_TO_ADDR` and `ADDR_TO_PAGE` are a
bijection, and the exclusive-or of `BUDDY_ADDR` with the size of the block adds
or subtracts the size, by the parity of the block's number.  `pgOrder`, `pgFree`
and `free_area` are the fields and lists of the code.  `page`, `order` and
`found_order` are the locals of the running call and are reset when it returns;
`pc` is the loop it is in.  `live` is what callers hold: it grows when
`buddy_alloc` returns a page, shrinks when `buddy_free` is entered, and is what
restricts `FreeStart` to legal callers.  `AllocFail`, `AllocTake`,
`AllocSplit` (one iteration), `AllocReturn`; `FreeEnter`, `FreeMerge` (one
iteration), `FreeInsert` follow the code top to bottom.  Memory contents and
list node addresses are left out.

`SizeRequest` isolates the arithmetic: `1 << order`, `size *= 1024` and the
comparison, modulo `2^INT_BITS`, two's complement, as the compilers in use
compute it.  A shift by the width or more takes the count modulo the width.

### BuddySimulator

`var_map[v]` has the fields of `var_t`.  Each line of the input is a command;
parsing is abstracted to the command the line denotes or to `BadLine`.  `line`
says which command is being executed, and the calls of the allocator are the
actions of `Buddy`.

### Scheduler and SchedulerSimulator

`job` is the heap of `job_t` structures by job number, `core_job_ptrs` and
`job_queue` are the variables of the code; the queue holds job numbers, and
its comparer is applied to the structures as they are at the time of the call,
which is how the code's pointers behave.  The simulator's job array is `jobs`,
compacted on deletion as in the code; each loop over it handles the matching
entries in the order of the index.  `waited` and `firstRun` are history
variables that record what really happened, for the properties to compare the
scheduler's statistics with.

### DiningPhilosophers

An action of a philosopher is what its thread does between two accesses to
shared memory: the test of `Stop`, each lock, each unlock, the increment of
`prog`, of which only "not 0" is kept.  `chopstick[c]` is the owner of a mutex;
`main` unlocks mutexes it does not own, as the code does, and an unlocked mutex
stays unlocked.  Each iteration of a loop of `main` over the philosophers is an
action, so reset, check, unlocking and join interleave with the threads.
Thinking, eating and the accounting period take any time.

`program` selects the program.  `LeftFirst` is the difference of `dp_asymmetric`.
`dp_waiter` reads `available_chopsticks[NUM_CHOPS]`, which is outside the array,
once per meal, and goes on without locking if it does not find the value 2:
`GrabNone` is the extra behaviour.  The model of `dp_waiter` therefore has every
behaviour of `dining_philosophers` and more.

In `dine`, `prog` says whether a thread's CPU times differ from the stored ones.
`Tick` charges a thread that runs; a thread that waits for a mutex is never
charged.  `CheckProgress` reads and stores the times, and `EndCheck` goes to the
next period, of which there are any number, or to the unlocking.

### Processes and Quash

A child has what its standard input and output refer to and a set of other pipe
ends (`others`); the shell has `others` only.  Numbers of processes and pipes
are the smallest free ones, so that they are used again as early as possible.
A pipe holds one unit of data, which makes writers block and get SIGPIPE; the
programs are `echo`, `yes`, `cat`, `head`, `sleep` and a command that does
nothing in a child (`kill`, `exit` within a pipeline).

`Quash` follows `run_script`: a pass over the job list that pops and checks one
pid at a time (`PopJob`, `CheckPid`, `PushJob`), then per command `pipe` and
`fork` (`CreateProcess`), the closing of ends (`CloseEnds`) and
`parent_run_command` with the push of the pid (`RunCommand`), at last `PushNewJob`
or a `waitpid` per process (`Wait`).  The memory a child is a copy of is `pipes[p]`
and `pipe_index[p]`; its part of `create_process` is `SetUp` or `OpenFails`.
`fork` fails when the process table is full: -1 is stored and used by `waitpid`
and `kill` as the code has it, and after that no further line is read.  A
failure of `pipe` is not modelled, for it goes on with descriptor numbers that
the model does not have.

`owner` and `fork_failed` are history variables.

Lines are typed as commands with redirection marks; `QuashParser` makes the
command holders of them as the grammar does, from the right: at a pipe the left
command loses its output redirection and the right one its input redirection.
A command therefore never has both a pipe and a redirection at one end, which
`NoLeakedEnds` and `PipelineConnected` depend on.

### Deque, DequeOperations and AbstractDeque

`Deque` has a function per function of `deque.h`, from structure to structure.
`data` is a function on the indices of the buffer, with `Garbage` where nothing
was written; one slot always stays free, and `on_push` doubles the buffer by
copying.  A structure whose `data` is NULL is one with capacity 0.
`DequeOperations` calls the functions in any order, `answer` is what the last
call returned, and `aborted` the end of the program in an assertion or in a pop
from an empty deque.  It is mapped to `AbstractDeque` by `Contents`, what
`apply` would visit.  Memory for the buffers is there when it is asked for.

### MemoryPool

The deque of pools is a `Deque` whose elements are records (`Pools`), so that
its growth and `update_back` are the code's.  `heap` is what `malloc` has given
out, `given` what `memory_pool_alloc` has returned since the pools were made.
An iteration of the loop that adds pools (`Grow`) and of the loop for low memory
(`LowMemory`) is an action; `malloc` may fail at each.  `pool` is the local copy
of the last pool.

### StringToken

A character is one of eight classes that the code tells apart.  `token` is what
the lexer matched: plain pieces, escapes and quoted sections; the actions are
the cases of the `switch` in `interpret_complex_string_token`, on its characters.
`Meaning` is the reference: it goes by the pieces, not by the characters.

### LinkedQueue and AbstractPriQueue

`nodes` are the allocated nodes, `top`, `prev` and `target` the pointers;
`LinkNode`, `PassNode` and `RemoveNode` are the iterations of the loops of offer
and remove.  The other functions are single steps.  `destroy` leaves `top`
dangling, as the code does, and nothing follows it.

### AddressTranslation, FileCopy

A translation is a step; the search of the frame map is the least free index
or `num_frames`, in which case the code writes behind the map: `overrun`.
`FileCopy` has the loop of `read_write`, which writes its whole buffer every
time, and the stretch and the `memcpy` of `memmap`.

### CountingThreads, Signals, PipeSync, Finder

Under the mutex an addition is a read and a write (`ReadTotal`, `WriteTotal`);
`AtomicAdd` is one step.  `main` creates the threads while the first ones run.

`Signals`: SIGINT and SIGTSTP are blocked in the handlers and stay pending;
SIGALRM is not.  `prompt` is the `fgets`; `answered` is between it and
`alarm(0)`, where the alarm may still strike (`AnsweredInTimeGoesOn`).  At the end of the input the answer is anything.

`PipeSync`: each side's places in its program, the message in each pipe and who
has which end open.  `printed` is the order of the lines on a terminal, where
each is written when it is printed.

`Finder` uses the process table of `Processes` from the moment the pipes exist.
Forks and execs may fail at each stage; -1 is then given to `waitpid`, which
takes any child.  `find`, `xargs grep`, `sort` and `head` are external.

## 3. Runs

| run | question | instance |
|---|---|---|
| `buddy` | tiling, lists, coalescing, refinement of `PageAllocator` | 8 pages of 2 bytes; six sizes: illegal, too large, and the boundaries of the orders |
| `buddy_simulator` | legality of every call, ownership, completion | 4 pages, 3 variables |
| `size_loop` | a disagreement with a comment | every 8-bit `int`, orders 3 to 5, unit 4 |
| `scheduler` | exact times and statistics, sorted queue, agreement without error exits, work conservation, priority, termination | six schemes, 2 priorities, run times up to 3; every file of 3 jobs with distinct arrival times up to 3 on one core, 4 jobs in the order of arrival up to 4 on two |
| `scheduler_rr_turns` | a disagreement with an expected output | RR with two jobs |
| `philosophers` | chopsticks, deadlock, its report and its resolution, shutdown | 3 philosophers, 2 periods, `dp_asymmetric` and `dp_waiter`; `dine` with any number of periods |
| `philosophers_stuck` | a disagreement with a comment | 3 philosophers, 1 period, `dining_philosophers` |
| `quash` | children, jobs, kill, pipes, the return of the prompt | 3 processes, 8 pipes, 2 background jobs; seven lines |
| `quash_end_of_input` | a disagreement with a comment | the same lines, no background job |
| `quash_strings` | a disagreement with an assertion | every token of one piece |
| `signals_late_alarm` | a disagreement with a comment | the code's threshold of 5 |
| `small_parts` | order loop, deque, memory pool, string tokens, queue nodes, address translation, file copies, counting threads, signal handlers, `pipe-sync`, `finder` | below |

`MCSmallParts` puts parts that share nothing side by side:
`subject` says which of them a behaviour runs, and the others rest in one initial
state, so that the states add up and do not multiply.  A property of a part at
rest holds at once.  The bounds of `small_parts`: an `int` of 8 bits; deques of up
to 3 elements from capacities 0 and 3, so that the buffer is made by the first
push, grows while it wraps around, and comes back to one element; 3 allocations of
1, 2 and 9 bytes from a first pool of 1, 2 or 3 bytes in a deque that holds 2,
so that placeholders are added and the deque of pools grows; tokens of 2 pieces,
quoted sections of up to 2 elements, so that a backslash is followed by another element,
with a variable whose value has every character that means something; queues of
3 nodes, two of the three items equal to the comparer; 4 pages for 3 frames;
files of up to 5 bytes and buffers of 0 to 7; 3 threads, up to 2
rounds, a counter modulo 8; the code's threshold of 5 (`CTRL_C_THRESHOLD`);
4 children, which is all `finder` has, and 2 files found, one more than a pipe
holds.

Eight pages give three levels of splitting: a split and a merge below the top,
in the middle and at the leaves, with buddies of unequal order next to one
another.  The simulator needs one variable more than a pair of buddies.  An
8-bit `int` has the wrap-arounds of the 32-bit one, at the same places relative
to the width.  Three jobs on one core are the least with a running, a waiting
and an arriving job; four on two cores add a second waiting job.

`scheduler_*` take distinct arrival times, as `libscheduler.c` says callers may
assume, and positive run times.  What `StatisticsAreExact` says of `start_time` is
claimed of the schemes other than PSJF and PPRI: under these a job that is placed and preempted in one
time unit keeps a `start_time` at which it did not run.

Three philosophers are the least table with a cycle of waiting that is not a
pair of neighbours, and an odd one, where two even philosophers sit side by
side; two periods let `main` find progress once and reset the counters again.
`dining_philosophers` needs no passing run of its own: its behaviours are among
those of `dp_waiter`, and its exclusion is proved.

The lines of `quash` have pipelines of one to three processes in the foreground
and in the background: `yes | cat | head`, `kill %1`, `exit`, `cat < f > f`,
`echo > f | head < f`, `sleep &`, `yes | head &`.  With three processes in the
table a background job and a pipeline already exceed it, so `fork` fails in the
first, the second and the third command of a line; pids and pipes are reused
within two lines.  Eight pipes are more than can ever be open (`LimitsAssumption`):
a process keeps at most two, its standard input and output, the shell the one
for the next command, and one more is being made.
Two job numbers are enough for a kill with another job beside the one it names.
Properties of the jobs are claimed as long as no `fork` has failed;
`NoLeakedEnds` is claimed always.

### Fairness

`BuddySimulator` has weak fairness on the steps of a call that has begun: the
program computes on; it has none on reading another line, because the input may
be a terminal.  `SchedulerSimulator` has weak fairness on its next-state
relation: it reads its input before the loop and never waits.  The order loop
has weak fairness, and so have the loops of `memory_pool_alloc` once a call has
begun; `malloc` may fail every time.  `DiningPhilosophers` has weak fairness on
each thread and on `main`, since the system runs every thread that can run; it
assumes no order in which a mutex admits those who wait, so a philosopher may
starve at a mutex.  `Tick` is not fair: when a thread is charged for the time it
uses is up to the operating system.  `Quash` has weak fairness on the shell's steps after a line
has been read and on each child's steps; none on the user's typing and none on
the end of `sleep`.  In `small_parts` each thread, each side of `pipe-sync`, `finder`
and each of its children runs when it can; a signal handler goes on, and an
alarm that is set goes off, but nobody need press a key or answer.  Nothing else is assumed.

### Disagreements found

* `size_loop`: a size above `2^30` keeps the loop of `buddy_alloc` from ending;
  the "request too large" return is not reached.
* `scheduler_rr_turns`: an expired job goes back in front of the jobs that have
  waited, so it keeps the core.
* `philosophers_stuck`: philosophers that tested `Stop` before it was set can
  deadlock again behind the one pass that unlocks the chopsticks, and `main`
  waits for them for ever.
* `quash_end_of_input`: the inner loop of `main` does not test `is_running`; at
  the end of the input it calls the parser for ever.
* `quash_strings`: a quoted section that ends in an escaped backslash (`'\\'`) is
  a token to the lexer; the interpreter takes the backslash and the closing quote
  for an escaped quote, and its `assert(!in_quotes)` ends the shell.
* `signals_late_alarm`: the alarm is cancelled only after `fgets` has returned, and
  SIGALRM is not blocked, so it can end the program although the user has
  answered in time.

Met while modelling, without a run of their own: the multiplication of a size by
1024 can wrap to a small positive size (`project2/buddy/simulator.c`); the
`start_time` of PSJF and PPRI above; the read outside the array in
`dp_waiter.c:155`; -1 from `fork` used as a pid (`execute.c:410`, `:496`); job
numbers that are counted on although `project1/quash/README.md` has them
one more than the greatest in use; `read_write.c` pads its copy to a multiple of
the buffer size (`CopyIsFile` states what it writes) and `memmap.c` refuses an
empty file; the frame past the end in `VM_addr_map.c:88`.

## 4. Proofs

`BuddyProofs` proves, for every `MIN_ORDER <= MAX_ORDER` and every set of sizes:
`TypeCorrect`, `DescriptorsCorrect`, `BlocksPartitionMemory`, `AlwaysCoalesced`,
the action property `LiveBlocksStayUntouched`, and `KeepsPromise`, the refinement
of `PageAllocator`.

Assumptions: `OrdersAssumption`, `SizesAssumption` and `NullAssumption` give the
constants their types; `PowerOfTwoAssumption` states the laws of exponents the
arithmetic needs, for exponents up to `MAX_ORDER` (the provers know no
exponentiation); TLC evaluates all of them on every run.

The inductive invariant `IInv` is `TypeOK /\ ListsMatchDescriptors /\
BlocksTileMemory /\ Coalesced`.  No part is inductive alone.  That a buddy's
index is in `g_pages` needs the block's alignment, which is in the tiling.  That
the tiling survives a merge needs the buddy to be the first page of a block
of the same order; its marks alone do not say so, because marks of merged pages
are stale.  The lemma `BuddyIsHead` shows it: the tiling covers the buddy's page,
and a block that covers it without starting there would be larger and would
cover the freed block too, unless the page is stale inside a block of a lower
address, which alignment excludes for an order equal to that of the freed block.
That the lists match the descriptors then follows for each list operation.

`KeepsPromise` maps the code's loops to one step of the specification each: the
step in which `buddy_alloc` fails or returns, and the one in which `buddy_free`
is entered.  The other steps stutter.  `RequestKept` is what the loops must keep
for it, the order that was asked for.  The hard step is a failure: the
specification allows NULL only when no aligned run of pages of that order is
outside the allocated blocks, while the code only looks at its lists.  `NoRoom`
closes the gap.  If a run were unallocated and every list from its order up
empty, free blocks of smaller order would divide it; the smallest of these has
a buddy in the run, which is free and no smaller, hence a free block of the same
order, against `Coalesced`.

The module begins with the arithmetic (uniqueness of multiples, what `BUDDY_ADDR`
does to aligned pages, what a split and a merge do to a tiling) and what the
list operations do to a list's entries.

It ends with the simulator, for every set of variables: `CallsAreLegal` (the
program implements the specification of the allocator, whose `FreeStart` frees
allocated blocks only) and `VariablesAlwaysOwn`.  Assumption besides those of
`Buddy`: `VarsAssumption`.  The invariant `SimInv` says what holds while a command
runs: the variables other than the command's own distinct live blocks
(`OthersOwn`), and the allocator is at rest between commands.  All of it is
claimed as long as no command has failed: a refused allocation clears `mem` and
leaves `in_use`, and the program ends.

`SchedulerProofs` proves, for every scheme, every number of jobs and cores, every
quantum and every workload: `PicturesAgree`, `RemainingTimeRight`, `QueueIsSorted`,
`NoCoreIdles`, `BestRun` and `StatisticsRight`.  Assumptions: `NullAssumption`, `SelectedAssumption`,
`QuantumAssumption`, and `WorkloadsAssumption` with the types of the workloads and
positive run times.  Arrival times need not be distinct for these properties.

The invariant has a part for each side.  `SchedInv` says of the scheduler that
every allocated job is on exactly one core or at one place of the queue
(`PlacedOnce`), that no core is idle while a job waits, that the queue is sorted
and, under the preemptive schemes, that no waiting job comes before a running
one.  The properties say the last two of the moments at which a time unit runs;
the invariant must have them at every moment, between the several calls of
one time unit too, and of the structures as the next call will see them (`Now`:
the remaining times less the time run since the last call), for the structures
themselves are out of date.  `SimInv` links the simulator's array to the
scheduler: a `core_id` says the same as `core_job_ptrs`, an entry that has arrived
has a structure with the same remaining time, and what has no time left is on a
core.  That phase `expire` is reached under RR only is part of it.  A lemma per
function of the scheduler (`FinishedKeeps`, `ExpiredKeeps`, `NewJobKeeps`) and a
lemma per change of the array (`DeletedPicture`, `ReleasedPicture`,
`ArrivedPicture`) meet in a lemma per loop of the simulator.

The statistics need a second invariant, `StatInv`.  While a job is there, the
units it waited and the units it has run, as the scheduler will count them at the
present time, add up to the time since its arrival (`WaitRight`); when it
finishes nothing is left to run, and what `scheduler_job_finished` adds to the
total is what it waited.  That the total is the sum over the finished jobs needs
no sum over a set: some function has the sums over the first jobs of the file
(`SumsWaited`), and when a job finishes its sums grow from that job's place on
(`TotalGrows`).  For the `start_time`, `StartRight` has the state between a call that places a
job and the unit it then runs; without preemption nothing takes the core away in
between, under RR because a quantum that expires has been used (`FirstQuantum`).
A lemma per function says what a call leaves of the structures of
the other jobs (`FinishedRecords`, `ExpiredRecords`, `NewJobRecords`).

`LinkedQueueProofs` proves `ListIsOrderedQueue`, the refinement of
`AbstractPriQueue`, for every set of items, every comparer and every number of
nodes.  Assumption: `QueueAssumption`, the types of the constants.  `IsList` says
that a sequence of nodes is the list that the pointers make; it is unique
(`ChainIsTheList`), so that the refinement mapping, which reads the list off the
pointers, can be reasoned about by the sequence.  The invariant
`QueueInv` has that sequence and, in a loop, how far it has come (`PassedBy`: the new
item comes before none of the items passed, and the items passed do not equal the
one to be removed).  `ListGrows` and `ListShrinks` say what the link and the
unlink of a node make of the list.  An iteration of the loop of remove changes nothing
of the abstract queue: the items are mapped to those that will be left
(`Others`), and unlinking an occurrence leaves these the same
(`OthersOfShorter`, about a recursive definition, by the least prefix for which it
would fail).

`ParserProofs` proves `StringsStayWhole` (no part of a block that was handed
out overlaps another, and every block is freed once) and `AllocNeverAborts` (no
pop or peek of an empty deque, no assertion) for every size of the pools, every sequence of requests and
every choice of `malloc`.  Assumption: `PoolAssumption`.  `Store` ties the deque of
pools, the blocks and what was handed out: a block has one pool, which knows
where the last part ends.  A part that is handed out is cut from the pool at the
back, and a block that is new has no parts (`FreshBlock`, by counting).  The
placeholders that a failed `malloc` leaves have no block and size 0, so that nothing
is cut from them.  `IsRow` is the shape of the deque: pools are pushed at the back
and popped from there, hence it never wraps around.  The sizes double, and that `2^n` is
a number is itself proved, as the number of subsets of a set (`PowerIsNatural`).

It further proves `TokensKeepTheirMeaning`, which is `TokenInterpreted` for tokens of
every number of pieces, quoted sections of every length and every environment
(`TokenAssumption`: the values of variables are strings).  The two sides do not go at the same
pace: the scan goes by the characters that were typed, the meaning by those that
are meant.  `TokenInv` holds them together.  `Place` says of the scan's index and of
an index in the meaning that they are between the same two pieces, or at the same place
inside a piece (`Passed`), and `in_quotes` whether that is a quoted section;
`Completes`, that what is built, followed by the expansion of the rest,
is the expansion of the whole.  `UnquotedStep`, `EscapeStep`, `EscapedStep` and
`QuotedStep` say what is read at a place and which place follows; where two
characters are taken for an escaped quote is decided by the character behind the
backslash, so that the element that follows in the section counts too
(`ElementMiddle`), and a section that ends with an escaped backslash is
where the invariant fails.  `NameIsFound` shows that the scan's longest name is
the meaning's: a piece that ends it in the one ends it in the other, as the first
character of an escape or a section means nothing that can be in a name.
The expansion is a recursive function of the place, flattening one of the length;
`ExpansionExists` and `FlattenSeqUnfolds` show that such functions exist.

`QuashProofs` proves, for every set of typed lines, every size of
the process table and every bound on job numbers: `NoEndLeaks`, `ChildrenAccounted`,
the action property `KillReaches`, and `PipelinesConnected`.  Assumptions:
`LimitsAssumption` (enough pipes), `LinesAssumption` and `JobIdsAssumption`.

`EndsInv` says which ends each process has at every moment: a child that has been
forked and not yet set up has what the shell had at the fork (`Inherited`), one
that runs has nothing besides its standard streams, and the shell has what it
needs for the next command (`Pending`), known from its place in the loop.  That
needs `pipe` to give a new pipe: `PipeIsFree` shows by counting that one is free.
For the children `AccountInv` adds, as long as no fork has failed, `Account` (the
pid lists in the shell's hands and in its jobs are distinct, disjoint and make up
exactly the children) and `Owners` (a job's pids were forked for it, and
its number has been given out).  Pids are used again, so that neither is
inductive alone: only because a pid leaves the lists in the step that reaps it can
the next `fork` not return a pid that is still listed.  For the pipes
`PipelineInv` adds that an end is the standard stream of at most one process
(`OneAtEachEnd`), where a child not yet set up counts by what it will use
(`StdIn`, `StdOut`), that neighbours are joined, the last one so far to the
pipe of the next command (`Chain`), and that no process of a pipeline is reaped
while it is being made (`NoneReaped`).

Two attempts failed for a good reason and changed the model.  The bound on pipes was
`MAX_PIDS + 2`, enough for the instance that is run and wrong for larger ones: a
process in the middle of a pipeline keeps two pipes after both neighbours have
ended, so that it takes two per process.  And `KillReachesTheJob` was not true of
the job number 0, which no job has: it is the mark of processes in the foreground
in the model, and the property now speaks of the numbers that jobs have.  The invariants were checked by TLC on the instance of `quash`.

`PhilosophersProofs` proves, for every number of philosophers and of periods:
`TypeCorrect`, `ChopsticksAlwaysExclusive`, `NeighboursAlwaysTakeTurns` and
`AsymmetricNeverDeadlocks`.  Assumptions: `NumPhilsAssumption` (at least two, so
that a philosopher has two chopsticks), `IterationAssumption`,
`SelectedAssumption` and `NobodyAssumption`, the types of the constants.  The
inductive invariant is `TypeOK /\ ChopsticksExclusive`: the owner of a mutex is
known from the places of the philosophers alone, until `main` unlocks what
others hold; `Dining` delimits that time, and `MainLeavesDiners` shows that
`main` touches no chopstick in it and never returns to it.  That the asymmetric
order is free of deadlock follows from the invariant without a further one.
`FirstIsEven`: every philosopher takes a chopstick with an even number first
(with an odd number of philosophers the last one, too).  `OwnerWaits`: when all
wait, the owner of a chopstick that is waited for holds just that one, so only
even chopsticks have owners.  Then nobody waits for an odd one, which leaves no
way for the philosophers 0 and 1 and the last one to be blocked
(`AsymmetricNotBlocked`).

`DequeProofs` proves, for every set of elements, every set of initial capacities
and every bound on the length, `DequeTypeCorrect` and `DequeIsSequence`, the
refinement of `AbstractDeque`.  Assumptions: `GarbageAssumption`,
`InitCapsAssumption`, `MaxLengthAssumption`, the types of the constants.  The
invariant is `DequeInv`, the shape of the structure and the range of its
contents; the argument is arithmetic modulo the capacity.
`Wrap` and `WrapAround` say where a sum of an index and an offset lies, `Places`
to `Neighbours` what one step to either side does to the indices, and `SlotAt` that
different offsets within the length are different slots.  From these follow, a
lemma per operation, the length and the elements of what it leaves (`OnPush`,
`PushFront`, `PopBack`, `Updates`, `Array`, ...): growth changes the buffer and
not the contents.  `PushStep` to `OtherSteps` then match each call with the action of
the sequence, and `Step` and `Start` put the refinement together.

`ExercisesProofs` proves `FramesStayApart`, `OverrunOnlyWhenFull` and
`TranslationIsForEver` for every number of pages and frames.  The properties are
not inductive: a fault takes the first frame whose mark is 0, so that the marks
must agree with the page table (`MapsAgree`); `OneFrameOnePage` is the exclusion
for the frames that exist, and `OverrunIsFull` ties the frame that does not exist
to the write behind the map and that to a full map.  `MapInv` is their
conjunction with the types.  Assumption: `MemoryAssumption`.

It further proves `CancelledAlarmNeverStrikes` for every threshold (`ThresholdAssumption`):
the alarm strikes only between `alarm(3)` and `alarm(0)`.  `AlarmInv` says that it is set
at exactly these places, the return of `fgets` among them; that the alarm spares a
user who has answered is not a theorem, since `signals_late_alarm` refutes it.
`CopyIsThePaddedFile`, for files of every length and buffers of every size
(`CopyAssumption`): `PaddedByte` says what each byte of the copy is in terms of the
file, and `BufferInv` that the buffer still has the last block written, for
the bytes behind the end of the file are those of the block before; the copy is a number
of whole buffers, of which the last one begins within the file.
`NoAdditionIsLost`, for every number of threads and rounds
(`ThreadsAssumption`): when `main` prints, the counter is the product that
it should be, modulo the width of an `int`.  `OneAdds` is the exclusion,
`JoinedAreDone` the progress of `main`, and `AddsUp` that the counter is the
sum of the rounds of the threads, again by the sums over the first threads.

`TypeCorrect` of the philosophers, `DequeTypeCorrect`, `NeighboursAlwaysTakeTurns`,
`AllocNeverAborts`, `NoAdditionIsLost` and `TranslationIsForEver` are proved and need no run:
the types are part of the invariants of their proofs, `NoAdditionIsLost` is the
safety half of `TotalIsExact`, which a run checks, and the last one is an
action property of two assignments.

Attempts at these proofs corrected the models, too.  The value that `CopyIsFile` gives
the bytes behind the file was a CASE with overlapping arms, of which TLC takes
the first and the semantics any.  `QueueAssumption` did not say that the number of
nodes is a number.  `Others` and `UnitsWaited` were written with operators that
take an operator, of which nothing can be proved; they are recursive
functions now.  The expansion of a token was one definition with everything inside it;
its parts have names (`IsVariable`, `NameEnd`, `Adds`, `After`), to be reasoned about
one at a time, and the length of a quoted section is a constant, `MAX_QUOTED`.

Induction over data is out of the proof system's reach, as its induction theorems
take an operator as a parameter.  Where a sum or a recursive function is needed
the proofs go by the least number for which a claim would fail; that a set of
numbers has a least element (`LeastNatural`) follows from the strict subsets of a
finite set being well-founded, which the library states without such a parameter.

Only model-checked is liveness (the order and the end of `pipe-sync`, the ends of `finder`, of the
simulations and of the calls, the answers to sizes, and the promise that the
prompt returns).  Every safety property that a passing run checks is stated by a theorem.
Liveness and `ENABLED` are out of the proof system's reach.

## 5. Plan

1. (done) allocator and its simulator; scheduler, its queue and its simulator;
   safety of the allocator proved.
2. (done) dining philosophers: three programs, the accounting loop of `main`,
   shutdown; exclusion and freedom from deadlock proved.
3. (done) quash: processes and pipes, jobs, kill, end of input.
4. (done) `deque.h` as a ring buffer that grows, refined to a sequence, with the
   refinement proved; the memory pool; string tokens and the grammar of pipes and
   redirections.
5. (done) priority queue at node level, refined to the sequence, with the
   refinement proved; address translation, the alarm of the signal handlers, the
   sum of the counting threads and the file copies, proved; the philosophers of
   `procfs`; `pipe-sync`, `finder`.
6. (done) the refinement of `PageAllocator`; legality of the buddy simulator;
   agreement of simulator and scheduler, sortedness, work conservation, priority,
   statistics; the memory pool; leaks, children, kill and pipelines of quash: proved.
7. (done) the meaning of string tokens: proved.
8. The FIFO pair of `lab4`; a failing `pipe` in quash, with descriptor numbers.

## 6. Not modelled

Printing and layout (`buddy_dump`, `scheduler_show_queue`, timing diagrams);
command-line handling; generated parser and scanner sources
(`parse.tab.c`, `lex.yy.c`); vendored programs (`lab1/valgrind-3.22.0`);
copies of a program submitted twice (`project1/quash/3122729-project1-quash`,
`project2/buddy/Pino-Martinez-project3-buddy`, `lab4/lab4_fifo`); binaries and
archives.  Most of the lines of the repository are these: the vendored sources
of valgrind and of its tests alone are far more than all programs of the course
together, and nothing of the course's own logic is in them.

`run_cd`, `run_export` and the printing commands of quash change the working
directory and the environment only.  The other rules of its grammar copy tokens
into structures.  The FIFO pair copies lines from a terminal to another; its
array is written one past its end when a read fills it (`fifo_consumer.c:41`).  `shared_memory3.c`
and `thread-1.c` have nothing to interleave, `procstat.c` prints fields of a file,
and the programs of `lab1` exist to show a debugger their errors.
