----------------------------- MODULE MCSmallParts -----------------------------
(* The small programs and data structures, side by side: they share nothing,  *)
(* and a behaviour is one of the part that subject names, the others at rest. *)
EXTENDS SizeRequest, DequeOperations, MemoryPool, MCStringToken, LinkedQueue,
        AddressTranslation, FileCopy, CountingThreads, Signals, PipeSync, Finder

\* Items are compared by their first digit.
MCItemBefore == {p \in Items \X Items : p[1] \div 10 < p[2] \div 10}
MCFiles == UNION {[1..n -> 1..2] : n \in 0..5}

VARIABLE subject

Subjects == {"request", "deque", "pool", "token", "queue", "map", "copy",
             "threads", "signals", "pipe-sync", "finder"}

partVars ==
  <<requestVars, dequeVars, poolVars, tokenVars, queueVars, mapVars, copyVars,
    threadVars, signalVars, syncVars, finderVars, subject>>

\* What the parts work on is one value where they are at rest.
Init ==
  /\ subject \in Subjects
  /\ IF subject = "request" THEN TRUE ELSE number = 0 /\ factor = 1
  /\ IF subject = "token" THEN TRUE ELSE token = <<[kind |-> "quoted", text |-> <<>>]>>
  /\ IF subject = "copy" THEN TRUE ELSE in = <<>> /\ copier = "memmap"
  /\ RequestInit /\ DequeInit /\ PoolInit /\ TokenInit /\ QueueInit /\ MapInit /\ CopyInit
  /\ ThreadsInit /\ SignalsInit /\ SyncInit /\ FinderInit
  /\ subject # "threads" => ~locking /\ loop = 0 /\ inc = 1

Next ==
  /\ UNCHANGED subject
  /\ IF subject = "request"   THEN RequestNext ELSE UNCHANGED requestVars
  /\ IF subject = "deque"     THEN DequeNext   ELSE UNCHANGED dequeVars
  /\ IF subject = "pool"      THEN PoolNext    ELSE UNCHANGED poolVars
  /\ IF subject = "token"     THEN TokenNext   ELSE UNCHANGED tokenVars
  /\ IF subject = "queue"     THEN QueueNext   ELSE UNCHANGED queueVars
  /\ IF subject = "map"       THEN MapNext     ELSE UNCHANGED mapVars
  /\ IF subject = "copy"      THEN CopyNext    ELSE UNCHANGED copyVars
  /\ IF subject = "threads"   THEN ThreadsNext ELSE UNCHANGED threadVars
  /\ IF subject = "signals"   THEN SignalsNext ELSE UNCHANGED signalVars
  /\ IF subject = "pipe-sync" THEN SyncNext    ELSE UNCHANGED syncVars
  /\ IF subject = "finder"    THEN FinderNext  ELSE UNCHANGED finderVars

\* A loop that has begun goes on.  Threads and processes run, and an alarm goes
\* off in the end; the user does what he likes.
Spec ==
  /\ Init /\ [][Next]_partVars
  /\ WF_requestVars(subject = "request" /\ RequestNext)
  /\ WF_poolVars(subject = "pool" /\ PoolStep)
  /\ WF_threadVars(subject = "threads" /\ MainStep)
  /\ \A t \in Threads : WF_threadVars(subject = "threads" /\ ThreadStep(t))
  /\ WF_signalVars(subject = "signals" /\ HandlerStep)
  /\ WF_signalVars(subject = "signals" /\ catch_alarm)
  /\ WF_syncVars(subject = "pipe-sync" /\ SyncNext)
  /\ WF_finderVars(subject = "finder" /\ FinderStep)
  /\ \A p \in Pids : WF_finderVars(subject = "finder" /\ Works(p))
=============================================================================
