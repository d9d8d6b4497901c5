---------------------------- MODULE BuddySimulator ----------------------------
(***************************************************************************)
(* The program that drives the allocator, project2/buddy/simulator.c: it   *)
(* executes the commands  v = alloc(size)  and  free(v)  of its input, one *)
(* after the other, and stops at the first that fails.  The input is any   *)
(* sequence of commands.                                                   *)
(***************************************************************************)
EXTENDS Buddy

CONSTANT Vars   \* the letters that name variables

ASSUME VarsAssumption == NULL \notin Vars

VARIABLES
  var_map,   \* the block each variable holds
  var,       \* the variable of the running command, NULL between commands
  status     \* the status of the last command

simVars == <<vars, var_map, var, status>>

Unused == [mem |-> NULL, in_use |-> FALSE]

SimInit ==
  /\ Init
  /\ var_map = [v \in Vars |-> Unused]
  /\ var = NULL
  /\ status = "SUCCESS"

\* parse_file reads the next line only after a command that succeeded.
NextLine == status = "SUCCESS" /\ var = NULL

\* A line that is no command, or names no variable.
BadLine ==
  /\ NextLine
  /\ status' = "BADINPUT"
  /\ UNCHANGED <<vars, var_map, var>>

\* parse_alloc when buddy_alloc returns NULL: mem is overwritten all the same.
AllocRefused(v, bytes) ==
  /\ NextLine
  /\ AllocFail(bytes)
  /\ var_map' = [var_map EXCEPT ![v].mem = NULL]
  /\ status' = "OUTOFMEMORY"
  /\ UNCHANGED var

\* parse_alloc calls buddy_alloc, whether or not the variable is in use.
AllocCall(v, bytes) ==
  /\ NextLine
  /\ AllocTake(bytes)
  /\ var' = v
  /\ UNCHANGED <<var_map, status>>

AllocDone ==
  /\ AllocReturn
  /\ var_map' = [var_map EXCEPT ![var] = [mem |-> page, in_use |-> TRUE]]
  /\ var' = NULL
  /\ UNCHANGED status

\* parse_free on a variable that is not in use.
DoubleFree(v) ==
  /\ NextLine
  /\ ~var_map[v].in_use
  /\ status' = "DOUBLEFREE"
  /\ UNCHANGED <<vars, var_map, var>>

FreeCall(v) ==
  /\ NextLine
  /\ var_map[v].in_use
  /\ FreeEnter(var_map[v].mem)
  /\ var' = v
  /\ UNCHANGED <<var_map, status>>

\* Mutant: the variable stays in use.
FreeDoneInUse ==
  /\ FreeInsert
  /\ var_map' = [var_map EXCEPT ![var].mem = NULL]
  /\ var' = NULL
  /\ UNCHANGED status

\* Mutant: the variable is not reset at all.
FreeDoneKeepsVariable ==
  /\ FreeInsert
  /\ var' = NULL
  /\ UNCHANGED <<var_map, status>>

FreeDone ==
  /\ FreeInsert
  /\ var_map' = [var_map EXCEPT ![var] = Unused]
  /\ var' = NULL
  /\ UNCHANGED status

\* A call that is inside one of its loops.
CallGoesOn == (AllocSplit \/ FreeMerge) /\ UNCHANGED <<var_map, var, status>>

SimNext ==
  \/ BadLine
  \/ \E v \in Vars, bytes \in Sizes : AllocRefused(v, bytes) \/ AllocCall(v, bytes)
  \/ \E v \in Vars : DoubleFree(v) \/ FreeCall(v)
  \/ AllocDone
  \/ FreeDone
  \/ CallGoesOn

\* The program computes on while a command is running; between commands it
\* may wait for its input.
SimSpec == /\ SimInit /\ [][SimNext]_simVars
           /\ WF_simVars(AllocDone \/ FreeDone \/ CallGoesOn)

-----------------------------------------------------------------------------
(* Properties *)

Held == {var_map[v].mem : v \in {w \in Vars : var_map[w].in_use}}

\* Between commands, a variable that is in use holds an allocated block, no
\* two variables hold the same one, and in_use says no more than that mem is
\* not NULL (the doc comment of var_t calls the field probably redundant).
\* It is not redundant once a command has failed.
VariablesOwnBlocks ==
  NextLine =>
    /\ Held \subseteq live
    /\ \A v, w \in Vars : v # w /\ var_map[v].in_use => var_map[v].mem # var_map[w].mem
    /\ \A v \in Vars : var_map[v].in_use <=> var_map[v].mem # NULL

\* Every command is carried out: the split and the coalescing loop end.
CommandsComplete == (var # NULL) ~> (var = NULL)

\* The simulator is a caller the allocator can rely on: whatever the input, it
\* never calls buddy_free with anything but an allocated block.
UsesAllocatorLegally == Spec
=============================================================================
