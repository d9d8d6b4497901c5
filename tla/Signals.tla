--------------------------------- MODULE Signals ---------------------------------
(***************************************************************************)
(* The signal handlers of lab2, signals.c.  Signals are delivered between  *)
(* any two steps; a handler masks all of them but SIGALRM.  A signal that  *)
(* is pending already is not counted twice.  The user types an answer, or  *)
(* ends the input, or does neither.                                        *)
(***************************************************************************)
EXTENDS Integers, FiniteSets

CONSTANT CTRL_C_THRESHOLD

ASSUME ThresholdAssumption == CTRL_C_THRESHOLD \in Nat \ {0}

VARIABLES ctrl_c_count,
          handler_at,  \* "pause" in main; "count", "prompt", "answered" and "decide" in
                       \* catch_int; "show" in catch_tstp; "exit"
          pending,     \* the signals that wait for delivery
          timer,       \* "off", or "set" by alarm(3)
          reply,       \* what answer[0] makes of the question, "none" if there is no answer
          ended_by     \* what the program ended by

signalVars == <<ctrl_c_count, handler_at, pending, timer, reply, ended_by>>

SignalsInit ==
  /\ ctrl_c_count = 0 /\ handler_at = "pause" /\ pending = {}
  /\ timer = "off" /\ reply = "none" /\ ended_by = "nothing"

\* The user presses Ctrl-C or Ctrl-Z.
Press(sig) ==
  /\ handler_at # "exit" /\ sig \notin pending
  /\ pending' = pending \cup {sig}
  /\ UNCHANGED <<ctrl_c_count, handler_at, timer, reply, ended_by>>

\* A handler begins.  SIGINT and SIGTSTP are delivered in main only.
Deliver(sig) ==
  /\ handler_at = "pause" /\ sig \in pending
  /\ pending' = pending \ {sig}
  /\ handler_at' = IF sig = "SIGINT" THEN "count" ELSE "show"
  /\ UNCHANGED <<ctrl_c_count, timer, reply, ended_by>>

catch_tstp ==
  /\ handler_at = "show" /\ handler_at' = "pause"
  /\ UNCHANGED <<ctrl_c_count, pending, timer, reply, ended_by>>

\* Mutant: the question is asked without a limit of time.
AskForEver ==
  /\ handler_at = "count"
  /\ ctrl_c_count' = ctrl_c_count + 1
  /\ IF ctrl_c_count' >= CTRL_C_THRESHOLD
     THEN handler_at' = "prompt" /\ reply' = "none" ELSE handler_at' = "pause" /\ UNCHANGED reply
  /\ UNCHANGED <<pending, timer, ended_by>>

\* catch_int up to fgets.
catch_int ==
  /\ handler_at = "count"
  /\ ctrl_c_count' = ctrl_c_count + 1
  /\ IF ctrl_c_count' >= CTRL_C_THRESHOLD
     THEN handler_at' = "prompt" /\ timer' = "set" /\ reply' = "none"
     ELSE handler_at' = "pause" /\ UNCHANGED <<timer, reply>>
  /\ UNCHANGED <<pending, ended_by>>

\* fgets returns.  At the end of the input answer is what it was: anything.
Answer ==
  /\ handler_at = "prompt" /\ handler_at' = "answered"
  /\ reply' \in {"yes", "no"}
  /\ UNCHANGED <<ctrl_c_count, pending, timer, ended_by>>

\* Mutant: the alarm is left running.
AlarmLeft ==
  /\ handler_at = "answered" /\ handler_at' = "decide"
  /\ UNCHANGED <<ctrl_c_count, pending, timer, reply, ended_by>>

\* alarm(0)
CancelAlarm ==
  /\ handler_at = "answered" /\ handler_at' = "decide"
  /\ timer' = "off"
  /\ UNCHANGED <<ctrl_c_count, pending, reply, ended_by>>

Decide ==
  /\ handler_at = "decide"
  /\ IF reply = "no" THEN ctrl_c_count' = 0 /\ handler_at' = "pause" /\ UNCHANGED ended_by
                     ELSE handler_at' = "exit" /\ ended_by' = "answer" /\ UNCHANGED ctrl_c_count
  /\ UNCHANGED <<pending, timer, reply>>

\* The time is up, and SIGALRM is delivered at once, in whatever runs:
\* catch_alarm.
catch_alarm ==
  /\ timer = "set" /\ handler_at # "exit"
  /\ handler_at' = "exit" /\ ended_by' = "alarm" /\ timer' = "off"
  /\ UNCHANGED <<ctrl_c_count, pending, reply>>

HandlerStep == catch_tstp \/ catch_int \/ CancelAlarm \/ Decide
SignalsNext == \/ HandlerStep \/ Answer \/ catch_alarm
               \/ \E sig \in {"SIGINT", "SIGTSTP"} : Press(sig) \/ Deliver(sig)

SignalsSpec == SignalsInit /\ [][SignalsNext]_signalVars

-----------------------------------------------------------------------------
(* Properties *)

\* The alarm ends the program only between alarm(3) and alarm(0),
\* whatever signals came meanwhile: an alarm that has been cancelled
\* does not strike while the answer is acted upon or in main.  It may strike
\* between the return of fgets and alarm(0).
AlarmOnlyUntilCancelled ==
  [][ended_by' = "alarm" /\ ended_by # "alarm" => handler_at \in {"prompt", "answered"}]_signalVars

\* "If the user RESPONDEDS before the alarm time elapses, the alarm should be
\* cancelled" (lab2/signals/signals.c:55): the alarm does not end a program
\* whose user has answered the question.  It does: alarm(0) is called only
\* after fgets has returned the answer, and SIGALRM is not blocked.
AnsweredInTimeGoesOn == ended_by = "alarm" => reply = "none"

\* The question is answered or the program exits, though the user may never
\* type anything.
QuestionEnds == (handler_at = "prompt") ~> (handler_at \in {"pause", "exit"})
=============================================================================
