\* An answer given in time, and an alarm that goes off before alarm(0).
SPECIFICATION SignalsSpec
CONSTANT
  CTRL_C_THRESHOLD = 5
INVARIANT
  AnsweredInTimeGoesOn
CHECK_DEADLOCK FALSE
