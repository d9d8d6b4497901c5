\* The loop over the characters ends.
SPECIFICATION TokenSpec
CONSTANTS
  MAX_PIECES = 1
  MAX_QUOTED = 2
  Env <- MCEnv
INVARIANT QuotesAreClosed
CHECK_DEADLOCK FALSE
