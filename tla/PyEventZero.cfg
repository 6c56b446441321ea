SPECIFICATION Spec
CONSTANTS
  w1 = w1
  w2 = w2
  s1 = s1
  s2 = s2
  Waiters <- MCTwoWaiters
  Setters <- MCOneSetter
  Calls <- MCWait
  Timeouts <- MCZero
  Polls = TRUE
  MayInterrupt = FALSE
  MayRaise = FALSE
  MayClear = FALSE
  MaxClock = 2
PROPERTY EveryTimedCallEnds
