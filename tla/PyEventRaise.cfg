SPECIFICATION Spec
CONSTANTS
  w1 = w1
  w2 = w2
  s1 = s1
  s2 = s2
  Waiters <- MCTwoWaiters
  Setters <- MCOneSetter
  Calls <- MCAware
  Timeouts <- MCNone
  Polls = FALSE
  MayInterrupt = FALSE
  MayRaise = TRUE
  MayClear = FALSE
  MaxClock = 2
INVARIANT AwareOfReady
