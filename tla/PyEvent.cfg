SPECIFICATION Spec
CONSTANTS
  w1 = w1
  w2 = w2
  s1 = s1
  s2 = s2
  Waiters <- MCTwoWaiters
  Setters <- MCTwoSetters
  Calls <- MCBoth
  Timeouts <- MCNoneOrTwo
  Polls = TRUE
  MayInterrupt = TRUE
  MayRaise = TRUE
  MayClear = TRUE
  MaxClock = 2
INVARIANTS TypeOK AwareUndisturbed
PROPERTIES NeverEarly TimedCallEnds
