SPECIFICATION Spec
CONSTANTS
  t1 = t1
  t2 = t2
  c1 = c1
  c2 = c2
  minusOne = minusOne
  zero = zero
  one = one
  ownOne = ownOne
  None = None
  Threads <- MCThreads
  Counters <- MCCounters
  Objects <- MCObjects
  Number <- MCNumber
  Finalizable <- MCFinalizable
  Zero = zero
  Increments <- MCIncrements
  MaxLost = 1
CHECK_DEADLOCK FALSE
SYMMETRY MCSymmetry
INVARIANTS TypeOK RefsExact NonNegative
