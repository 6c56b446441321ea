SPECIFICATION Spec
CONSTANTS
  n1 = n1
  n2 = n2
  s1 = s1
  l1 = l1
  l2 = l2
  NoProc = NoProc
  Notifiers <- MCNotifiers
  Stoppers <- MCStoppers
  Loops <- MCLoops
  Setups <- MCTwice
  MaxStarts = 2
CHECK_DEADLOCK FALSE
INVARIANT OneLoop
