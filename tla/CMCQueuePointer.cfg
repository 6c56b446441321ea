SPECIFICATION Spec
CONSTANTS
  pub1 = pub1
  tok1 = tok1
  tok2 = tok2
  NoProc = NoProc
  Publishers <- MCOnePublisher
  Tokens <- MCTwoTokens
  Setups <- MCPointer
  MaxPushes = 2
  SizeMod = 16
CHECK_DEADLOCK FALSE
INVARIANT TokenPointsIntoQueue
