SPECIFICATION Spec
CONSTANTS
  s1 = s1
  s2 = s2
  s3 = s3
  Subscribers <- MCThreeSubscribers
  MaxPushes = 4
SYMMETRY MCSymmetry
INVARIANTS TypeOK CountersExact InOrder HeadIsWanted PromiseKept
PROPERTY DeliversToAll
