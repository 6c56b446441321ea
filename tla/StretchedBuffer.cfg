SPECIFICATION Spec
CONSTANTS
  a1 = a1
  a2 = a2
  a3 = a3
  i1 = i1
  i2 = i2
  i3 = i3
  Zero = Zero
  NULL = NULL
  Appenders <- MCAppenders
  Addresses <- MCAddresses
  MaxAppends = 4
INVARIANTS TypeOK ListIsInOrder MemoryIsExact ReturnsOldOrNewHead LinksItsPredecessor
PROPERTIES ImplementsFifo ReduceReturns
