SPECIFICATION Spec
CONSTANTS
  t1 = t1
  t2 = t2
  t3 = t3
  NoThread = NoThread
  Threads <- MCThreads
  WaitTimeouts <- MCWaitTimeouts
  MaxTimeouts <- MCMaxTimeouts
INVARIANTS TypeOK MutexInv NoLostWakeup
PROPERTIES CallsAreAtomic SleeperWakes WaitersLeave TimedWaitReturns
