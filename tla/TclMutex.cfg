SPECIFICATION FairSpec
CONSTANTS
  a = a
  b = b
  c = c
  None = None
  Interps = {a, b, c}
  Threads = {a, b, c}
  ThreadOf <- OwnThread
  PathsOf <- OwnPaths
  MaxCalls = 3
  MaxLoops = 2
INVARIANT MutualExclusion
INVARIANT AssertionsHold
PROPERTY LockComesFree
