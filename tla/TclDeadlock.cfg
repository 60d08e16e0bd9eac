SPECIFICATION Spec
CONSTANTS
  a = a
  b = b
  c = c
  None = None
  Interps = {a, b}
  Threads = {a, b}
  ThreadOf <- OwnThread
  PathsOf <- SharedPaths
  MaxCalls = 3
  MaxLoops = 1
INVARIANT NoDeadlock
