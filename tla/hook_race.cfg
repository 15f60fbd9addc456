SPECIFICATION Spec
CONSTANTS
  t1 = t1
  t2 = t2
  Threads = {t1, t2}
  Addrs = {1, 2}
  Sizes = {1, 2}
  Calls = {}
  Word = 64
  MaxCalls = 3
INVARIANT MemIsLive
CHECK_DEADLOCK FALSE
