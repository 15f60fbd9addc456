SPECIFICATION PreloadSpec
CONSTANTS
  t1 = t1
  t2 = t2
  t3 = t3
  Threads = {t1}
  Addrs = {1, 2}
  Sizes = {1, 2}
  Calls = {"realloc", "fail"}
  Word = 64
  MaxCalls = 5
  Callers = {t1, t2, t3}
  MaxEntered = 2
INVARIANTS TypeOK EntriesAreLive NoUnderflow MemIsLive ShimTypeOK NullCallExplained
CHECK_DEADLOCK FALSE
