SPECIFICATION Spec
CONSTANTS
  Self = 1
  Threads = {1, 2}
  Stacks <- MCStacks
  kMaxDepth = 2
  Addrs = {10, 11}
  MaxRounds = 2
INVARIANT ErrorFilled
CHECK_DEADLOCK FALSE
