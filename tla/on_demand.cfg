SPECIFICATION SystemSpec
CONSTANTS
  Threads = {1, 2}
  Service = 1
  Signalled = {2}
  Fds = {3, 4, 5}
  OpenMax = 6
  Capacity = 1
  MaxRequests = 3
  MaxRounds = 2
  Stacks <- MCStacks
  kMaxDepth = 1
  Addrs = {10, 11}
INVARIANTS SystemTypeOK FdsAccounted ResultsCorrect NoHandlerLeft FdsReturned
PROPERTIES AckAfterFlush RequestServed HandlerReturns
CHECK_DEADLOCK FALSE
