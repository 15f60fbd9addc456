SPECIFICATION LiveSpec
CONSTANTS
  a1 = a1
  a2 = a2
  App = {a1, a2}
  Unsafe = {a1}
  MaxGc = 1
  MaxPending = 1
INVARIANTS TypeOK NotifierHasQueue
PROPERTIES StackTraceCompletes FullIsNoticed EveryGcTraced WorkerStops
CHECK_DEADLOCK FALSE
