SPECIFICATION Spec
CONSTANTS
  Writers = {w1, w2}
  Readers = {r1, r2}
  Closers = {k}
  Timed = {w1, r1}
  Values = {a, b}
  Default = Default
  NoValue = NoValue
  Dangling = Dangling
  NoWriter = NoWriter
  MaxWrites = 1
INVARIANT WithinWaitDuration
CHECK_DEADLOCK FALSE
