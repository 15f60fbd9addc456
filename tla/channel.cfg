SPECIFICATION LiveSpec
CONSTANTS
  Writers = {w1, w2}
  Readers = {r1, r2}
  Closers = {k}
  Timed = {w1, r1}
  Values = {a, b}
  Default = Default
  NoValue = NoValue
  Dangling = Dangling
  NoWriter = NoWriter
  MaxWrites = 1
INVARIANTS TypeOK ZoneConsistent NoLostWakeup
PROPERTIES IsRendezvous EveryWriteReturns
CHECK_DEADLOCK FALSE
