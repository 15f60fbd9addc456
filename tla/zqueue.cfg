SPECIFICATION LiveSpec
CONSTANTS
  Producers = {p1, p2}
  Poppers = {c1, c2}
  TryPoppers = {c3}
  Items = {a, b}
  NoItem = NoItem
  Garbage = Garbage
  MaxPush = 3
INVARIANTS TypeOK QueueIsSuffix NoLostWakeup
PROPERTIES IsFifo EveryItemLeaves
