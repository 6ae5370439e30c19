SPECIFICATION Spec
CONSTANTS
  a = a
  b = b
  Tasks = {a, b}
  NoWaker = NoWaker
  CompactFloor = 1
  Capacity = 1
  MaxSends = 3
PROPERTIES
  WokenAreServed
CHECK_DEADLOCK FALSE
