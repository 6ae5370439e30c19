SPECIFICATION Spec
CONSTANTS
  a = a
  b = b
  Tasks = {a, b}
  NoWaker = NoWaker
  CompactFloor = 1
  Capacity = 1
  MaxSends = 3
INVARIANTS
  NoRoomStranded
CHECK_DEADLOCK FALSE
