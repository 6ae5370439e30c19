SPECIFICATION Spec
CONSTANTS
  a = a
  b = b
  Tasks = {a, b}
  NoWaker = NoWaker
  CompactFloor = 1
  Capacity = 1
  MaxSends = 3
INVARIANTS
  WaitersAgree
  NoItemStranded
  RoomReachesTheNext
  ClosedIsConclusive
PROPERTIES
  NobodySleepsOnClosed
  ItemsAreReceived
CHECK_DEADLOCK FALSE
