SPECIFICATION Spec
CONSTANTS
  Client = {1, 2, 3, 4, 5, 6, 7, 8}
  Null = Null
  Capacity = 5
  Wrap = 64
  Timeouts <- SelfTimeouts
  Start = 63
  MaxTime = 1
INVARIANTS TypeOK OneSlotEach
PROPERTY RefinesPriorityQueue
