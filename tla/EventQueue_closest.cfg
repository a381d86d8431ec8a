SPECIFICATION Spec
CONSTANTS
  Client = {1, 2, 3, 4, 5, 6, 7, 8}
  Null = Null
  Capacity = 6
  Wrap = 64
  Timeouts <- SelfTimeouts
  Start = 0
  MaxTime = 0
INVARIANT HeadIsClosest
