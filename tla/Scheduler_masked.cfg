SPECIFICATION Spec
CONSTANTS
  c1 = c1  c2 = c2  c3 = c3
  Client <- Clients
  LoopClient = {c1, c2}
  CallbackClient = {c1, c3}
  Masked = TRUE
  Null = Null
  Capacity = 3
  Wrap = 64
  Timeout = {0, 1, 2}
  Start = 60
  MaxTime = 8
INVARIANT Accounted
