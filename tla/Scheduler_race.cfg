SPECIFICATION Spec
CONSTANTS
  c1 = c1  c2 = c2  c3 = c3
  Client <- Clients
  LoopClient = {c1, c2}
  CallbackClient = {c3}
  Masked = FALSE
  Null = Null
  Capacity = 3
  Wrap = 64
  Timeout = {0, 1, 2}
  Start = 60
  MaxTime = 8
SYMMETRY Symmetry
INVARIANT Accounted
