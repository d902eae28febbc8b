SPECIFICATION Spec
CONSTANTS
  u1 = u1
  u2 = u2
  KThreads = {init, idle}
  Users = {u1, u2}
  Pcs = {0, 1}
  Sps = {0, 1}
  MaxDepth = 3
  NULL = NULL
INVARIANT ForkReturnsToUser
CHECK_DEADLOCK FALSE
