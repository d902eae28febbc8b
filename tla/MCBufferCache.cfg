SPECIFICATION MCSpec
CONSTANTS
  t1 = t1
  t2 = t2
  b1 = b1
  b2 = b2
  b3 = b3
  Tasks = {t1, t2}
  Bufs = {b1, b2, b3}
  Data = {10}
  Meta = {20}
  ITable = {30}
  Slots = {1, 2}
  Vals = {0, 1}
  Overlap = FALSE
  NULL = NULL
SYMMETRY BufSymmetry
INVARIANTS
  PointersLive
  Released
PROPERTY ImplementsBlockStore
CHECK_DEADLOCK FALSE
