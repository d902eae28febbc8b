SPECIFICATION Spec
CONSTANTS
  t1 = t1
  t2 = t2
  Tasks = {t1, t2}
  Regs = {2, 3, 5}
  Dirs = {1, 4}
  Small = {5}
  Root = 1
  Entry <- MCEntry
  Paths <- MCPaths
  BootInodes <- MCBootInodes
  BootRefs <- MCBootRefs
  i_size <- MCSize
  NR_OPEN = 2
  NR_FILE = 2
  NR_OBJ = 6
  Others = 1
  MaxRefs = 4
  MaxPos = 1
  Overlap = FALSE
  NULL = NULL
  OWN = OWN
  STALE = STALE
SYMMETRY TaskSymmetry
INVARIANTS
  CountsExact
  ExecvExact
  FaultsExact
  FlashKept
CHECK_DEADLOCK FALSE
