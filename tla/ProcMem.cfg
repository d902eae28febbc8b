SPECIFICATION Spec
CONSTANTS
  NP = 32
  PAGE_SIZE = 2
  FAN = 2
  USER_MAX = 16
  MAX_USER_PAGES = 4
  MAX_PGTBL_PAGES = 8
  Procs = {1, 2, 3}
  Sizes = {0, 1, 4}
  StaleMm = FALSE
  NULL = NULL
INVARIANTS
  Isolated
  MappedExact
  PagesAccounted
CHECK_DEADLOCK FALSE
