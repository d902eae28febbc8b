SPECIFICATION Spec
CONSTANTS
  t1 = t1
  t2 = t2
  Tasks = {t1, t2}
  NPages = 5
  Slots <- MCSlots
  DescPerPage = 2
  Requests = {1, 2}
  MaxHeld = 3
  FreeRace = TRUE
  NULL = NULL
INVARIANT NoBadAddress
CHECK_DEADLOCK FALSE
