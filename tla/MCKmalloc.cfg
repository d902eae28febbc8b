SPECIFICATION FairSpec
CONSTANTS
  t1 = t1
  t2 = t2
  Tasks = {t1, t2}
  NPages = 5
  Slots <- MCSlots
  DescPerPage = 2
  Requests = {1, 2}
  MaxHeld = 4
  FreeRace = FALSE
  NULL = NULL
INVARIANTS
  TypeOK
  RefcntExact
  PagesAccounted
  NoBadAddress
PROPERTIES
  ImplementsHeap
  CallsReturn
CHECK_DEADLOCK FALSE
