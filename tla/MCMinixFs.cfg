SPECIFICATION Spec
CONSTANTS
  MaxMap = 2
  MaxInodes = 5
  MINIX_INODES_PER_BLOCK = 2
  I_SZ = 32
  Slash = 1
  Dot = 2
  Chars = {1, 2, 3}
  MaxPath = 5
  Images <- MCImages
  Root = 1
  NAME_LEN = 3
  DIR_PER_BLK = 2
  Files = {3, 4}
  i_zone <- MCZones
  Flash <- MCFlash
  BLOCK_SZ = 3
  ND = 2
  PER = 4
  Extents <- InZones
  MaxCalls = 2
  Populated <- MCPopulated
  NULL = NULL
INVARIANTS
  InodesApart
  NameFits
  NameiExact
PROPERTIES
  ImplementsFlatFile
  OwnBlocks
CHECK_DEADLOCK FALSE
