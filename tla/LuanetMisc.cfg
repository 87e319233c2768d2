SPECIFICATION MiscSpec
CONSTANTS
  BLOCK = 64
  LENGTH = 8
  OCTET = 256
  OCTET_BITS = 8
  WORD = 1073741824
  IV <- InitialH
  Compress <- ProcessMessageBlock
  Arrays = {}
  Known <- MCKnown
  MaxHashes = 1
  INT_MAX = 3
  RAND_MAX = 3
  MICROS = 2
  Lower <- MCLower
  Upper <- MCUpper
  Figures <- MCFigures
  MaxSize = 2
  Dirs <- MCDirs
  FdLimit = 2
INVARIANTS Sha1OfTheString RandomIsInRange ListdirIsTheDirectory
CHECK_DEADLOCK FALSE
