SPECIFICATION Spec
CONSTANTS
  INIT_BUF_SIZE = 8
  MAX_BUF_SIZE = 128
  MAX_REGNUM = 3
  re_max_failures = 100
  NullOf <- GroupNull
  FastmapOf <- Fastmap
  TextOf <- Printed
  LuanetTrees <- EndTrees
  LuanetTexts <- MatchTexts
  Trees = {}
  Texts = {}
  CFlags = {}
  EFlags = {}
  Syntaxes = {}
  MaxSearches = 1
INVARIANT MatchIsTrueIfItOccurs
CHECK_DEADLOCK FALSE
