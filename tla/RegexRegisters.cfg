SPECIFICATION Spec
CONSTANTS
  INIT_BUF_SIZE = 8
  MAX_BUF_SIZE = 128
  MAX_REGNUM = 9
  re_max_failures = 100
  NullOf <- GroupNull
  FastmapOf <- Fastmap
  TextOf <- Printed
  LuanetTrees <- RegisterTrees
  LuanetTexts <- MatchTexts
  Trees = {}
  Texts = {}
  CFlags = {}
  EFlags = {}
  Syntaxes = {}
  MaxSearches = 1
INVARIANT FailurePointsFit
CHECK_DEADLOCK FALSE
