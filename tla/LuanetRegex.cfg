SPECIFICATION Spec
CONSTANTS
  INIT_BUF_SIZE = 8
  MAX_BUF_SIZE = 128
  MAX_REGNUM = 3
  re_max_failures = 100
  NullOf <- GroupNull
  FastmapOf <- Fastmap
  TextOf <- Printed
  LuanetTrees <- MatchTrees
  LuanetTexts <- MatchTexts
  Trees <- ApiTrees
  Texts <- ApiTexts
  CFlags <- ApiCFlags
  EFlags <- ApiEFlags
  Syntaxes <- ApiSyntaxes
  MaxSearches = 2
INVARIANTS MatchIsTrueIfItOccurs RefusesTheMalformed SearchFindsTheFirst MatchIsReal BytecodeIsWhole MatcherStaysInside NoMatchCrashes FailurePointsFit BufferHoldsTheCode NothingIsLeaked
PROPERTY CallsReturn
CHECK_DEADLOCK FALSE
