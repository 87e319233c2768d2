SPECIFICATION Spec
CONSTANTS
  alice = alice
  bob = bob
  NoNick = NoNick
  Nick = {alice, bob}
  Online = {alice}
  HandlerSets <- AllOrNone
  Spontaneous = {"PING", "other", "blank"}
  MaxLines = 3
  MaxWhois = 2
INVARIANTS
  TypeOK
  HandledInOrder
  WhoisMatches
PROPERTIES
  WhoisReturns
  LinesAreHandled
CHECK_DEADLOCK FALSE
