SPECIFICATION Spec
CONSTANTS
  alice = alice
  bob = bob
  NoNick = NoNick
  Nick = {alice, bob}
  Online = {alice}
  HandlerSets <- OnlyPing
  Spontaneous = {"PING", "other"}
  MaxLines = 2
  MaxWhois = 1
PROPERTY KeptLinesAreHandled
CHECK_DEADLOCK FALSE
