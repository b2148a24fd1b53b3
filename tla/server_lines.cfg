SPECIFICATION Spec
CONSTANTS
  Conn = {c1}
  MaxClients = 1
  MaxLine = 2
  Chunk = 2
  InCap = 4
  SockCap = 1
  Digit = {1}
  NL = NL
  Other = Other
  Scripts <- AllScripts
  None = None
INVARIANTS
  LeftoverFits
PROPERTIES
  ImplementsCounter
  DrainedBeforeClose
