SPECIFICATION Spec
CONSTANTS
  Conn = {c1, c2}
  MaxClients = 2
  MaxLine = 1
  Chunk = 2
  InCap = 3
  SockCap = 1
  Digit = {1}
  NL = NL
  Other = Other
  Scripts <- LineScripts
  None = None
PROPERTIES
  ClosedForAReason
