SPECIFICATION BotSpec
CONSTANTS
  c1 = c1
  c2 = c2
  c3 = c3
  Conn = {c1, c2}
  LineClient = {c1}
  FgetsMax = 2
  Input <- LongLineInput
  MaxClients = 2
  MaxLine = 1
  Chunk = 2
  InCap = 3
  SockCap = 2
  Digit = {1}
  NL = NL
  Other = Other
  Scripts = {}
  None = None
INVARIANTS
  BotTypeOK
  OkMeansAnswered
PROPERTIES
  ClientsEnd
  StopsWhenAsked
