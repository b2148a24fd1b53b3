SPECIFICATION Spec
CONSTANTS
  two = two
  one = one
  Pid = {p1, p2}
  Usable = {two, one}
  Size <- TwoAndOne
  Unusable = Unusable
  NoConfig = NoConfig
  NoPid = NoPid
  Null = Null
  MaxHups = 1
  MaxEdits = 0
PROPERTIES
  ReloadsOnSighup
