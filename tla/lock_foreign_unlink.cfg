SPECIFICATION HostileSpec
CONSTANTS
  p1 = p1
  p2 = p2
  p3 = p3
  Proc = {p1, p2}
  NoFile = NoFile
  Outsider = Outsider
  Garbage = Garbage
  MaxRounds <- OneTwice
PROPERTIES
  NeverUnlinksForeignLock
