SPECIFICATION Spec
CONSTANTS
  two = two
  one = one
  Pid = {p1, p2, p3}
  Usable = {two, one}
  Size <- TwoAndOne
  Unusable = Unusable
  NoConfig = NoConfig
  NoPid = NoPid
  Null = Null
  MaxHups = 2
  MaxEdits = 1
INVARIANTS
  TypeOK
  TableIsTheKernels
  FullyStaffed
  UpToDate
  EndsAlone
PROPERTIES
  ImplementsSupervisor
  ReloadsOrStuck
  EndsOrStuck
