SPECIFICATION Spec
CONSTANTS
  p1 = p1
  p2 = p2
  p3 = p3
  Proc = {p1, p2, p3}
  NoFile = NoFile
  Outsider = Outsider
  Garbage = Garbage
  MaxRounds <- OneTwice
INVARIANTS
  TypeOK
  MutualExclusion
  HolderOwnsFile
  VerifyNeverSurprised
  Accounting
  ReportsComplete
  NoLeftoverLock
PROPERTIES
  OrphanPersists
  ReleasedOrOrphaned
  TakenWhenWanted
  StopTerminates
  ImplementsMutex
