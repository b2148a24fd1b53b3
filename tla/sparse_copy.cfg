SPECIFICATION Spec
CONSTANTS
  Zero = Zero
  Data = {A}
  MaxInput = 6
  Inputs <- AllInputs
  block_size = 3
INVARIANTS
  TypeOK
  ExactCopy
  PrefixOnFailure
  WritesNearData
