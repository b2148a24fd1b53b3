SPECIFICATION Spec
CONSTANTS
  IntMax = 12
  UllMax = 129
  BufCap = 6
  NL = NL
  Other = Other
  Texts <- PidTexts
  Value <- DecimalOf
  Blank = Blank
  Slash = Slash
  Hash = Hash
  Letter = Letter
  Newline = Newline
  Nul = Nul
  Files <- ConfigTexts
  Leftovers <- OldBytes
  MaxTokens = 4
INVARIANTS
  ParsedExactly
  EntriesOfTheFile
