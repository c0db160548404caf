SPECIFICATION Spec
CONSTANTS
  Sections <- MCSections
  Strays <- MCStrays
  Skips <- MCSkips
  Dynsyms <- MCDynsyms
  Base <- MCBase
  FileOffsets <- MCFileOffsets
  Dword = 64
  Half = 8
  Garbage = 99
  MaxGarbage = 2
INVARIANTS
  RowsRecovered
  CrashNeedsStray
