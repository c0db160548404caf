SPECIFICATION Spec
CONSTANTS
  MaxRecords = 6
  MaxVisible = 2
  MaxVersion = 1
  MaxReloads = 2
INVARIANTS
  ListInv
  Covered
  LatestShown
