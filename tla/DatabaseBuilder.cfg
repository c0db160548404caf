CONSTANTS
  ElfInputs <- SmallElfInputs
  PdbInputs <- SmallPdbInputs
  MaxRuns = 2
SPECIFICATION FairSpec
INVARIANTS TypeOK NeverPartial DoneIsComplete KeysFaithful
PROPERTIES BuildEnds ImplementsProjectFile
