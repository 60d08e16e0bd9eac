SPECIFICATION Spec
SYMMETRY TagSymmetry
CONSTANTS
  Mark = 2
  NCols = 2
  Tags = {a, b}
  Modes = {1, 2}
  ColLens = {0, 3}
  MaxCommits <- Commits32
  MaxCrashes = 1
  MaxRollbacks = 1
  MaxFails = 1
INVARIANT NeverOverwrites
INVARIANT LiveSpaceClaimed
PROPERTY ImplementsDurableStore
PROPERTY FailureKeepsVersion
