SPECIFICATION Spec
CONSTANTS
  Mark = 2
  NCols = 1
  Tags = {a}
  Modes = {1}
  ColLens = {0, 3}
  MaxCommits <- Commits2
  MaxCrashes = 1
  MaxRollbacks = 0
  MaxFails = 0
PROPERTY FailSafe
