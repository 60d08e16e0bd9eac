SPECIFICATION MCSpec
CONSTANTS
  SegMax = 5
  MinSlack = 3
  Zero = 0
  Unset = 999
  Maps = {TRUE, FALSE}
  MaxSize = 11
  MaxDiff = 7
  IntSegMax = 8
  Needs = {0, 1, 2, 4, 8, 16, 32}
  FakeSizes = FALSE
  MaxRows = 9
  MaxCount = 3
  MaxInt = 20
  MaxPos = 12
  Lens = {1, 2, 3}
  FragLimit = 8
  FragGoal = 8
  HiShift = 3
  LoShift = 2
INVARIANT WallsSorted
INVARIANT SearchFindsWall
INVARIANT Validate
INVARIANT KeepsBytes
INVARIANT KeepsItems
INVARIANT WidthFound
PROPERTY ImplementsByteSpace
