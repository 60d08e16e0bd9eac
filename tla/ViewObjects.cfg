SPECIFICATION MCSpec
CONSTANTS
  ViewProps = {"sub"}
  LeftProps <- LeftNames
  RightProps <- RightNames
  LeftRows <- SomeLeft
  RightRows <- SomeRight
  MaxLeft = 3
  MaxRight = 1
  RowArgs = {}
  ItemArgs = {0, 1}
  Slices <- NoSlices
  Keys <- OnKey
  MaxCount = 1
  MinSplit = 2
  Indices = {0, 1, 100}
  Arguments <- SomeArguments
  Conditions <- SomeConditions
  Sortings <- SomeSortings
  Limits <- SomeLimits
  IntBits = 2
  Objects <- SomeObjects
  Criteria <- SomeCriteria
  PySlices <- SomeSlices
  Order <- SomeOrder
  MaxRows = 3
  MaxShown = 2
  MaxChain = 3
INVARIANT TclWhole
INVARIANT TclSelects
INVARIANT RefsDenoteRows
INVARIANT BehavesAsList
