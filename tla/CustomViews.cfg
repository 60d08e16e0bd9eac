SPECIFICATION Spec
CONSTANTS
  ViewProps = {"sub"}
  LeftProps <- LeftNames
  RightProps <- RightNames
  LeftRows <- SomeLeft
  RightRows <- SomeRight
  MaxLeft = 3
  MaxRight = 2
  RowArgs <- SomeRows
  ItemArgs = {0, 1}
  Slices <- SomeSlices
  Keys <- OnKey
  MaxCount = 2
  MinSplit = 2
INVARIANT ShowsRelation
INVARIANT OperationsRight
INVARIANT SearchesRight
INVARIANT WritesShow
CHECK_DEADLOCK FALSE
