CONSTANTS
  Values <- MCValues
  Parts <- MCParts
  Unset = 9
  MemoAlways = 2
  MemoNever = 1
  ColumnLimit = 4
  MaxRows = 2
  MaxLen = 3
  MaxCommits = 2
  MaxChanges = 3
SPECIFICATION Spec
INVARIANT Validate
INVARIANT SkipsOnlyRight
INVARIANT CopyHasItems
PROPERTY ImplementsItemStore
CHECK_DEADLOCK FALSE
