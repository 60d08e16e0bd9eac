SPECIFICATION Spec
CONSTANTS
  None = None
  Vars = {x, y}
  Paths = {p1, p2, p3}
  Rows = {r1, r2}
  MaxTemp = 2
  MaxIndex = 1
  Tails = {1}
SYMMETRY Same
INVARIANT CursorsFollowStrings
INVARIANT RefsCounted
INVARIANT TempRowsOwned
