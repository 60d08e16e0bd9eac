SPECIFICATION MCSpec
CONSTANTS
  Keys = {"a", "b", "c", "e"}
  Vals = {0, 1}
  Plain = 0
  HashOf <- MCHashOf
  Sizes <- TableSizes
  Probe <- SearchPath
  MaxRows = 4
  Props = {"a", "b"}
  TableRows <- SomeRows
  Views <- Tree
  StartRows = 5
  MaxTable = 4
  MaxCount = 2
INVARIANT DictMirrorsRows
INVARIANT FindsEveryRow
PROPERTY ImplementsKeyedRows
INVARIANT FiltersFollow
INVARIANT SortsFollow
INVARIANT EventsComeTrue
