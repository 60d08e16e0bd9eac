SPECIFICATION MCSpec
CONSTANTS
  IntNames = {"p", "q"}
  ViewNames = {"a", "b", "s"}
  Structures <- SomeStructures
  Rows <- SomeRows
  Paths <- SomePaths
  MaxRows = 2
  MaxChanges = 3
  MaxCommits = 3
  Nil = Nil
  Lost = Lost
CHECK_DEADLOCK FALSE
INVARIANT ColumnsMatchRows
INVARIANT ReadsCommittedSpace
PROPERTY ImplementsTables
