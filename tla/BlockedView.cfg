SPECIFICATION Spec
CONSTANTS
  Limit = 4
  Row <- MCRow
  Plain = 0
  MaxRows = 11
INVARIANT RowsStayInOrder
PROPERTY ImplementsFlatRows
