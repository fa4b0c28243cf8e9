SPECIFICATION Spec
CONSTANTS
  ColumnOrder <- TwoColumns
  Values <- TwoValues
  tnum_of_row = 4
  Files <- SomeFiles
  Queries <- SomeQueries
INVARIANTS TableIsFile UnderstoodOrRefused DistinctIsRight
PROPERTY UpdateIsRight
CHECK_DEADLOCK FALSE
