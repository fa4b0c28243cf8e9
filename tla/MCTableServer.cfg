SPECIFICATION TSSpec
CONSTANTS
  Threads = {t1, t2, t3}
  ColumnOrder <- TwoColumns
  Values = {"1", "2"}
  tnum_of_row = 3
  Queries <- AllQueries
PROPERTY ImplementsAtomic
SYMMETRY ThreadSymmetry
CHECK_DEADLOCK FALSE
