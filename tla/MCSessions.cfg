SPECIFICATION SessionSpec
CONSTANTS
  Servers = {s1, s2}
  Clients = {"c1", "c2"}
  MayLeave = {"c1"}
  QueryLines <- SomeLines
  CutNth = 1
INVARIANTS OneServerButParting FileFollowsServer ResponseExact
CHECK_DEADLOCK FALSE
PROPERTY ClientEnds
