SPECIFICATION BothSpec
CONSTANTS
  Names = {c1, c2, c3}
  Root = Root
  MayFail = TRUE
  Targets = {c1}
  Togethers = {c1, c2}
  Eagers = {c2, c3}
  Parallel = {c1}
  MaxFaults = 1
INVARIANT OpenedAndClosed
PROPERTY OutcomesAreRight
PROPERTY BothSettle
CHECK_DEADLOCK FALSE
