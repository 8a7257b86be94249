SPECIFICATION Spec
CONSTANTS
  NoOne = NoOne
  Runners = {r1, r2}
  MaxTag = 2
  MayDelete = FALSE
  AbortSticks = FALSE
INVARIANT HistoryInOrder
