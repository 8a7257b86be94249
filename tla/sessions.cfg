\* push --watch next to check, both through the scratch database.
SPECIFICATION SessionSpec
CONSTANTS
  Files = {f1}
  MaxEdits = 2
INVARIANT NoEditLost
INVARIANT LiveIsSchema
INVARIANT NothingIsLeft
INVARIANT ZeroMeansSame
PROPERTY BothEnd
CHECK_DEADLOCK FALSE
