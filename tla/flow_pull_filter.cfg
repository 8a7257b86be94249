SPECIFICATION Spec
CONSTANTS
  Objects <- TwoObjects
  Fields <- TheirFields
  NoDef = NoDef
  MaxFiles = 2
  GenFilters <- Everything
  SquashFilters <- Nothing
  PullFilters <- AllOrTables
  PullModes <- DiscardOnly
  Prunes <- Nothing
  Drivers <- SurrealOnly
  MayFail = FALSE
  MaxIncidents = 0
PROPERTY DiscardsOnlyLocal
CHECK_DEADLOCK FALSE
