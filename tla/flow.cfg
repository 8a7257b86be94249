SPECIFICATION Spec
CONSTANTS
  Objects <- TwoObjects
  Fields <- TheirField
  NoDef = NoDef
  MaxFiles = 3
  GenFilters <- AllOrTables
  SquashFilters <- Everything
  PullFilters <- Everything
  PullModes <- MirrorAndDiscard
  Prunes <- Both
  Drivers <- BothDrivers
  MayFail = TRUE
  MaxIncidents = 1
INVARIANT ReplayIsSnapshot
INVARIANT MigrationsRun
INVARIANT EditStaysPending
PROPERTY PullResyncs
PROPERTY NothingIsLost
CHECK_DEADLOCK FALSE
