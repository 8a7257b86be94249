SPECIFICATION FairSpec
CONSTANTS
  NoOne = NoOne
  Runners = {r1, r2}
  MaxTag = 2
  MayDelete = TRUE
  AbortSticks = TRUE
INVARIANT MutualExclusion
INVARIANT OrderlyHistory
INVARIANT StaleLockMeansCrash
PROPERTY OrderlySteps
PROPERTY EveryRunEnds
