\* The table and the files of a pull.
SPECIFICATION BothSpec
CONSTANTS
  Extra = "none"
  Alphabet <- MCAlphabet
  Literals <- MCLiterals
  Corpus <- MCCorpus
  Tables = {"a", "b"}
  Functions = {"f"}
  Keys = {"x"}
  Scopes <- MCScopes
  Misc = "misc"
  LoadOrder <- MCLoadOrder
  MaxEdits = 1
  MaxDrifts = 1
INVARIANT ScriptsRun
INVARIANT NothingToDiff
INVARIANT RollbackRestores
INVARIANT PulledFilesLoad
INVARIANT PullDoesAsAsked
INVARIANT PullSettles
CHECK_DEADLOCK FALSE
