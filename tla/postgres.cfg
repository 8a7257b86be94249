SPECIFICATION Spec
CONSTANTS
  Alphabet <- MCAlphabet
  UserTypes <- MCUserTypes
  Corpus <- MCCorpus
INVARIANT ScriptsRun
INVARIANT NothingToDiff
INVARIANT StepsArrive
INVARIANT RollbackRestores
CHECK_DEADLOCK FALSE
