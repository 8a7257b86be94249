SPECIFICATION AllSpec
CONSTANTS
  Kits = {}
  MaxCalls = 0
  MaxHeld = 0
  MaxChain = 0
  MaxMatches = 0
  MaxWrites = 1
  Compositions = {}
  PgCorpus <- ReadmeTable
INVARIANT PgRowsComeBack
CHECK_DEADLOCK FALSE
