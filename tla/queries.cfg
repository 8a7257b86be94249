SPECIFICATION AllSpec
CONSTANTS
  Kits <- MCKits
  MaxCalls = 4
  MaxHeld = 2
  MaxChain = 3
  MaxMatches = 2
  MaxWrites = 2
  Compositions <- MCCompositions
  PgCorpus <- MCPgCorpus
INVARIANT ReadsAsWritten
INVARIANT PlaceholdersAgree
INVARIANT ClausesStand
INVARIANT RowsComeBack
INVARIANT UseNarrows
INVARIANT PgRowsComeBack
PROPERTY TypedIsAccepted
PROPERTY PgTypedIsAccepted
CHECK_DEADLOCK FALSE
