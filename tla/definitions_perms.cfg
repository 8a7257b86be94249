SPECIFICATION Spec
CONSTANTS
  Extra = "perms"
  Alphabet <- MCAlphabet
  Literals <- MCLiterals
  Corpus <- MCCorpus
INVARIANT PermissionsAsDeclared
CHECK_DEADLOCK FALSE
