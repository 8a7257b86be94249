SPECIFICATION Spec
CONSTANTS
  NoOwner = NoOwner
  Nodes <- MCNodes
  Key <- Unique
  External = {9}
  Absent = Absent
  Drivers <- BothDrivers
  Objects <- TheirObjects
  Owner <- TheirOwner
  Definitions <- TheirDefinitions
  InPlace <- TheirInPlace
  Unmanaged = {6}
  Blocking = {15}
  Cascading <- TheirCascading
  Statements <- TheirStatements
  Kind <- TheirKind
  Table <- TheirTable
  Uses <- TheirUses
  NoDef = 0
  Versions = {1, 2}
INVARIANT DepsFirst
PROPERTY SortEnds
INVARIANT MigrationsArrive
INVARIANT PushDoesAsAsked
CHECK_DEADLOCK FALSE
