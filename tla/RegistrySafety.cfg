CONSTANTS
  p1 = p1
  p2 = p2
  a1 = a1
  a2 = a2
  MaxRevision = 2
  OldSchema = TRUE
  Homes = {a1, NoAddress}
  Procs = {p1, p2}
  NoProc = NoProc
  NoRegistry = NoRegistry
  NoAddress = NoAddress
  Addresses = {a1, a2}
  Foreign = {}
  Registries <- MCRegistries
  Revision <- MCRevision
  Legacy <- MCLegacy
  Migrated <- MCMigrated
  Transitions <- MCTransitions
  Projection <- MCProjection
SPECIFICATION Spec
SYMMETRY MCSymmetry
INVARIANTS
  AlwaysRecoverable
  ProjectionFailsClosed
  SuccessIsDurable
  RevisionNamesContent
PROPERTIES
  Implements
