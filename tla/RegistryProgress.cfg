CONSTANTS
  p1 = p1
  p2 = p2
  a1 = a1
  a2 = a2
  MaxRevision = 1
  OldSchema = FALSE
  Homes = {a1}
  Procs = {p1, p2}
  NoProc = NoProc
  NoRegistry = NoRegistry
  NoAddress = NoAddress
  Addresses = {a1, a2}
  Foreign = {a2}
  Registries <- MCRegistries
  Revision <- MCRevision
  Legacy <- MCLegacy
  Migrated <- MCMigrated
  Transitions <- MCTransitions
  Projection <- MCProjection
SPECIFICATION FairSpec
INVARIANTS ReturnsConsistent
PROPERTIES EntryReturns
