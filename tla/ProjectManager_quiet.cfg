SPECIFICATION Spec
CONSTANTS
  Names = {a, b, c}
  Contents = {empty, partial, c1}
  Empty = empty
  Partial = partial
  NoDir = NoDir
  NoProject = NoProject
  NoTask = NoTask
  NoArchive = NoArchive
  Faults <- CloseFaults
  Kinds <- ProjectType
INVARIANTS
  LabelsMatch
  NothingHalfBuilt
PROPERTIES DeleteSparesLoaded ImplementsShelf
