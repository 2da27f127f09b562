SPECIFICATION Spec
CONSTANTS
  Names = {a, b}
  Contents = {empty, partial, c1}
  Empty = empty
  Partial = partial
  NoDir = NoDir
  NoProject = NoProject
  NoTask = NoTask
  NoArchive = NoArchive
  Faults <- AllFaults
  Kinds <- SaveToStoreOnly
SYMMETRY NameSymmetry
INVARIANTS
  TypeOK
  OthersUntouched
  AnswersAreTrue
  CopiesAreFaithful
  ImportRestoresExport
