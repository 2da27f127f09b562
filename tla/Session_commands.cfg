SPECIFICATION Spec
CONSTANTS
  Name = {a, b}
  NoName = NoName
  Scheme = {s1}
  NoScheme = NoScheme
  Sort <- MCSort
  Faults = {"create", "open", "close", "save", "saveAs", "clone", "restart"}
INVARIANTS SessionIsSound SchemeIsTheProjects ListIsCurrent
PROPERTIES UnsavedIsAsked
SYMMETRY MCSymmetry
