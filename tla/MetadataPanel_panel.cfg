SPECIFICATION Spec
CONSTANTS
  m = m  n = n  p = p  q = q  u = u  v = v
  Projects = {p1, p2}
  Continuous = {p1}
  Namespace = {m, n}
  Prefix = {p, q}
  Guess <- MCGuess
  Faults <- WriteFails
  NoProject = NoProject
  NoPrefix = NoPrefix
  NoNamespace = NoNamespace
  Onts = {m}
  Reserved = {q}
  Uris = {u, v}
  MaxRows = 2
  Parts <- BothParts
INVARIANTS PrefixesAgree PanelIsCurrent UnsavedIsMarked
CONSTRAINT OneProjectPerPart
