\* Two tabs on one of two documents without spans; two annotations are made.
CONSTANTS
  Tabs = {t1, t2}
  Bound = 2
  Pages <- MCPages
  Selections <- MCSelections
SYMMETRY MCSymmetry
SPECIFICATION Spec
INVARIANTS PagesAreSound PointersResolve FormsAgree
PROPERTIES AnnotationsAreShown
