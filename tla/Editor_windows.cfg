SPECIFICATION Spec
CONSTANTS
  a = a
  b = b
  c = c
  s = s
  k = k
  m = m
  i = i
  owlClass = owlClass
  po = po
  q = q
  free = free
  pr = pr
  pt = pt
  pl = pl
  v = v
  w = w
  hi = hi
  ho = ho
  functional = functional
  en = en
  it = it
  none = none
  any = any
  Resource <- MCResource
  InitialRole <- MCRole
  Imported <- MCImported
  Typed = {v, w}
  Text = {hi, ho}
  RangeType <- MCRangeType
  PropertyOrder <- MCOrder
  RowLimit = 1
  Facet = {functional}
  NoLang = none
  AnyScheme = any
  MaxEditors = 2
  Vocabularies <- MCVocabularies
INVARIANTS
  EditorsAreSound
PROPERTIES
  NamesAreHonoured
  LastBroaderIsReported
