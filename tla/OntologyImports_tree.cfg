SPECIFICATION HistorySpec
CONSTANTS
  a = a  b = b  c = c  w = w
  da = da  da2 = da2  db = db  dc = dc  fa = fa  fb = fb
  NoDoc = NoDoc  NoFile = NoFile
  Onts <- MCOnts
  Docs <- MCDocs
  Files = {fa, fb}
  Real <- MCReal
  Requires <- MCRequires
  Web <- MCWeb
  FileOf <- MCFiles
  Loadable = {a, b}
  Stores <- BothStores
  Faults <- MCFaults
INVARIANTS FiledUnderOwnName ImportsAccountedFor
PROPERTIES ReloadReplaces RemovalUndoesImport OpensAgain RecoveryEnds
