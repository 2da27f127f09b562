---------------------------- MODULE MCProjectManager ----------------------------
(* Values for checking ProjectManager: the fault sets of the runs.             *)
EXTENDS ProjectManager, TLC

AllFaults == FaultKinds
CloseFaults == {"close"}

SaveToStoreOnly == {"saveToStore"}

(* Project names are not ordered or compared otherwise than by equality.        *)
NameSymmetry == Permutations(Names)
=============================================================================
