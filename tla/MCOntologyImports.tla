-------------------------- MODULE MCOntologyImports --------------------------
(***************************************************************************)
(* An instance of ImportHistory: a and b import each other and b imports   *)
(* c; a newer version of a, da2, no longer imports b; w is a location that *)
(* serves a under another name (a "slightly wrong URI").                   *)
(***************************************************************************)
EXTENDS ImportHistory

CONSTANTS a, b, c, w, da, da2, db, dc, fa, fb

MCOnts == {a, b, c, w}
MCDocs == {da, da2, db, dc}

RealIs(D) == [d \in D |-> CASE d \in {da, da2} -> a [] d = db -> b [] d = dc -> c]
RequiresIs(D, O) ==
  [d \in D |-> CASE d = da -> {b} [] d = db -> {a, c} \cap O [] OTHER -> {}]
WebIs(O) == [o \in O |-> CASE o = b -> {db} [] o = c -> {dc} [] OTHER -> {da, da2}]
FilesAre(O) == [o \in O |-> CASE o = b -> {fb} [] o = c -> {} [] OTHER -> {fa}]

MCReal == RealIs(MCDocs)
MCRequires == RequiresIs(MCDocs, MCOnts)
MCWeb == WebIs(MCOnts)
MCFiles == FilesAre(MCOnts)

BothStores == {TRUE, FALSE}

(* A continuosEditing project meets every failure; in one of type           *)
(* saveToStore, whose bookkeeping is to be right, locations do not answer.  *)
MCFaults == [kept \in BOOLEAN |-> IF kept THEN FaultKinds ELSE {"load"}]
=============================================================================
