---------------------------- MODULE ImportHistory ----------------------------
(***************************************************************************)
(* OntologyImports with a history: what the imports of the project were    *)
(* before the last one, as long as the user has done nothing else to them. *)
(* The history only watches: every step of OntologyImports is possible.    *)
(***************************************************************************)
EXTENDS OntologyImports

VARIABLE before   (* empty, or what there was before the last import         *)

historyVars == <<vars, before>>

Imports == [declared |-> declared, graphs |-> graphs, status |-> status,
            refreshed |-> refreshed]

HistoryInit == Init /\ before = {}

(* The request to import an ontology; the imports it brings in follow.     *)
ImportStep == ImportFromMirror \/ ImportFromWeb \/ ImportIntoMirror

(* Recovery, and what leaves the imports of the project alone.             *)
FollowStep ==
  Return \/ Recover \/ SaveProject \/ UpdateMirrorEntry \/ DeleteMirrorEntry

OtherStep ==
  \/ NewProject \/ CloseProject \/ OpenProject \/ Opened
  \/ ImportIntoMirrorFails \/ ImportClashes
  \/ RemoveImport \/ MirrorOntology \/ LoadRDF \/ ClearData

(* Projects of type saveToStore only (a bound).                            *)
HistoryNext ==
  \/ ImportStep /\ before' = IF persistent THEN {} ELSE {Imports}
  \/ FollowStep /\ UNCHANGED before
  \/ OtherStep /\ before' = {}

HistorySpec == HistoryInit /\ [][HistoryNext]_historyVars /\ Fairness
-----------------------------------------------------------------------------
(* In a project of type saveToStore, removing an import takes back         *)
(* everything the import did, to the import statements, the graphs, the    *)
(* status map and the refresh list, however many ontologies the recovery   *)
(* went on to, in whatever cycles, which of them the project had already,  *)
(* and whatever locations did not answer (removeOntologyImport against     *)
(* addOntologyImport and recoverOntology).  Not so for an ontology that was*)
(* in the tree before, through another import.                             *)
RemovalUndoesImport ==
  [][\A was \in before :
       /\ declared' = was.declared /\ RemoveImport
       /\ declared \cap Closure(was.declared, was.graphs) = was.declared
       => Imports' = was]_historyVars
=============================================================================
