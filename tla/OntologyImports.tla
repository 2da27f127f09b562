--------------------------- MODULE OntologyImports ---------------------------
(***************************************************************************)
(* The ontologies a project imports: STOntologyManager, which keeps the    *)
(* content of every imported ontology in a named graph of the triple store *)
(* and follows owl:imports from one ontology to the next; the ontologies   *)
(* mirror, a directory of local copies shared by all projects; and the     *)
(* Metadata, Administration and InputOutput services that drive them.      *)
(*                                                                         *)
(* An import is recursive: what an imported ontology imports in turn is    *)
(* recovered before the request is answered.  The recursion is the stack   *)
(* "agenda"; every step of it may find a location on the web unreachable.  *)
(***************************************************************************)
EXTENDS FiniteSets, Sequences, Integers

CONSTANTS
  Onts,       (* names under which an ontology can be imported             *)
  Docs,       (* RDF documents                                             *)
  Files,      (* file names in the mirror directory                        *)
  Real,       (* the name a document declares itself an owl:Ontology under *)
  Requires,   (* the names a document imports                              *)
  Web,        (* the documents that may be found at the location of a name *)
  FileOf,     (* the mirror file names users choose for a name             *)
  Loadable,   (* the names that RDF files loaded by the user may import    *)
  Stores,     (* the types of project: TRUE for continuosEditing           *)
  Faults,     (* which failures may occur, by type of project              *)
  NoDoc, NoFile

(* load: a location does not answer, or not with RDF; mirror: the copy into *)
(* the mirror directory fails; clear: the user clears the data.             *)
FaultKinds == {"load", "mirror", "clear"}

(* ImportStatus.Values that are ever assigned; NULL is "not in the map".    *)
Statuses == {"LOCAL", "WEB", "FAILED", "NG", "NULL"}

Modes == {"none", "closed", "opening", "open"}

ASSUME DocumentsAssumption ==
  /\ Real \in [Docs -> Onts]
  /\ Requires \in [Docs -> SUBSET Onts]
  /\ Web \in [Onts -> SUBSET Docs]
  /\ FileOf \in [Onts -> SUBSET Files]
  /\ Loadable \subseteq Onts
  /\ Stores \subseteq BOOLEAN
  /\ Faults \in [BOOLEAN -> SUBSET FaultKinds]
  /\ NoDoc \notin Docs /\ NoFile \notin Files

VARIABLES
  mode,        (* none: there is no project, or opening it has deleted it   *)
  persistent,  (* the project's store keeps all graphs (continuosEditing)   *)
  declared,    (* owl:imports statements of the main graph                  *)
  saved,       (* the same in the triples file of a saveToStore project     *)
  graphs,      (* the documents loaded into every named graph               *)
  status,      (* importsStatusMap                                          *)
  refreshed,   (* refreshedOntologies                                       *)
  entry,       (* the mirror registry: the file that mirrors a name         *)
  file,        (* the contents of the mirror files                          *)
  newer,       (* mirror files modified after the project's time stamp      *)
  agenda       (* imports still to be looked at, innermost ontology first   *)

vars == <<mode, persistent, declared, saved, graphs, status, refreshed, entry,
          file, newer, agenda>>
project == <<mode, persistent, saved>>
mirror == <<entry, file, newer>>

TypeOK ==
  /\ mode \in Modes
  /\ persistent \in BOOLEAN
  /\ declared \subseteq Onts /\ saved \subseteq Onts
  /\ graphs \in [Onts -> SUBSET Docs]
  /\ status \in [Onts -> Statuses]
  /\ refreshed \subseteq Onts
  /\ entry \in [Onts -> Files \cup {NoFile}]
  /\ file \in [Files -> Docs \cup {NoDoc}]
  /\ newer \subseteq Files
  /\ agenda \in Seq(SUBSET Onts)

NoGraphs == [o \in Onts |-> {}]
NoStatus == [o \in Onts |-> "NULL"]

Init ==
  /\ mode = "none" /\ persistent = FALSE
  /\ declared = {} /\ saved = {}
  /\ graphs = NoGraphs /\ status = NoStatus /\ refreshed = {}
  /\ entry = [o \in Onts |-> NoFile]
  /\ file = [f \in Files |-> NoDoc]
  /\ newer = {} /\ agenda = <<>>

Idle == mode = "open" /\ agenda = <<>>

-----------------------------------------------------------------------------
(* Following owl:imports                                                    *)

(* listOntologyImports: an import statement is about the name the document  *)
(* gives itself, in whatever graph it has been loaded.                      *)
ImportsOf(o, G) ==
  UNION {Requires[d] : d \in {e \in UNION {G[g] : g \in Onts} : Real[e] = o}}

Closed(T, G) == \A o \in T : ImportsOf(o, G) \subseteq T

(* computeImportsClosure, which visits every name once, cycles included:    *)
(* the least set that contains S and, with every name, what it imports.     *)
Closure(S, G) ==
  {o \in Onts : \A T \in SUBSET Onts : S \subseteq T /\ Closed(T, G) => o \in T}

(* The documents addRDF may get for o, from its mirror file or from the web *)
Available(o) ==
  (IF entry[o] # NoFile THEN {file[entry[o]]} ELSE Web[o])
    \cup (IF "load" \in Faults[persistent] THEN {NoDoc} ELSE {})

Put(G, o, d) == IF d = NoDoc THEN G ELSE [G EXCEPT ![o] = @ \cup {d}]

(* The names that the data in graph o says it is an ontology of.            *)
Declares(G, o) == {Real[e] : e \in G[o]}

(* As in ProjectManager, definitions named Mut... are plausible mistakes that *)
(* no action uses; each stands in for the definition that follows it.       *)
MutNames(G, o) == {o}

(* notifiedAddedOntologyImport: data that does not declare o is filed under *)
(* one of the names it does declare.                                        *)
Names(G, o) ==
  IF Declares(G, o) = {} \/ o \in Declares(G, o) THEN {o} ELSE Declares(G, o)

(* renameNG                                                                 *)
Move(G, o, r) == IF r = o THEN G ELSE [G EXCEPT ![r] = @ \cup G[o], ![o] = {}]

(* That name already has data: the new data goes and the request fails.     *)
Clash(G, o, r) == r # o /\ G[r] # {}

-----------------------------------------------------------------------------
(* Projects *)

NewProject ==
  /\ mode \in {"none", "closed"}
  /\ persistent' \in Stores
  /\ mode' = "open" /\ declared' = {} /\ saved' = {}
  /\ graphs' = NoGraphs /\ status' = NoStatus /\ refreshed' = {}
  /\ newer' = {}
  /\ UNCHANGED <<entry, file, agenda>>

(* SaveToStoreProject.save writes the main graph only.                      *)
SaveProject ==
  /\ Idle /\ ~persistent
  /\ saved' = declared
  /\ UNCHANGED <<mode, persistent, declared, graphs, status, refreshed, agenda>>
  /\ UNCHANGED mirror

CloseProject ==
  /\ Idle
  /\ mode' = "closed"
  /\ declared' = IF persistent THEN declared ELSE saved
  /\ graphs' = IF persistent THEN graphs ELSE NoGraphs
  /\ status' = NoStatus /\ refreshed' = {}
  /\ UNCHANGED <<persistent, saved, agenda>>
  /\ UNCHANGED mirror

(* startOntModel, and loadOntologyData of a saveToStore project, with the   *)
(* empty maps of a new STOntologyManager.                                   *)
OpenProject ==
  /\ mode = "closed"
  /\ mode' = "opening"
  /\ agenda' = <<declared>>
  /\ UNCHANGED <<persistent, declared, saved, graphs, status, refreshed>>
  /\ UNCHANGED mirror

(* Project.activate ends with updateTimeStamp.                              *)
Opened ==
  /\ mode = "opening" /\ agenda = <<>>
  /\ mode' = "open" /\ newer' = {}
  /\ UNCHANGED <<persistent, declared, saved, graphs, status, refreshed, entry,
                 file, agenda>>

-----------------------------------------------------------------------------
(* Recovering what an ontology imports                                      *)

(* The iteration over one list of imports is over.                          *)
Return ==
  /\ agenda # <<>> /\ Head(agenda) = {}
  /\ agenda' = Tail(agenda)
  /\ UNCHANGED <<declared, graphs, status, refreshed>>
  /\ UNCHANGED project /\ UNCHANGED mirror

Advance(o) == <<Head(agenda) \ {o}>> \o Tail(agenda)

MutSkip(o) == o \in refreshed /\ agenda' = agenda

Skip(o) == o \in refreshed /\ agenda' = Advance(o)

(* MIRROR & NG, and the mirror is not more recent than the project.         *)
UpToDate(o) ==
  entry[o] # NoFile /\ graphs[o] # {} /\ entry[o] \notin newer

(* What the kept graph imports is not looked at.                            *)
Keep(o) ==
  /\ UpToDate(o)
  /\ status' = [status EXCEPT ![o] = "NG"]
  /\ agenda' = Advance(o)

(* A clash ends the request that started the recursion; if that is the      *)
(* opening of the project, activateProject deletes the project.             *)
Abandon ==
  /\ agenda' = <<>>
  /\ mode' = IF mode = "opening" THEN "none" ELSE mode

(* The other three cases of recoverOntology: the graph is emptied and       *)
(* loaded from the mirror or from the web; a failure to load is noted, and  *)
(* the ontology is then notified as added all the same.                     *)
MutEmptied(o) == graphs

Emptied(o) == [graphs EXCEPT ![o] = {}]

Reload(o) ==
  LET emptied == Emptied(o)
      how == IF entry[o] # NoFile THEN "LOCAL" ELSE "WEB"
  IN  \E d \in Available(o) : \E r \in Names(Put(emptied, o, d), o) :
        LET loaded == Put(emptied, o, d)
            noted == [status EXCEPT ![o] = IF d = NoDoc THEN "FAILED" ELSE @]
        IN  \/ /\ Clash(loaded, o, r)
               /\ graphs' = emptied /\ status' = noted
               /\ Abandon
               /\ UNCHANGED refreshed
            \/ /\ ~Clash(loaded, o, r)
               /\ graphs' = Move(loaded, o, r)
               /\ status' = [noted EXCEPT ![r] = how]
               /\ refreshed' = refreshed \cup {r}
               /\ agenda' = <<ImportsOf(r, Move(loaded, o, r))>> \o Advance(o)
               /\ UNCHANGED mode

(* recoverOntology, for one of the imports of the innermost ontology that   *)
(* has not been refreshed in this session.                                  *)
Recover ==
  /\ agenda # <<>>
  /\ \E o \in Head(agenda) :
       \/ Skip(o) /\ UNCHANGED <<mode, graphs, status, refreshed>>
       \/ o \notin refreshed /\ Keep(o) /\ UNCHANGED <<mode, graphs, refreshed>>
       \/ o \notin refreshed /\ ~UpToDate(o) /\ Reload(o)
  /\ UNCHANGED <<persistent, declared, saved>>
  /\ UNCHANGED mirror

-----------------------------------------------------------------------------
(* Metadata.addOntImport: a user imports an ontology under the name b       *)

Importable(b) == Idle /\ status[b] \notin {"LOCAL", "WEB"}

MutStatement(b, r) == b

(* The name of the import statement added to the main graph.                *)
Statement(b, r) == r

(* Document d, loaded into graph b, has been filed under the name r.        *)
Arrive(b, d, r, how) ==
  LET loaded == Put(graphs, b, d)
  IN  /\ r \in Names(loaded, b) /\ ~Clash(loaded, b, r)
      /\ graphs' = Move(loaded, b, r)
      /\ status' = [status EXCEPT ![r] = how]
      /\ declared' = declared \cup {Statement(b, r)}
      /\ refreshed' = refreshed \cup {r}
      /\ agenda' = <<ImportsOf(r, Move(loaded, b, r))>>
      /\ UNCHANGED project

(* addCachedOntologyEntry, when document e has been written to file f.      *)
Mirrored(o, f, e) ==
  /\ entry' = [entry EXCEPT ![o] = f]
  /\ file' = [file EXCEPT ![f] = e]
  /\ newer' = newer \cup {f}

(* The download into the mirror fails: before the file is opened, or after, *)
(* and then what is left of it cannot be read.                              *)
MirrorBreaks(f) ==
  /\ "mirror" \in Faults[persistent]
  /\ \/ UNCHANGED <<file, newer>>
     \/ file' = [file EXCEPT ![f] = NoDoc] /\ newer' = newer \cup {f}
  /\ UNCHANGED entry

(* A name that has a mirror is loaded from there, whatever the user chose.  *)
ImportFromMirror ==
  \E b \in Onts, r \in Onts :
    /\ Importable(b) /\ entry[b] # NoFile /\ file[entry[b]] # NoDoc
    /\ Arrive(b, file[entry[b]], r, "LOCAL")
    /\ UNCHANGED mirror

ImportFromWeb ==
  \E b \in Onts, r \in Onts : \E d \in Web[b] :
    /\ Importable(b) /\ entry[b] = NoFile
    /\ Arrive(b, d, r, "WEB")
    /\ UNCHANGED mirror

(* addOntologyImportFromWebToMirror downloads twice, and may not get the    *)
(* same document; addOntologyImportFromLocalFile copies what it has loaded. *)
ImportIntoMirror ==
  \E b \in Onts, r \in Onts : \E d, e \in Web[b], f \in FileOf[b] :
    /\ Importable(b) /\ entry[b] = NoFile
    /\ Arrive(b, d, r, "LOCAL")
    /\ Mirrored(r, f, e)

(* The data has been loaded when the second download fails, and stays.      *)
ImportIntoMirrorFails ==
  \E b \in Onts : \E d \in Web[b], f \in FileOf[b] :
    LET loaded == Put(graphs, b, d)
    IN  /\ Importable(b) /\ entry[b] = NoFile
        /\ \E r \in Names(loaded, b) :
             ~Clash(loaded, b, r) /\ graphs' = Move(loaded, b, r)
        /\ MirrorBreaks(f)
        /\ UNCHANGED <<declared, status, refreshed, agenda>>
        /\ UNCHANGED project

ImportClashes ==
  \E b \in Onts :
    \E d \in IF entry[b] = NoFile THEN Web[b] ELSE {file[entry[b]]} \ {NoDoc} :
      LET loaded == Put(graphs, b, d)
      IN  /\ Importable(b)
          /\ \E r \in Names(loaded, b) : Clash(loaded, b, r)
          /\ graphs' = [graphs EXCEPT ![b] = {}]
          /\ UNCHANGED <<declared, status, refreshed, agenda>>
          /\ UNCHANGED project /\ UNCHANGED mirror

-----------------------------------------------------------------------------
(* The other requests about imports *)

MutUnneeded(b) == Closure({b}, graphs)

(* What only b brings in.                                                   *)
Unneeded(b) == Closure({b}, graphs) \ Closure(declared \ {b}, graphs)

MutForget(S) == UNCHANGED status /\ refreshed' = refreshed \ S

Forget(S) ==
  /\ status' = [o \in Onts |-> IF o \in S THEN "NULL" ELSE status[o]]
  /\ refreshed' = refreshed \ S

(* removeOntologyImport *)
RemoveImport ==
  \E b \in declared :
    /\ Idle
    /\ declared' = declared \ {b}
    /\ graphs' = [o \in Onts |-> IF o \in Unneeded(b) THEN {} ELSE graphs[o]]
    /\ Forget(Unneeded(b))
    /\ UNCHANGED agenda
    /\ UNCHANGED project /\ UNCHANGED mirror

(* mirrorOntology downloads the ontology again.                             *)
MirrorOntology ==
  \E b \in Onts : \E f \in FileOf[b] :
    /\ Idle /\ status[b] \notin {"NULL", "FAILED"}
    /\ \/ /\ \E e \in Web[b] : Mirrored(b, f, e)
          /\ status' = [status EXCEPT ![b] = "LOCAL"]
       \/ MirrorBreaks(f) /\ UNCHANGED status
    /\ UNCHANGED <<declared, graphs, refreshed, agenda>>
    /\ UNCHANGED project

(* Administration; no project needs to be open.                             *)
UpdateMirrorEntry ==
  \E b \in Onts :
    /\ mode # "opening" /\ agenda = <<>> /\ entry[b] # NoFile
    /\ \E e \in Web[b] : Mirrored(b, entry[b], e)
    /\ UNCHANGED <<declared, graphs, status, refreshed, agenda>>
    /\ UNCHANGED project

DeleteMirrorEntry ==
  \E b \in Onts :
    /\ mode # "opening" /\ agenda = <<>> /\ entry[b] # NoFile
    /\ entry' = [entry EXCEPT ![b] = NoFile]
    /\ file' = [file EXCEPT ![entry[b]] = NoDoc]
    /\ newer' = newer \ {entry[b]}
    /\ UNCHANGED <<declared, graphs, status, refreshed, agenda>>
    /\ UNCHANGED project

(* InputOutput.loadRDF: the file imports the ontologies S.                  *)
LoadRDF ==
  \E S \in SUBSET Loadable :
    /\ Idle /\ S # {}
    /\ declared' = declared \cup S
    /\ agenda' = <<declared'>>
    /\ UNCHANGED <<graphs, status, refreshed>>
    /\ UNCHANGED project /\ UNCHANGED mirror

(* InputOutput.clearData: the bookkeeping of the imports is not cleared.    *)
ClearData ==
  /\ Idle /\ "clear" \in Faults[persistent]
  /\ declared' = {} /\ graphs' = NoGraphs
  /\ UNCHANGED <<status, refreshed, agenda>>
  /\ UNCHANGED project /\ UNCHANGED mirror

Next ==
  \/ NewProject \/ SaveProject \/ CloseProject \/ OpenProject \/ Opened
  \/ Return \/ Recover
  \/ ImportFromMirror \/ ImportFromWeb \/ ImportIntoMirror
  \/ ImportIntoMirrorFails \/ ImportClashes
  \/ RemoveImport \/ MirrorOntology \/ UpdateMirrorEntry \/ DeleteMirrorEntry
  \/ LoadRDF \/ ClearData

(* A request is handled by one thread until it is answered; connections to  *)
(* the web end, if only with a time out.                                    *)
Fairness == WF_vars(Return) /\ WF_vars(Recover) /\ WF_vars(Opened)

Spec == Init /\ [][Next]_vars /\ Fairness
-----------------------------------------------------------------------------
(* Properties *)

(* The tree of imports and the bookkeeping agree when no request is being   *)
(* handled: the ontologies that have a status, and those that count as      *)
(* refreshed, are exactly those reachable from the main graph by            *)
(* owl:imports, and no graph holds data of any other ontology.  (Projects   *)
(* of type saveToStore.)                                                    *)
ImportsAccountedFor ==
  Idle /\ ~persistent =>
    LET tree == Closure(declared, graphs)
    IN  /\ tree = {o \in Onts : status[o] # "NULL"}
        /\ tree = refreshed
        /\ \A o \in Onts \ tree : graphs[o] = {}

(* Data is filed under the name it declares, under whatever name and from   *)
(* whatever location it was fetched.                                        *)
FiledUnderOwnName ==
  \A o \in Onts : \A d \in graphs[o] : Real[d] = o

(* Opening a project never mixes what the store kept of an imported         *)
(* ontology with what has been loaded again.                                *)
ReloadReplaces ==
  [][mode = "opening" /\ mode' = "open" =>
       \A o \in Onts : status[o] \in {"WEB", "LOCAL"} =>
                         Cardinality(graphs[o]) <= 1]_vars

(* Opening a project, whatever has become of the locations of its imports,  *)
(* does not end with an exception; activateProject would delete the project.*)
OpensAgain == [][mode = "opening" => mode' # "none"]_vars

(* Following owl:imports ends, whatever cycles the ontologies make.         *)
RecoveryEnds == agenda # <<>> ~> agenda = <<>>
=============================================================================
