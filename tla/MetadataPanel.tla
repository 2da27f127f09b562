--------------------------- MODULE MetadataPanel ---------------------------
(***************************************************************************)
(* The "Imports" side bar of the Firefox extension (content/metadata): the *)
(* base URI and the default namespace of the project in two text boxes,    *)
(* the table of its prefixes and the tree of its imports, over the         *)
(* requests of the Metadata service they send.  The service is synchronous *)
(* and its dialogs are modal, so that a gesture is one step.               *)
(*                                                                         *)
(* The two text boxes and the two trees share nothing but the project they *)
(* were filled for: a behaviour uses either the ones or the others (part). *)
(***************************************************************************)
EXTENDS NSPrefixMappings

CONSTANTS
  Onts,        \* The ontologies to import, each named by its namespace.
  Reserved,    \* The prefixes the panel does not edit: owl, rdf, rdfs, ann.
  Uris,        \* The URIs that are typed.
  MaxRows,     \* A bound on the rows of the table of prefixes.
  Parts        \* The parts of the panel that are used: "boxes", "trees".

ASSUME PanelAssumption ==
  /\ Onts \subseteq Namespace
  /\ Reserved \subseteq Prefix
  /\ Uris # {}
  /\ MaxRows \in Nat
  /\ Parts \subseteq {"boxes", "trees"}

VARIABLES
  imports,     \* [Projects -> [Onts -> Statuses]]: the imports of the server,
  mirror,      \* the ontologies it has a copy of,
  uris,        \* and the base URI and default namespace of its projects.
  part,
  panel,       \* closed, blank (opened without a project) or shown.
  owner,       \* The project the panel was last filled for.
  prefixRows,  \* The rows of the table of prefixes, in their order,
  importRows,  \* and of the tree of imports.
  boxes,       \* [{"base", "ns"} -> Boxes]: the text boxes.
  lock,        \* The button that binds the boxes to each other.
  told,        \* History: the panel has seen all changes of its project.
  bound        \* History: lock has been pressed since the panel was opened.

serverVars == <<imports, mirror, uris>>
treeVars == <<prefixRows, importRows>>
boxVars == <<boxes, lock, bound>>
panelVars == <<serverVars, part, panel, owner, treeVars, boxVars, told>>
vars == <<prefixVars, panelVars>>

Statuses == {"NONE", "WEB", "LOCAL", "FAILED"}
NoImports == [o \in Onts |-> "NONE"]

(* A URI and what is written after it.                                      *)
Ends == {"", "#", "/", "##", "/#"}
Texts == [uri : Uris, end : Ends]
Typed == [uri : Uris, end : {"", "#", "/"}]
Types == {"base", "ns"}
Boxes == [text : Texts, isChanged : BOOLEAN]
Row == [prefix : Prefix, ns : Namespace, explicit : BOOLEAN]

(* What a new project has, of which a project may be told apart.             *)
MetadataOf == {[base |-> [uri |-> u, end |-> ""], ns |-> [uri |-> u, end |-> "#"]] : u \in Uris}

Unmarked(text) == [text |-> text, isChanged |-> FALSE]
Fresh(metadata) == [type \in Types |-> Unmarked(metadata[type])]

Init ==
  /\ PrefixInit
  /\ imports = [project \in Projects |-> NoImports]
  /\ mirror = {}
  /\ uris \in [Projects -> MetadataOf]
  /\ part \in Parts
  /\ panel = "closed"
  /\ owner = NoProject
  /\ prefixRows = <<>>
  /\ importRows = NoImports
  /\ boxes = Fresh(CHOOSE metadata \in MetadataOf : TRUE)
  /\ lock = FALSE
  /\ told = FALSE
  /\ bound = FALSE

(***************************************************************************)
(* The panel                                                               *)
(***************************************************************************)

(* The events the panel listens to.  None: its listeners are added to an    *)
(* array of another name than the one that was created, and the exception   *)
(* ends the function that was to add them.                                   *)
Registered == {}

(* toggleSidebarFromImports *)
Fire(event) ==
  /\ panel' = IF event \in Registered THEN "closed" ELSE panel
  /\ told' = FALSE
  /\ UNCHANGED <<owner, treeVars, boxVars>>

(* getNSPrefixMappings: the table of the store, in the order of a hash map; *)
(* a prefix is explicit if it is a key of the map by prefix.                 *)
ServerRows(table, explicit) ==
  SetToSeq({[prefix |-> p, ns |-> table[p], explicit |-> explicit[p] # NoNamespace] :
              p \in {q \in Prefix : table[q] # NoNamespace}})

ServerImports == imports'[loaded]

(* emptyNSandImportTreesAndPopulateThem *)
FillTrees ==
  /\ prefixRows' = ServerRows(store', prefixNamespaceMap')
  /\ importRows' = ServerImports
  /\ owner' = loaded
  /\ told' = TRUE

(* The response is looked at, and the trees are filled again after an "ok". *)
Refresh == part = "trees" /\ FillTrees /\ UNCHANGED <<part, panel, boxVars>>

FillBoxes ==
  /\ boxes' = Fresh(uris[loaded])
  /\ owner' = loaded
  /\ told' = TRUE

(* Opened without a project the panel stays disabled.                       *)
Open ==
  /\ panel = "closed"
  /\ UNCHANGED <<prefixVars, serverVars, part>>
  /\ panel' = IF loaded = NoProject THEN "blank" ELSE "shown"
  /\ \/ loaded = NoProject /\ UNCHANGED <<owner, treeVars, boxes, told>>
     \/ loaded # NoProject /\ part = "trees" /\ FillTrees /\ UNCHANGED boxes
     \/ loaded # NoProject /\ part = "boxes" /\ FillBoxes /\ UNCHANGED treeVars
  /\ lock' = FALSE
  /\ bound' = FALSE

Close ==
  /\ panel # "closed"
  /\ panel' = "closed"
  /\ owner' = NoProject
  /\ prefixRows' = <<>>
  /\ importRows' = NoImports
  /\ told' = FALSE
  /\ UNCHANGED <<prefixVars, serverVars, part, boxVars>>

Shown(p) == panel = "shown" /\ part = p

(***************************************************************************)
(* The table of prefixes                                                   *)
(***************************************************************************)

(* A request that fails alerts the user, and no more.                       *)
Alert == UNCHANGED <<serverVars, part, panel, owner, treeVars, boxVars>> /\ told' = FALSE

(* Definitions named Mut... are plausible mistakes.  No action uses them:    *)
(* the runs are repeated with one of them in the place of the definition    *)
(* after it.                                                                 *)
MutAppended(rows, p, n) ==
  IF \E i \in DOMAIN rows : rows[i].prefix = p THEN rows
  ELSE Append(rows, [prefix |-> p, ns |-> n, explicit |-> TRUE])

(* setNSPrefixMapping_RESPONSE adds a row, also when the prefix or the      *)
(* namespace has one already.                                                *)
Appended(rows, p, n) == Append(rows, [prefix |-> p, ns |-> n, explicit |-> TRUE])

(* removeNSPrefixMapping_RESPONSE: the first row of the namespace goes.     *)
Without(rows, n) == RemoveFirstMatch(rows, LAMBDA row : row.ns = n)

CheckPrefixEditable(p) == p \notin Reserved

AddPrefix(p, n) ==
  /\ Shown("trees")
  /\ CheckPrefixEditable(p)
  /\ Len(prefixRows) < MaxRows
  /\ \/ /\ SetNSPrefixMapping(n, p)
        /\ prefixRows' = Appended(prefixRows, p, n)
        /\ UNCHANGED <<serverVars, part, panel, owner, importRows, boxVars, told>>
     \/ SetNSPrefixMappingFails(n, p) /\ Alert

RemovePrefix(i) ==
  /\ Shown("trees")
  /\ CheckPrefixEditable(prefixRows[i].prefix)
  /\ prefixRows[i].explicit
  /\ \/ /\ RemoveNSPrefixMapping(prefixRows[i].ns)
        /\ prefixRows' = Without(prefixRows, prefixRows[i].ns)
        /\ UNCHANGED <<serverVars, part, panel, owner, importRows, boxVars, told>>
     \/ RemoveNSPrefixMappingFails(prefixRows[i].ns) /\ Alert

(* The dialog for the new prefix, which is not checked.                     *)
ChangeNSPrefixMapping(n, p) ==
  \/ SetNSPrefixMapping(n, p) /\ UNCHANGED serverVars /\ Refresh
  \/ SetNSPrefixMappingFails(n, p) /\ Alert

ChangePrefix(i, p) ==
  /\ Shown("trees")
  /\ CheckPrefixEditable(prefixRows[i].prefix)
  /\ ChangeNSPrefixMapping(prefixRows[i].ns, p)

(***************************************************************************)
(* The tree of imports                                                     *)
(***************************************************************************)

SetImport(o, status) == imports' = [imports EXCEPT ![loaded][o] = status]

(* addOntImport: what is in the mirror is taken from there.                 *)
AddOntImport(o, method) ==
  /\ loaded # NoProject
  /\ imports[loaded][o] \notin {"LOCAL", "WEB"}
  /\ SetImport(o, IF o \in mirror \/ method = "mirror" THEN "LOCAL" ELSE "WEB")
  /\ mirror' = IF method = "mirror" THEN mirror \cup {o} ELSE mirror
  /\ \E namespaces \in SUBSET Namespace : o \in namespaces /\ GuessMissingPrefixes(namespaces)
  /\ UNCHANGED uris

(* The list of kinds of imports of the panel, and the menu of an import     *)
(* that failed.                                                              *)
ListItems == {"AddImportFromWeb", "AddImportFromWebToMirror", "AddImportFromLocalFile"}
FailedItems == {"downloadFromWeb", "downloadFromWebToMirror", "getFromLocalFile"}

(* initIMP: the fields of the dialog of an item.                             *)
Fields(item) ==
  CASE item \in {"AddImportFromWeb", "downloadFromWeb"} -> {"uri", "alternativeUrl"}
    [] item \in {"AddImportFromWebToMirror", "downloadFromWebToMirror"} ->
         {"uri", "local", "alternativeUrl"}
    [] item \in {"AddImportFromLocalFile", "getFromLocalFile"} ->
         {"base", "srcLocalFile", "destLocalFile"}
    [] OTHER -> {}

(* What the dialog is told: downloadFailedImport passes the item under       *)
(* another name than the one the dialog reads.                                *)
SelectIndex(item) == IF item \in FailedItems THEN "undefined" ELSE item

(* showHideItems: the menu of an import.                                     *)
Offered(o) ==
  CASE importRows[o] = "NONE" -> {}
    [] importRows[o] = "WEB" -> {"remove", "mirror"}
    [] importRows[o] = "FAILED" -> {"remove"} \cup FailedItems
    [] OTHER -> {"remove"}

(* onAccept of the dialog, when it has the fields that it reads.            *)
AddImport(o, item) ==
  /\ Shown("trees")
  /\ item \in ListItems \cup Offered(o)
  /\ Fields(SelectIndex(item)) # {}
  /\ AddOntImport(o, IF "uri" \in Fields(item) /\ "local" \notin Fields(item)
                     THEN "web" ELSE "mirror")
  /\ Refresh

AddFromOntologyMirror(o) ==
  /\ Shown("trees")
  /\ o \in mirror
  /\ AddOntImport(o, "mirror")
  /\ Refresh

RemoveImport(o) ==
  /\ Shown("trees")
  /\ "remove" \in Offered(o)
  /\ loaded # NoProject
  /\ SetImport(o, "NONE")
  /\ UNCHANGED <<prefixVars, mirror, uris>>
  /\ Refresh

MirrorOntology(o) ==
  /\ Shown("trees")
  /\ "mirror" \in Offered(o)
  /\ loaded # NoProject
  /\ imports[loaded][o] \in {"WEB", "LOCAL"}
  /\ SetImport(o, "LOCAL")
  /\ mirror' = mirror \cup {o}
  /\ UNCHANGED <<prefixVars, uris>>
  /\ Refresh

(* The mirror's own window; an update changes no entry.                      *)
DeleteMirrorEntry(o) ==
  /\ o \in mirror
  /\ mirror' = mirror \ {o}
  /\ UNCHANGED <<prefixVars, imports, uris, part, panel, owner, treeVars, boxVars, told>>

(***************************************************************************)
(* The text boxes                                                          *)
(***************************************************************************)

WithoutHash(text) ==
  [text EXCEPT !.end = CASE @ = "#" -> "" [] @ = "##" -> "#" [] @ = "/#" -> "/" [] OTHER -> @]

WithHash(text) ==
  [text EXCEPT !.end = CASE @ = "" -> "#" [] @ = "/" -> "/#" [] OTHER -> "##"]

MutKey(boxOf, type, text) == [boxOf EXCEPT ![type].text = text]

(* checkEnter marks the box the user types in.                               *)
Key(boxOf, type, text) == [boxOf EXCEPT ![type] = [text |-> text, isChanged |-> TRUE]]

(* manageInputBind, when a key comes up, Enter as well: under the lock the   *)
(* other box follows, and loses its mark.                                    *)
KeyUp(boxOf, type) ==
  CASE lock /\ type = "base" -> [boxOf EXCEPT !.ns = Unmarked(WithHash(boxOf.base.text))]
    [] lock /\ type = "ns" -> [boxOf EXCEPT !.base = Unmarked(WithoutHash(boxOf.ns.text))]
    [] OTHER -> boxOf

TypeText(type, text) ==
  /\ Shown("boxes")
  /\ boxes' = KeyUp(Key(boxes, type, text), type)
  /\ UNCHANGED <<prefixVars, serverVars, part, panel, owner, treeVars, told, lock, bound>>

(* checkbind *)
PressLock ==
  /\ Shown("boxes")
  /\ lock' = ~lock
  /\ bound' = TRUE
  /\ UNCHANGED <<prefixVars, serverVars, part, panel, owner, treeVars, told, boxes>>

(* The boxes that Enter saves; the base URI loses its hash.                  *)
SavedWith(type) == IF lock THEN Types ELSE {type}

Saved(type) ==
  [t \in Types |-> IF t \notin SavedWith(type) THEN uris[loaded][t]
                   ELSE IF t = "base" THEN WithoutHash(boxes.base.text) ELSE boxes.ns.text]

(* setBaseURI and setDefaultNamespace of Project set a value before they     *)
(* write it.  When both are set, a base URI that fails takes the namespace   *)
(* back; a namespace that fails does not take the base URI back.             *)
SavedInVain(type) ==
  {Saved(type)} \cup (IF lock THEN {[Saved(type) EXCEPT !.ns = uris[loaded].ns]} ELSE {})

(* The boxes are marked as unchanged after an "ok".                          *)
Confirmed(type) ==
  [t \in Types |-> IF t \in SavedWith(type) THEN Unmarked(boxes[t].text) ELSE boxes[t]]

(* changeBaseuri_Namespace, for a box that is marked, and whose change the   *)
(* user confirms.                                                             *)
Save(type) ==
  /\ boxes[type].isChanged
  /\ "ns" \in SavedWith(type) => boxes.ns.text.end # ""
  /\ loaded # NoProject
  /\ \/ /\ uris' = [uris EXCEPT ![loaded] = Saved(type)]
        /\ boxes' = KeyUp(Confirmed(type), type)
     \/ /\ "write" \in Faults
        /\ \E metadata \in SavedInVain(type) : uris' = [uris EXCEPT ![loaded] = metadata]
        /\ boxes' = KeyUp(boxes, type)

(* Enter in a box, which saves it or does not.                               *)
Enter(type) ==
  /\ Shown("boxes")
  /\ Save(type) \/ (UNCHANGED uris /\ boxes' = KeyUp(boxes, type))
  /\ UNCHANGED <<prefixVars, imports, mirror, part, panel, owner, treeVars, told, lock, bound>>

(***************************************************************************)
(* The rest of the extension                                               *)
(***************************************************************************)

(* Opening a project brings its imports back, from the mirror or the web.   *)
Reopened(project) ==
  {status \in [Onts -> Statuses] :
     \A o \in Onts : status[o] \in IF imports[project][o] = "NONE" THEN {"NONE"}
                                    ELSE IF o \in mirror THEN {"LOCAL"} ELSE {"WEB", "FAILED"}}

OpenedProject(project) ==
  /\ OpenProject(project)
  /\ \E status \in Reopened(project) : imports' = [imports EXCEPT ![project] = status]
  /\ UNCHANGED <<mirror, uris, part>>
  /\ Fire("projectOpened")

ClosedProject ==
  /\ CloseProject
  /\ UNCHANGED <<serverVars, part>>
  /\ Fire("projectClosed")

SavedProject == SaveProject /\ UNCHANGED panelVars

(* The menu's level of detail.                                               *)
VisLevelChanged == UNCHANGED <<prefixVars, serverVars, part>> /\ Fire("visLevelChanged")

(* loadRdf of the menu, also when its dialog was cancelled.                  *)
LoadRdf(onts) ==
  /\ part = "trees"
  /\ \E namespaces \in SUBSET Namespace : onts \subseteq namespaces /\ GuessMissingPrefixes(namespaces)
  /\ imports' = [imports EXCEPT ![loaded] =
       [o \in Onts |-> IF o \in onts /\ @[o] = "NONE" THEN IF o \in mirror THEN "LOCAL" ELSE "WEB"
                       ELSE @[o]]]
  /\ UNCHANGED <<mirror, uris, part>>
  /\ Fire("rdfLoaded")

ClearRepository ==
  /\ part = "trees"
  /\ UNCHANGED <<mirror, uris, part>>
  /\ \/ ClearData /\ imports' = [imports EXCEPT ![loaded] = NoImports] /\ Fire("clearedData")
     \/ ClearDataFails /\ UNCHANGED <<imports, panel, owner, treeVars, boxVars>> /\ told' = FALSE

TreeGesture ==
  \/ \E p \in Prefix, n \in Namespace : AddPrefix(p, n)
  \/ \E i \in DOMAIN prefixRows : RemovePrefix(i)
  \/ \E i \in DOMAIN prefixRows, p \in Prefix : ChangePrefix(i, p)
  \/ \E o \in Onts, item \in ListItems \cup FailedItems : AddImport(o, item)
  \/ \E o \in Onts : AddFromOntologyMirror(o)
  \/ \E o \in Onts : RemoveImport(o)
  \/ \E o \in Onts : MirrorOntology(o)

BoxGesture ==
  \/ \E type \in Types, text \in Typed : TypeText(type, text)
  \/ \E type \in Types : Enter(type)
  \/ PressLock

Next ==
  \/ Open \/ Close
  \/ TreeGesture
  \/ BoxGesture
  \/ \E project \in Projects : OpenedProject(project)
  \/ ClosedProject \/ SavedProject \/ VisLevelChanged
  \/ \E onts \in SUBSET Onts : LoadRdf(onts)
  \/ ClearRepository
  \/ \E o \in Onts : DeleteMirrorEntry(o)

Spec == Init /\ [][Next]_vars

(***************************************************************************)
(* Properties                                                              *)
(***************************************************************************)
TypeOK ==
  /\ PrefixTypeOK
  /\ imports \in [Projects -> [Onts -> Statuses]]
  /\ mirror \subseteq Onts
  /\ uris \in [Projects -> [Types -> Texts]]
  /\ part \in Parts
  /\ panel \in {"closed", "blank", "shown"}
  /\ owner \in Projects \cup {NoProject}
  /\ prefixRows \in Seq(Row)
  /\ importRows \in [Onts -> Statuses]
  /\ boxes \in [Types -> Boxes]
  /\ {lock, told, bound} \subseteq BOOLEAN

UpToDate == panel = "shown" /\ owner = loaded /\ told

(* Rows are added and removed one by one as requests are answered: a panel  *)
(* that has been told of every change has a row for each explicit prefix    *)
(* that the store knows (it may have rows for others, too).                 *)
RowsCoverPrefixes ==
  part = "trees" /\ UpToDate =>
    \A p \in Prefix :
      prefixNamespaceMap[p] # NoNamespace /\ store[p] = prefixNamespaceMap[p] =>
        \E i \in DOMAIN prefixRows :
          prefixRows[i] = [prefix |-> p, ns |-> store[p], explicit |-> TRUE]

(* A panel that has been told of every change shows the imports of the      *)
(* server with the statuses they have there, which adding, mirroring and    *)
(* removing change.                                                          *)
ImportsAreCurrent == part = "trees" /\ UpToDate => importRows = imports[loaded]

PanelIsCurrent == TypeOK /\ RowsCoverPrefixes /\ ImportsAreCurrent

(* Only a box that is marked can be saved: while the panel is that of the   *)
(* project and its boxes are not bound to each other, a box that differs    *)
(* from what the server has is marked, whatever was typed, saved, refused   *)
(* or failed.                                                                *)
UnsavedIsMarked ==
  part = "boxes" /\ UpToDate /\ ~bound =>
    \A type \in Types :
      WithoutHash(boxes[type].text) # WithoutHash(uris[loaded][type]) => boxes[type].isChanged
=============================================================================
