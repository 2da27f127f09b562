--------------------------- MODULE ProjectManager ---------------------------
(***************************************************************************)
(* The life cycle of Semantic Turkey projects: the directories under       *)
(* Resources.getProjectsDir(), the one loaded project that the static      *)
(* field ProjectManager._currentProject holds, and the handlers of the     *)
(* Projects service that create, open, close, save, copy, export, import,  *)
(* repair and delete projects.                                             *)
(*                                                                         *)
(* One request is served at a time (its progress is "task"); a handler     *)
(* runs in the steps at which it touches the disk, so that a failing       *)
(* write, a model that does not load, and a stop of the server may fall    *)
(* between any two of them.                                                *)
(***************************************************************************)
EXTENDS FiniteSets

CONSTANTS
  Names,        (* legal project names, which are also directory names      *)
  Contents,     (* abstract RDF contents of a project                       *)
  Empty,        (* the content of a project just created                    *)
  Partial,      (* what a truncated triples file holds                      *)
  Kinds,        (* the project types in use, of those in ProjectType        *)
  Faults,       (* which failures of the environment may occur              *)
  NoDir, NoProject, NoTask, NoArchive   (* "no such thing" markers          *)

(***************************************************************************)
(* crash: the server stops; io: a write fails half way; load: the model    *)
(* cannot be created from the files; plugin: the OntologyManager bundle is *)
(* missing or refuses an update; close: the triple store does not close.   *)
(***************************************************************************)
FaultKinds == {"crash", "io", "load", "plugin", "close"}

ProjectType == {"continuosEditing", "saveToStore"}

(* The parts of a project directory: project.info (readable, with all its   *)
(* required properties), model.config and the store directory.              *)
Files == {"info", "config", "store"}

(* label is the "name" property written in project.info; saved is what the  *)
(* triples file, or the persistent store, holds.                            *)
Dir == [files : SUBSET Files, label : Names, kind : Kinds, saved : Contents]

(* A Project object in memory: dir is the directory its File fields name,   *)
(* label its own copy of the "name" property, mem the content of its model. *)
Loaded == [dir : Names, label : Names, kind : Kinds, mem : Contents]

Archive == [label : Names, kind : Kinds, content : Contents]

Creates == {"newProject", "newProjectFromFile"}
Ops == Creates \cup {"openProject", "deleteProject", "saveProject",
          "saveProjectAs", "cloneProject", "importProject", "setProperty"}

Answers == {"ok", "fail", "exc"}
Pcs == Answers \cup {"prepare", "info", "config", "describe", "load",
          "confirm", "file", "erase", "write", "close", "copy", "label",
          "unpack", "rename", "data", "property"}

Disks == [Names -> Dir \cup {NoDir}]
Currents == Loaded \cup {NoProject}

(* A request being served; pre is the state it found, kept for the          *)
(* properties only: no step reads it.                                       *)
Tasks == [op : Ops, src : Names, dst : Names, pc : Pcs,
          pre : [disk : Disks, current : Currents]]

ASSUME ContentsAssumption ==
  /\ Empty \in Contents /\ Partial \in Contents /\ Empty # Partial

ASSUME ParametersAssumption ==
  /\ Faults \subseteq FaultKinds
  /\ Kinds \subseteq ProjectType

ASSUME MarkersAssumption ==
  /\ NoDir \notin Dir
  /\ NoProject \notin Loaded
  /\ NoArchive \notin Archive
  /\ NoTask \notin Tasks

(* The shelf that the projects are seen as (see Refinement) has one marker. *)
ASSUME ShelfAssumption ==
  NoDir \notin Contents /\ NoDir \notin [name : Names, mem : Contents]

VARIABLES
  disk,      (* the project directories                                     *)
  current,   (* ProjectManager._currentProject                              *)
  archive,   (* the last exported project file                              *)
  task       (* the request being served, or NoTask                         *)

vars == <<disk, current, archive, task>>

TypeOK ==
  /\ disk \in Disks
  /\ current \in Currents
  /\ archive \in Archive \cup {NoArchive}
  /\ task \in Tasks \cup {NoTask}

Init ==
  /\ disk = [n \in Names |-> NoDir]
  /\ current = NoProject
  /\ archive = NoArchive
  /\ task = NoTask

-----------------------------------------------------------------------------
(* Helpers *)

At(p) == task # NoTask /\ task.pc = p
Goto(p) == task' = [task EXCEPT !.pc = p]

SetDir(n, d) == disk' = [disk EXCEPT ![n] = d]

(* The directory d with the files F only, and the content s.                *)
Piece(d, F, s) == [d EXCEPT !.files = F, !.saved = s]

(* What a deletion that stops half way may leave of a directory.            *)
Remains(d) == {Piece(d, F, s) : F \in SUBSET d.files, s \in {d.saved, Empty}}

(* What a copy that stops half way may have made of it.                     *)
Fragments(d) ==
  {Piece(d, F, s) : F \in SUBSET d.files, s \in {d.saved, Empty, Partial}}

(* project.info is truncated before it is written again.                    *)
WithoutInfo(d) == [d EXCEPT !.files = @ \ {"info"}]

(* Utilities.deleteDir: everything goes, or (a file that cannot be removed) *)
(* something stays.                                                         *)
DeleteDir(n) ==
  \/ SetDir(n, NoDir)
  \/ "io" \in Faults /\ \E r \in Remains(disk[n]) : SetDir(n, r)

(* Definitions named Mut... are plausible mistakes.  No action uses them:   *)
(* each stands in for the definition that follows it when a run is repeated *)
(* to see that its property can fail.                                       *)
MutIsLoadedName(n) == FALSE

(* deleteProject refuses the loaded project, which it knows by its label.   *)
IsLoadedName(n) == current # NoProject /\ current.label = n

(* A failed newProject is "recovered" by deleting the project of that name. *)
AfterFailure == IF task.op \in Creates THEN "erase" ELSE "exc"

(* Writing RDF into the loaded model: a persistent store follows at once.   *)
WriteModel(c) ==
  /\ current' = [current EXCEPT !.mem = c]
  /\ IF current.kind = "continuosEditing" /\ disk[current.dir] # NoDir
       THEN SetDir(current.dir, [disk[current.dir] EXCEPT !.saved = c])
       ELSE UNCHANGED disk

-----------------------------------------------------------------------------
(* Requests *)

Begin(o, s, d, p) ==
  /\ task = NoTask
  /\ task' = [op |-> o, src |-> s, dst |-> d, pc |-> p,
              pre |-> [disk |-> disk, current |-> current]]
  /\ UNCHANGED <<disk, current, archive>>

Request ==
  \/ \E n \in Names :
       \/ \E o \in Creates : Begin(o, n, n, "prepare")
       \/ Begin("openProject", n, n, "describe")
       \/ Begin("deleteProject", n, n, "erase")
       \/ archive # NoArchive /\ Begin("importProject", n, n, "unpack")
       \/ current # NoProject /\ Begin("saveProjectAs", current.label, n, "close")
       \/ \E s \in Names : Begin("cloneProject", s, n, "copy")
  \/ /\ current # NoProject
     /\ \/ /\ current.kind = "saveToStore"
           /\ Begin("saveProject", current.dir, current.dir, "write")
        \/ Begin("setProperty", current.dir, current.dir, "property")

Answer ==
  /\ task # NoTask /\ task.pc \in Answers
  /\ task' = NoTask
  /\ UNCHANGED <<disk, current, archive>>

-----------------------------------------------------------------------------
(* Creation: prepareProjectFiles                                            *)

(* A name in use raises DuplicatedResourceException, which createProject    *)
(* turns into a ProjectCreationException like every other failure.          *)
Prepare ==
  /\ At("prepare")
  /\ \/ /\ disk[task.dst] = NoDir
        /\ \E k \in Kinds :
             SetDir(task.dst, [files |-> {"store"}, label |-> task.dst,
                               kind |-> k, saved |-> Empty])
        /\ Goto("info")
     \/ /\ disk[task.dst] # NoDir \/ "plugin" \in Faults
        /\ Goto("erase")
        /\ UNCHANGED disk
  /\ UNCHANGED <<current, archive>>

(* The properties are written, then the model configuration; if a write     *)
(* fails the whole directory is deleted.                                    *)
WriteFile(f, next) ==
  /\ At(f)
  /\ \/ /\ SetDir(task.dst, [disk[task.dst] EXCEPT !.files = @ \cup {f}])
        /\ Goto(next)
     \/ "io" \in Faults /\ DeleteDir(task.dst) /\ Goto("erase")
  /\ UNCHANGED <<current, archive>>

WriteInfo == WriteFile("info", "config")
WriteConfig == WriteFile("config", "describe")

(* newProjectFromFile: the RDF file is loaded into the project just opened. *)
LoadFile ==
  /\ At("file")
  /\ \/ /\ \E c \in Contents \ {Partial} : WriteModel(c)
        /\ Goto("ok")
     \/ Goto("erase") /\ UNCHANGED <<disk, current>>
  /\ UNCHANGED archive

-----------------------------------------------------------------------------
(* Activation, shared by creation, opening, saving as and import            *)

(* getProjectDescription, and Project.activate up to loadTriples: none of   *)
(* these failures touches the disk.                                         *)
Describe ==
  LET usable == /\ disk[task.dst] # NoDir
                /\ {"info", "config"} \subseteq disk[task.dst].files
  IN
  /\ At("describe")
  /\ \/ usable /\ Goto("load")
     \/ (~usable \/ "plugin" \in Faults) /\ Goto(AfterFailure)
  /\ UNCHANGED <<disk, current, archive>>

LoadMayFail ==
  \/ "store" \notin disk[task.dst].files
  \/ disk[task.dst].saved = Partial
  \/ "load" \in Faults

(* loadTriples raises a ModelCreationException: activateProject deletes the *)
(* directory, whoever asked for the activation.                             *)
LoadFails ==
  /\ At("load")
  /\ LoadMayFail
  /\ DeleteDir(task.dst)
  /\ Goto(AfterFailure)
  /\ UNCHANGED <<current, archive>>

LoadTriples ==
  /\ At("load")
  /\ "store" \in disk[task.dst].files
  /\ Goto("confirm")
  /\ UNCHANGED <<disk, current, archive>>

AfterConfirm ==
  CASE task.op = "newProjectFromFile" -> "file"
    [] task.op = "importProject" -> "rename"
    [] OTHER -> "ok"

(* The rest of Project.activate, updateTimeStamp included, and              *)
(* confirmProject: the project replaces whatever was loaded, unclosed.      *)
Confirm ==
  /\ At("confirm")
  /\ \/ /\ current' = [dir |-> task.dst, label |-> disk[task.dst].label,
                       kind |-> disk[task.dst].kind, mem |-> disk[task.dst].saved]
        /\ Goto(AfterConfirm)
     \/ "plugin" \in Faults /\ Goto(AfterFailure) /\ UNCHANGED current
  /\ UNCHANGED <<disk, archive>>

-----------------------------------------------------------------------------
(* Deletion, on request or to recover from a failed creation                *)

EraseAnswer == IF task.op = "deleteProject" THEN "ok" ELSE "exc"

Erase ==
  /\ At("erase")
  /\ \/ /\ disk[task.dst] = NoDir \/ IsLoadedName(task.dst)
        /\ Goto("exc")
        /\ UNCHANGED disk
     \/ /\ disk[task.dst] # NoDir /\ ~IsLoadedName(task.dst)
        /\ \/ SetDir(task.dst, NoDir) /\ Goto(EraseAnswer)
           \/ /\ "io" \in Faults
              /\ \E r \in Remains(disk[task.dst]) : SetDir(task.dst, r)
              /\ Goto("exc")
  /\ UNCHANGED <<current, archive>>

-----------------------------------------------------------------------------
(* Saving                                                                   *)

Save ==
  /\ At("write")
  /\ \/ /\ disk[task.dst] # NoDir
        /\ SetDir(task.dst, [disk[task.dst] EXCEPT !.saved = current.mem])
        /\ Goto("ok")
     \/ disk[task.dst] = NoDir /\ Goto("exc") /\ UNCHANGED disk
  /\ UNCHANGED <<current, archive>>

(* Project.setProperty and its siblings rewrite project.info from memory.   *)
SetProperty ==
  /\ At("property")
  /\ \/ /\ disk[task.dst] # NoDir
        /\ SetDir(task.dst, [disk[task.dst] EXCEPT !.files = @ \cup {"info"},
                                                   !.label = current.label])
        /\ Goto("ok")
     \/ disk[task.dst] = NoDir /\ Goto("exc") /\ UNCHANGED disk
  /\ UNCHANGED <<current, archive>>

(* saveProjectAs closes the loaded project before it copies its directory.  *)
SaveAsClose ==
  /\ At("close")
  /\ \/ disk[task.dst] # NoDir /\ Goto("fail") /\ UNCHANGED current
     \/ /\ disk[task.dst] = NoDir
        /\ \/ current' = NoProject /\ Goto("copy")
           \/ "close" \in Faults /\ Goto("exc") /\ UNCHANGED current
  /\ UNCHANGED <<disk, archive>>

-----------------------------------------------------------------------------
(* cloneProjectToNewProject                                                 *)

CanCopy == disk[task.src] # NoDir /\ disk[task.dst] = NoDir

MutCopyWithoutStore ==
  /\ At("copy")
  /\ \/ /\ CanCopy
        /\ SetDir(task.dst, [disk[task.src] EXCEPT !.files = @ \ {"store"}])
        /\ Goto("label")
     \/ ~CanCopy /\ Goto("exc") /\ UNCHANGED disk
  /\ UNCHANGED <<current, archive>>

MutCopyMoves ==
  /\ At("copy")
  /\ \/ /\ CanCopy
        /\ disk' = [disk EXCEPT ![task.dst] = disk[task.src], ![task.src] = NoDir]
        /\ Goto("label")
     \/ ~CanCopy /\ Goto("exc") /\ UNCHANGED disk
  /\ UNCHANGED <<current, archive>>

Copy ==
  /\ At("copy")
  /\ \/ CanCopy /\ SetDir(task.dst, disk[task.src]) /\ Goto("label")
     \/ ~CanCopy /\ Goto("exc") /\ UNCHANGED disk
  /\ UNCHANGED <<current, archive>>

MutLabelSource ==
  /\ At("label")
  /\ SetDir(task.src, [disk[task.src] EXCEPT !.label = task.dst])
  /\ Goto(IF task.op = "saveProjectAs" THEN "describe" ELSE "ok")
  /\ UNCHANGED <<current, archive>>

MutLabelForgotten ==
  /\ At("label")
  /\ Goto(IF task.op = "saveProjectAs" THEN "describe" ELSE "ok")
  /\ UNCHANGED <<disk, current, archive>>

(* The copy gets its own name in a second write; a source whose info is     *)
(* missing fails here, one whose info is blank goes on.                     *)
Label ==
  LET hasInfo == "info" \in disk[task.dst].files
      next == IF task.op = "saveProjectAs" THEN "describe" ELSE "ok"
  IN
  /\ At("label")
  /\ \/ /\ hasInfo
        /\ SetDir(task.dst, [disk[task.dst] EXCEPT !.label = task.dst])
        /\ Goto(next)
     \/ /\ ~hasInfo
        /\ \E p \in {"exc", next} : Goto(p)
        /\ UNCHANGED disk
  /\ UNCHANGED <<current, archive>>

-----------------------------------------------------------------------------
(* importProject                                                            *)

MutUnpacked == [files |-> Files, label |-> NoDir,
                kind |-> archive.kind, saved |-> Empty]

Unpacked == [files |-> Files, label |-> archive.label,
             kind |-> archive.kind, saved |-> Empty]

Unpack ==
  /\ At("unpack")
  /\ \/ disk[task.dst] # NoDir /\ Goto("fail") /\ UNCHANGED disk
     \/ /\ disk[task.dst] = NoDir
        /\ SetDir(task.dst, Unpacked)
        /\ Goto("describe")
  /\ UNCHANGED <<current, archive>>

MutRename ==
  /\ At("rename")
  /\ current' = [current EXCEPT !.label = task.dst]
  /\ Goto("data")
  /\ UNCHANGED <<disk, archive>>

(* setName, on the project that is already the current one.                 *)
Rename ==
  /\ At("rename")
  /\ current' = [current EXCEPT !.label = task.dst]
  /\ SetDir(task.dst, [disk[task.dst] EXCEPT !.label = task.dst])
  /\ Goto("data")
  /\ UNCHANGED archive

LoadData ==
  /\ At("data")
  /\ \/ WriteModel(archive.content) /\ Goto("ok")
     \/ "load" \in Faults /\ Goto("exc") /\ UNCHANGED <<disk, current>>
  /\ UNCHANGED archive

-----------------------------------------------------------------------------
(* Requests served in one step; those that are refused change nothing.      *)

CloseProject ==
  /\ task = NoTask
  /\ current # NoProject
  /\ current' = NoProject
  /\ UNCHANGED <<disk, archive, task>>

(* The info file is copied as it is on the disk, the content as in memory.  *)
ExportProject ==
  /\ task = NoTask
  /\ current # NoProject
  /\ disk[current.dir] # NoDir
  /\ {"info", "config"} \subseteq disk[current.dir].files
  /\ \/ archive' = [label |-> disk[current.dir].label,
                    kind |-> disk[current.dir].kind, content |-> current.mem]
     \/ "io" \in Faults /\ archive' = NoArchive
  /\ UNCHANGED <<disk, current, task>>

RepairProject ==
  /\ task = NoTask
  /\ \E n \in Names :
       /\ disk[n] # NoDir
       /\ "info" \in disk[n].files
       /\ SetDir(n, [disk[n] EXCEPT !.files = @ \cup {"config"}])
  /\ UNCHANGED <<current, archive, task>>

(* Any other service that changes the ontology of the loaded project.       *)
Edit ==
  /\ task = NoTask
  /\ current # NoProject
  /\ \E c \in Contents \ {Partial} : WriteModel(c)
  /\ UNCHANGED <<archive, task>>

-----------------------------------------------------------------------------
(* Failures *)

(* What the step in progress may leave in task.dst if it is cut short.      *)
Torn ==
  CASE task.pc = "erase" /\ disk[task.dst] # NoDir /\ ~IsLoadedName(task.dst)
         -> Remains(disk[task.dst])
    [] task.pc = "load" /\ LoadMayFail -> Remains(disk[task.dst])
    [] task.pc = "copy" /\ CanCopy -> Fragments(disk[task.src])
    [] task.pc = "unpack" /\ disk[task.dst] = NoDir
         -> {[Unpacked EXCEPT !.files = F] : F \in {{}, {"info"}, {"info", "config"}}}
    [] task.pc = "label" -> {WithoutInfo(disk[task.dst])}
    [] task.pc \in {"confirm", "rename", "property"} /\ disk[task.dst] # NoDir
         -> {WithoutInfo(disk[task.dst])}
    [] task.pc = "write" /\ disk[task.dst] # NoDir
         -> {[disk[task.dst] EXCEPT !.saved = Partial]}
    [] OTHER -> {}

WritingPcs == {"confirm", "copy", "label", "unpack", "rename", "property", "write"}

(* A write fails: the file stays as far as it got and the handler gives up; *)
(* setName has changed the label in memory by then.                         *)
IOError ==
  /\ "io" \in Faults
  /\ task # NoTask
  /\ task.pc \in WritingPcs
  /\ \E d \in Torn : SetDir(task.dst, d)
  /\ Goto(AfterFailure)
  /\ current' = IF task.pc = "rename" THEN [current EXCEPT !.label = task.dst]
                                      ELSE current
  /\ UNCHANGED archive

Crash ==
  /\ "crash" \in Faults
  /\ \/ UNCHANGED disk
     \/ task # NoTask /\ \E d \in Torn : SetDir(task.dst, d)
  /\ current' = NoProject
  /\ task' = NoTask
  /\ UNCHANGED archive

-----------------------------------------------------------------------------
Next ==
  \/ Request \/ Answer
  \/ Prepare \/ WriteInfo \/ WriteConfig \/ LoadFile
  \/ Describe \/ LoadFails \/ LoadTriples \/ Confirm
  \/ Erase \/ Save \/ SetProperty \/ SaveAsClose
  \/ Copy \/ Label \/ Unpack \/ Rename \/ LoadData
  \/ CloseProject \/ ExportProject \/ RepairProject \/ Edit
  \/ IOError \/ Crash

Spec == Init /\ [][Next]_vars
-----------------------------------------------------------------------------
(* Properties *)

Answered(o, a) == task # NoTask /\ task.op = o /\ task.pc = a

(* Whatever fails and whenever the server stops, a request changes no       *)
(* project directory but the one it is about: the target of a creation, an  *)
(* opening, a deletion, a copy or an import, or the directory of the loaded *)
(* project.  In particular a copy never harms its source.                   *)
OthersUntouched ==
  task # NoTask =>
    \A n \in Names \ {task.dst} : disk[n] = task.pre.disk[n]

(* An answer tells the truth about the whole shelf.  "ok" never hides a     *)
(* loss: unless the request was to delete it, every project that could be   *)
(* described before it can be described after.  And a request answered      *)
(* "fail" (the name is taken) had no effect at all; in particular           *)
(* saveProjectAs has not yet closed the loaded project.                     *)
OkLosesNothing ==
  task.pc = "ok" /\ task.op # "deleteProject" =>
    \A n \in Names :
      task.pre.disk[n] # NoDir => /\ disk[n] # NoDir
                                  /\ task.pre.disk[n].files \subseteq disk[n].files

FailChangesNothing ==
  task.pc = "fail" => disk = task.pre.disk /\ current = task.pre.current

(* openProject answered "ok": the loaded project is the one asked for, with *)
(* the content last saved under that name.                                  *)
OpenShowsWhatWasSaved ==
  task.op = "openProject" /\ task.pc = "ok" =>
    /\ current # NoProject /\ current.dir = task.dst
    /\ disk = task.pre.disk
    /\ current.mem = task.pre.disk[task.dst].saved

(* saveProject answered "ok": closing or crashing now loses nothing.        *)
SaveIsDurable ==
  task.op = "saveProject" /\ task.pc = "ok" =>
    /\ disk[current.dir] # NoDir
    /\ disk[current.dir].saved = task.pre.current.mem

AnswersAreTrue ==
  task # NoTask => /\ OkLosesNothing /\ FailChangesNothing
                   /\ OpenShowsWhatWasSaved /\ SaveIsDurable

(* cloneProject and saveProjectAs answered "ok": the new directory holds    *)
(* what the source's directory held, under its own name; after saveProjectAs*)
(* it is the loaded project.                                                *)
CopiesAreFaithful ==
  /\ Answered("cloneProject", "ok") =>
       /\ disk[task.dst] = [task.pre.disk[task.src] EXCEPT
                              !.label = disk[task.dst].label]
       /\ "info" \in disk[task.dst].files => disk[task.dst].label = task.dst
       /\ current = task.pre.current
  /\ Answered("saveProjectAs", "ok") =>
       /\ current # NoProject
       /\ current.dir = task.dst /\ current.label = task.dst
       /\ current.mem = task.pre.disk[task.src].saved

(* importProject answered "ok": whatever name the archive was exported      *)
(* under, the project is loaded under its new name, with the exported       *)
(* content.                                                                 *)
ImportRestoresExport ==
  Answered("importProject", "ok") =>
    /\ task.pre.disk[task.dst] = NoDir
    /\ disk[task.dst].label = task.dst
    /\ current = [dir |-> task.dst, label |-> task.dst, kind |-> archive.kind,
                  mem |-> archive.content]

(***************************************************************************)
(* The rest of the service relies on a project's label being the name of   *)
(* its directory.  It is while no write fails, no plugin is missing and    *)
(* the server does not stop inside a handler.                              *)
(***************************************************************************)
Quiet == Faults \subseteq {"load", "close"}

(* The directory n is being copied or unpacked and has its old label still. *)
Relabelling(n) ==
  /\ task # NoTask /\ task.dst = n
  /\ \/ task.pc = "label"
     \/ task.op = "importProject" /\ task.pc \in {"describe", "load", "confirm", "rename"}

(* Outside the relabelling window every directory carries its own name, and *)
(* the loaded project the name of its directory.                            *)
LabelsMatch ==
  /\ \A n \in Names : disk[n] # NoDir /\ ~Relabelling(n) => disk[n].label = n
  /\ current # NoProject /\ ~At("rename") => current.label = current.dir

(* No request leaves a project half built behind: between requests every    *)
(* directory has all its parts and a content that was completely written.   *)
NothingHalfBuilt ==
  task = NoTask =>
    \A n \in Names : disk[n] # NoDir => /\ disk[n].files = Files
                                        /\ disk[n].saved # Partial

(* deleteProject never removes the directory of the loaded project, not     *)
(* even on behalf of a creation that failed ("cannot delete a project while *)
(* it is loaded").                                                          *)
DeleteSparesLoaded ==
  [][ (task # NoTask /\ task.pc = "erase" /\ current # NoProject /\ current' = current)
        => disk'[current.dir] = disk[current.dir] ]_vars

(* A creation under a name in use does not touch the project that has it.   *)
DuplicateCreationIsHarmless ==
  task # NoTask /\ task.op = "newProject" /\ task.pc \in Answers =>
    \A n \in Names : task.pre.disk[n] # NoDir => disk[n] = task.pre.disk[n]

-----------------------------------------------------------------------------
(* Refinement *)

Shelf == INSTANCE ProjectShelf WITH
  None <- NoDir,
  shelf <- [n \in Names |-> IF disk[n] = NoDir THEN NoDir ELSE disk[n].saved],
  loaded <- IF current = NoProject THEN NoDir
            ELSE [name |-> current.dir, mem |-> current.mem]

(* While the environment does not fail, the handlers, with all their        *)
(* intermediate steps, are the atomic operations of a shelf of projects.    *)
ImplementsShelf == Shelf!Spec

=============================================================================
