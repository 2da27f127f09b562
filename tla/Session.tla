------------------------------ MODULE Session ------------------------------
(***************************************************************************)
(* The project session of the Firefox extension: the CurrentProject object *)
(* (ProjectST.jsm), the menu and tool bar of the browser window, which     *)
(* follow the projectOpened and projectClosed events, and the dialogs of   *)
(* projects/, which send requests to the server.  The server keeps a       *)
(* loaded project of its own (ProjectManager): nothing but these dialogs   *)
(* keeps the two in step.                                                  *)
(*                                                                         *)
(* Most commands close the current project, with a question about saving,  *)
(* before they send their request: a command is a task with three phases,  *)
(* and the server may be restarted between any two.                        *)
(***************************************************************************)
EXTENDS FiniteSets

CONSTANTS
  Name,       (* project names                                              *)
  NoName,     (* no project                                                 *)
  Scheme,     (* SKOS concept schemes                                       *)
  NoScheme,   (* the empty value of skos.selected_scheme                    *)
  Sort,       (* the sorts of projects that are created: kind and onto      *)
  Faults      (* which requests the server may answer with an exception     *)

VARIABLES
  disk,       (* the projects of the server                                 *)
  srv,        (* the project loaded by the server, and unsaved edits        *)
  ui,         (* CurrentProject                                             *)
  bar,        (* what the menu and the tool bar of the browser show         *)
  ears,       (* the events changeProjectObj still listens to               *)
  skos,       (* skosStateManagemenet: held once stEventArray is defined    *)
  rows,       (* the projects list, or NoList when its window is closed     *)
  started,    (* ST_started                                                 *)
  task,       (* the command in progress                                    *)
  waived,     (* history: the user gave up the unsaved edits                *)
  mishaps     (* history: what went wrong since a project was last opened   *)

vars == <<disk, srv, ui, bar, ears, skos, rows, started, task, waived, mishaps>>

Ontos == {"OWL", "SKOS"}
KindsOf == {"continuosEditing", "saveToStore"}
Project == [kind : KindsOf, onto : Ontos, scheme : Scheme \cup {NoScheme}, issue : BOOLEAN]
NoProject == [kind |-> "nullProject"]
NoList == [n \in {NoName} |-> FALSE]

FaultKinds == {"create", "open", "close", "save", "saveAs", "clone", "list", "restart"}
Mishaps == {"create", "taken", "close", "clone", "unloaded"}

Ops == {"openProject", "newProject", "newProjectFromFile", "importProject", "cloneProject"}
Idle == [op |-> "none"]

ASSUME SessionAssumption ==
  /\ Sort \subseteq [kind : KindsOf, onto : Ontos]
  /\ NoName \notin Name /\ NoScheme \notin Scheme
  /\ Faults \subseteq FaultKinds

Live == {n \in Name : disk[n] # NoProject}
IsNull == ui.kind = "nullProject"

(* A project that must be saved on request is open: the user is asked.     *)
MustAsk == ~IsNull /\ ui.kind # "continuosEditing"

Nobody == [name |-> NoName, kind |-> "nullProject", onto |-> "nullModel"]

Init ==
  /\ disk = [n \in Name |-> NoProject]
  /\ srv = [loaded |-> NoName, dirty |-> FALSE]
  /\ ui = Nobody
  /\ bar = [on |-> FALSE, title |-> NoName, skos |-> FALSE, drop |-> FALSE]
  /\ ears = {"projectOpened", "projectClosed"}
  /\ skos = [held |-> FALSE, listening |-> FALSE, scheme |-> NoScheme]
  /\ rows = NoList
  /\ started = FALSE
  /\ task = Idle
  /\ waived = FALSE
  /\ mishaps = {}

-----------------------------------------------------------------------------
(***************************************************************************)
(* Definitions named Mut... are plausible mistakes.  No action uses them:  *)
(* a property is broken when one takes the place of its namesake.           *)
(*                                                                         *)
(* The events.  A listener that throws is dropped for good by the event    *)
(* manager (stEvtMgr.jsm), and the others are still called.                *)
(***************************************************************************)

Attached(s) == [held |-> TRUE, listening |-> TRUE, scheme |-> s]

(* changeProjectObj reads the type of the opened project: an undefined     *)
(* type, or no answer to the request for the selected scheme, ends it in   *)
(* an exception after the controls were enabled.                            *)
ChangeProjectOpened(n, onto) ==
  LET throws == onto = "undefined" \/ (onto = "SKOS" /\ srv'.loaded = NoName)
      skosShown == onto = "SKOS" \/ (onto = "undefined" /\ bar.skos)
  IN IF "projectOpened" \in ears
     THEN /\ bar' = [on |-> TRUE, title |-> n, skos |-> skosShown, drop |-> TRUE]
          /\ ears' = IF throws THEN ears \ {"projectOpened"} ELSE ears
          /\ skos' = CASE onto # "SKOS" -> skos
                       [] onto = "SKOS" /\ throws -> [skos EXCEPT !.listening = FALSE]
                       [] OTHER -> Attached(disk'[srv'.loaded].scheme)
     ELSE /\ bar' = [bar EXCEPT !.drop = TRUE]
          /\ UNCHANGED <<ears, skos>>

(* Listeners of an earlier SKOS project are taken off with a method their  *)
(* holder does not have: the exception drops the listener of projectClosed.*)
ChangeProjectClosed ==
  IF "projectClosed" \in ears
  THEN /\ bar' = [bar EXCEPT !.on = FALSE, !.title = NoName, !.drop = FALSE]
       /\ ears' = IF skos.held THEN ears \ {"projectClosed"} ELSE ears
  ELSE /\ bar' = [bar EXCEPT !.drop = FALSE]
       /\ UNCHANGED ears

SetCurrentProject(n, kind, onto) ==
  ui' = [name |-> n, kind |-> kind, onto |-> IF onto = "undefined" THEN "OWL" ELSE onto]

(* A project is announced as the current one.                               *)
Announce(n, kind, onto) ==
  /\ SetCurrentProject(n, kind, onto)
  /\ ChangeProjectOpened(n, onto)
  /\ mishaps' = IF srv'.loaded = n THEN {} ELSE (mishaps \ {"create"}) \cup {"taken"}

-----------------------------------------------------------------------------
(***************************************************************************)
(* Starting and leaving Firefox.  The server is another process.           *)
(***************************************************************************)
ListProjects ==
  \/ rows' = [n \in Live |-> disk[n].issue]
  \/ "list" \in Faults /\ rows' = [n \in {} |-> FALSE]

MutStartST ==
  /\ task = Idle /\ ~started
  /\ started' = TRUE
  /\ IF srv.loaded # NoName
     THEN /\ UNCHANGED <<disk, srv, rows>>
          /\ Announce(srv.loaded, "continuosEditing", disk[srv.loaded].onto)
     ELSE ListProjects /\ UNCHANGED <<disk, srv, ui, bar, ears, skos, mishaps>>
  /\ UNCHANGED <<task, waived>>

(* A project the server has loaded becomes the current one; otherwise the  *)
(* window of the projects is opened, whatever the preference for a default *)
(* project says.                                                            *)
StartST ==
  /\ task = Idle /\ ~started
  /\ started' = TRUE
  /\ IF srv.loaded # NoName
     THEN /\ UNCHANGED <<disk, srv, rows>>
          /\ Announce(srv.loaded, disk[srv.loaded].kind, disk[srv.loaded].onto)
     ELSE ListProjects /\ UNCHANGED <<disk, srv, ui, bar, ears, skos, mishaps>>
  /\ UNCHANGED <<task, waived>>

SaveRequest ==
  IF srv.loaded # NoName /\ disk[srv.loaded].kind = "saveToStore"
  THEN \/ srv' = [srv EXCEPT !.dirty = FALSE]
       \/ "save" \in Faults /\ srv' = srv
  ELSE srv' = srv

(* The observers ask whether to save, and the browser goes away with all   *)
(* that the extension remembers.                                            *)
FirefoxClosed ==
  /\ task = Idle /\ rows = NoList /\ started
  /\ IF MustAsk THEN SaveRequest ELSE srv' = srv
  /\ ui' = Nobody
  /\ bar' = [on |-> FALSE, title |-> NoName, skos |-> FALSE, drop |-> FALSE]
  /\ ears' = {"projectOpened", "projectClosed"}
  /\ skos' = [held |-> FALSE, listening |-> FALSE, scheme |-> NoScheme]
  /\ started' = FALSE
  /\ UNCHANGED <<disk, rows, task, waived, mishaps>>

(* The server is stopped and started again.                                 *)
ServerRestart ==
  /\ "restart" \in Faults /\ srv.loaded # NoName
  /\ srv' = [loaded |-> NoName, dirty |-> FALSE]
  /\ mishaps' = mishaps \cup {"unloaded"}
  /\ UNCHANGED <<disk, ui, bar, ears, skos, rows, started, task, waived>>

-----------------------------------------------------------------------------
(***************************************************************************)
(* The window of the projects (manageProjects.js).                         *)
(***************************************************************************)
ManageAllProjects ==
  /\ task = Idle /\ started /\ rows = NoList
  /\ ListProjects
  /\ UNCHANGED <<disk, srv, ui, bar, ears, skos, started, task, waived, mishaps>>

ProperClose ==
  /\ task = Idle /\ rows # NoList
  /\ rows' = NoList
  /\ mishaps' = mishaps \ {"create"}
  /\ UNCHANGED <<disk, srv, ui, bar, ears, skos, started, task, waived>>

(* What the pop-up menu of a row offers.                                    *)
Offered(n) == IF rows[n] THEN {"deleteProject", "fixProject"}
              ELSE {"openProject", "deleteProject", "cloneProject"}

(* Only CurrentProject is compared with the row; the server refuses to     *)
(* delete the project it has loaded.                            *)
DeleteProject(n) ==
  /\ task = Idle /\ rows # NoList /\ n \in DOMAIN rows
  /\ n # ui.name
  /\ n \in Live /\ srv.loaded # n
  /\ disk' = [disk EXCEPT ![n] = NoProject]
  /\ rows' = [m \in Live \ {n} |-> disk[m].issue]
  /\ UNCHANGED <<srv, ui, bar, ears, skos, started, task, waived, mishaps>>

MutTryRepairProject(n) ==
  /\ task = Idle /\ rows # NoList /\ n \in DOMAIN rows /\ rows[n]
  /\ n \in Live
  /\ disk' = [disk EXCEPT ![n].issue = FALSE]
  /\ UNCHANGED <<srv, ui, bar, ears, skos, rows, started, task, waived, mishaps>>

(* A repaired project has its row drawn again.                              *)
TryRepairProject(n) ==
  /\ task = Idle /\ rows # NoList /\ n \in DOMAIN rows /\ "fixProject" \in Offered(n)
  /\ n \in Live
  /\ disk' = [disk EXCEPT ![n].issue = FALSE]
  /\ rows' = [m \in Live |-> disk'[m].issue]
  /\ UNCHANGED <<srv, ui, bar, ears, skos, started, task, waived, mishaps>>

(***************************************************************************)
(* closeProject (manageProjectsUtilities.js), the first phases of a task:  *)
(* the event, the question, and the request to close.                       *)
(***************************************************************************)
MutAfterClosing == "close"

AfterClosing == IF MustAsk THEN "ask" ELSE "close"

Begin(op, n, src) ==
  /\ task = Idle /\ rows # NoList
  /\ task' = [op |-> op, name |-> n, src |-> src, was |-> ui, pc |-> AfterClosing]
  /\ ChangeProjectClosed
  /\ UNCHANGED <<disk, srv, ui, skos, rows, started, waived, mishaps>>

OpenProject(n) ==
  /\ n \in DOMAIN rows /\ ~rows[n]
  /\ Begin("openProject", n, n)

(* What the dialog of a new project holds: a store with a configuration,   *)
(* which may have to be edited and have all its parameters given, and the  *)
(* other fields, filled well or not.                                        *)
Form == [store : BOOLEAN, editRequired : BOOLEAN, given : BOOLEAN, fields : BOOLEAN]
SaveConf(f) == f.given
Accepted(f) == f.store /\ (f.editRequired => SaveConf(f)) /\ f.fields

(* The sort that was chosen plays no part before the request.               *)
NewProject(n) ==
  /\ \E f \in Form : Accepted(f)
  /\ Begin("newProject", n, n)

NewProjectFromFile(n) ==
  /\ \E f \in Form : Accepted(f)
  /\ Begin("newProjectFromFile", n, n)

ImportProject(n) == Begin("importProject", n, n)

(* Only a clone of the current project closes it.                           *)
CloneProject(src, n) ==
  /\ src \in DOMAIN rows /\ "cloneProject" \in Offered(src)
  /\ \/ /\ src = ui.name
        /\ Begin("cloneProject", n, src)
     \/ /\ src # ui.name /\ task = Idle /\ rows # NoList
        /\ task' = [op |-> "cloneProject", name |-> n, src |-> src, was |-> ui,
                    pc |-> "serve"]
        /\ UNCHANGED <<disk, srv, ui, bar, ears, skos, rows, started, waived, mishaps>>

At(pc) == task # Idle /\ task.pc = pc
Goto(pc) == task' = [task EXCEPT !.pc = pc]

(* A save that fails is only reported: the project is closed all the same.  *)
SaveAnswer ==
  /\ At("ask")
  /\ \/ SaveRequest
     \/ srv' = srv
  /\ waived' = (waived \/ srv'.dirty)
  /\ Goto("close")
  /\ UNCHANGED <<disk, ui, bar, ears, skos, rows, started, mishaps>>

(* CurrentProject is reset before the request, and an exception swallowed.  *)
CloseRequest ==
  /\ At("close")
  /\ ui' = Nobody
  /\ \/ /\ srv' = [loaded |-> NoName, dirty |-> FALSE]
        /\ UNCHANGED mishaps
     \/ /\ "close" \in Faults /\ srv' = srv
        /\ mishaps' = mishaps \cup {"close"}
  /\ Goto("serve")
  /\ UNCHANGED <<disk, bar, ears, skos, rows, started, waived>>

-----------------------------------------------------------------------------
(***************************************************************************)
(* The last phase: the request itself.                                     *)
(***************************************************************************)
Serving(op) == At("serve") /\ task.op = op
Fresh(sort, scheme) ==
  [kind |-> sort.kind, onto |-> sort.onto, scheme |-> scheme, issue |-> FALSE]
Loads(n) == srv' = [loaded |-> n, dirty |-> FALSE] /\ waived' = FALSE

(* The loaded project is replaced by another, unclosed if need be.  A       *)
(* failing open closes the window.                                          *)
OpenRequest ==
  /\ Serving("openProject")
  /\ task' = Idle /\ rows' = NoList
  /\ \/ /\ task.name \in Live
        /\ Loads(task.name)
        /\ UNCHANGED disk
        /\ Announce(task.name, disk[task.name].kind, disk[task.name].onto)
     \/ /\ task.name \notin Live \/ "open" \in Faults
        /\ UNCHANGED <<disk, srv, ui, bar, ears, skos, waived, mishaps>>
  /\ UNCHANGED started

(* A failed creation is cleaned up by deleting the project of that name,   *)
(* even one that was there before: only a loaded project is spared.         *)
CreationFails ==
  /\ task.name \in Live \/ "create" \in Faults
  /\ disk' = IF srv.loaded = task.name THEN disk ELSE [disk EXCEPT ![task.name] = NoProject]
  /\ mishaps' = mishaps \cup {"create"}
  /\ UNCHANGED <<srv, ui, bar, ears, skos, rows, waived>>

NewRequest ==
  /\ Serving("newProject")
  /\ task' = Idle
  /\ \/ /\ task.name \notin Live
        /\ rows' = NoList
        /\ Loads(task.name)
        /\ \E sort \in Sort :
             /\ disk' = [disk EXCEPT ![task.name] = Fresh(sort, NoScheme)]
             /\ Announce(task.name, sort.kind, sort.onto)
     \/ CreationFails
  /\ UNCHANGED started

(* The server makes an OWL project whatever was chosen; the event is fired  *)
(* without a type.                                                          *)
NewFromFileRequest ==
  /\ Serving("newProjectFromFile")
  /\ task' = Idle
  /\ \/ /\ task.name \notin Live
        /\ rows' = NoList
        /\ Loads(task.name)
        /\ \E sort \in Sort :
             /\ disk' = [disk EXCEPT ![task.name] = Fresh([sort EXCEPT !.onto = "OWL"], NoScheme)]
             /\ Announce(task.name, sort.kind, "undefined")
     \/ CreationFails
  /\ UNCHANGED started

(* A name in use is answered with a failed reply, which is not looked at:  *)
(* the project that has the name becomes the current one, though it is not  *)
(* loaded.                                                                  *)
ImportTaken ==
  /\ task.name \in Live
  /\ UNCHANGED <<disk, srv, waived>>
  /\ rows' = NoList
  /\ Announce(task.name, disk[task.name].kind, disk[task.name].onto)

ImportRequest ==
  /\ Serving("importProject")
  /\ task' = Idle
  /\ \/ /\ task.name \notin Live
        /\ rows' = NoList
        /\ Loads(task.name)
        /\ \E sort \in Sort, s \in Scheme \cup {NoScheme} :
             /\ s # NoScheme => sort.onto = "SKOS"
             /\ disk' = [disk EXCEPT ![task.name] = Fresh(sort, s)]
             /\ Announce(task.name, sort.kind, sort.onto)
     \/ ImportTaken
     \/ /\ task.name \notin Live /\ "create" \in Faults
        /\ UNCHANGED <<disk, srv, ui, bar, ears, skos, rows, waived, mishaps>>
  /\ UNCHANGED started

(* The clone of the current project is followed by opening that again, of  *)
(* which the browser is told nothing.  The list is read again if the clone  *)
(* was made.                                                                *)
Reopen ==
  \/ /\ task.src \in Live
     /\ Loads(task.src)
     /\ ui' = task.was
     /\ mishaps' = mishaps \cup {"clone"}
  \/ /\ task.src \notin Live \/ "open" \in Faults
     /\ mishaps' = mishaps \cup {"clone"}
     /\ UNCHANGED <<srv, ui, waived>>

CloneRequest ==
  LET made == task.src \in Live /\ task.name \notin Live IN
  /\ Serving("cloneProject")
  /\ task' = Idle
  /\ \/ /\ made
        /\ disk' = [disk EXCEPT ![task.name] = disk[task.src]]
        /\ rows' = [m \in Live \cup {task.name} |-> disk'[m].issue]
     \/ /\ ~made \/ "clone" \in Faults
        /\ UNCHANGED <<disk, rows>>
  /\ IF task.src = task.was.name THEN Reopen ELSE UNCHANGED <<srv, ui, waived, mishaps>>
  /\ UNCHANGED <<bar, ears, skos, started>>

-----------------------------------------------------------------------------
(***************************************************************************)
(* The menu of the browser, usable while no window of projects is open.    *)
(***************************************************************************)
Menu == task = Idle /\ rows = NoList /\ started

(* The item is disabled for a project that is saved continuously.           *)
SaveProject ==
  /\ Menu /\ ui.kind # "continuosEditing"
  /\ SaveRequest
  /\ UNCHANGED <<disk, ui, bar, ears, skos, rows, started, task, waived, mishaps>>

(* The name shown in titles and labels follows the event.                   *)
ProjectChangedName(n) ==
  /\ ui' = [ui EXCEPT !.name = n]
  /\ bar' = [bar EXCEPT !.title = n]

(* The server closes the project, copies its directory and opens the copy.  *)
(* A failure after the closing leaves nothing loaded: the attempt to open   *)
(* the old project again ends in an exception.                              *)
SaveAsProject(n) ==
  /\ Menu /\ bar.on
  /\ \/ /\ srv.loaded # NoName /\ n \notin Live
        /\ disk' = [disk EXCEPT ![n] = disk[srv.loaded]]
        /\ srv' = [loaded |-> n, dirty |-> FALSE]
        /\ ProjectChangedName(n)
        /\ UNCHANGED mishaps
     \/ /\ srv.loaded # NoName /\ n \notin Live /\ "saveAs" \in Faults
        /\ srv' = [loaded |-> NoName, dirty |-> FALSE]
        /\ mishaps' = mishaps \cup {"unloaded"}
        /\ UNCHANGED <<disk, ui, bar>>
  /\ UNCHANGED <<ears, skos, rows, started, task, waived>>

(* Something changes the ontology, or an outside program a project file.    *)
Edit ==
  /\ Menu /\ bar.on /\ srv.loaded # NoName
  /\ disk[srv.loaded].kind = "saveToStore"
  /\ srv' = [srv EXCEPT !.dirty = TRUE]
  /\ waived' = FALSE
  /\ UNCHANGED <<disk, ui, bar, ears, skos, rows, started, task, mishaps>>

Damage ==
  /\ Menu /\ srv.loaded = NoName /\ \A n \in Live : ~disk[n].issue
  /\ \E n \in Live : disk' = [disk EXCEPT ![n].issue = TRUE]
  /\ UNCHANGED <<srv, ui, bar, ears, skos, rows, started, task, waived, mishaps>>

(***************************************************************************)
(* The selected scheme is a property of the loaded project; its copy in    *)
(* the browser follows the events the extension fires itself.              *)
(***************************************************************************)
SetProjectProperty(s) ==
  /\ disk' = [disk EXCEPT ![srv.loaded].scheme = s]
  /\ skos' = IF skos.listening THEN [skos EXCEPT !.scheme = s] ELSE skos
  /\ UNCHANGED <<srv, ui, bar, ears, rows, started, task, waived, mishaps>>

SelectScheme(s) ==
  /\ Menu /\ bar.on /\ bar.skos /\ srv.loaded # NoName
  /\ disk[srv.loaded].onto = "SKOS"
  /\ SetProjectProperty(s)

(* A resource s is renamed, or a scheme s removed: the listeners compare s  *)
(* with their copy.                                                         *)
MutSchemeRenamed(s, to) ==
  /\ Menu /\ bar.on /\ srv.loaded # NoName
  /\ skos.listening /\ skos.scheme = s
  /\ disk' = [disk EXCEPT ![srv.loaded].scheme = to]
  /\ UNCHANGED <<skos, srv, ui, bar, ears, rows, started, task, waived, mishaps>>

SchemeRenamed(s, to) ==
  /\ Menu /\ bar.on /\ srv.loaded # NoName
  /\ skos.listening /\ skos.scheme = s
  /\ SetProjectProperty(to)

SchemeRemoved(s) == SchemeRenamed(s, NoScheme)

Next ==
  \/ StartST \/ FirefoxClosed \/ ServerRestart
  \/ ManageAllProjects \/ ProperClose
  \/ \E n \in Name :
       \/ DeleteProject(n) \/ TryRepairProject(n)
       \/ OpenProject(n) \/ NewProject(n) \/ NewProjectFromFile(n) \/ ImportProject(n)
       \/ \E m \in Name : CloneProject(n, m)
       \/ SaveAsProject(n)
  \/ SaveAnswer \/ CloseRequest
  \/ OpenRequest \/ NewRequest \/ NewFromFileRequest \/ ImportRequest \/ CloneRequest
  \/ SaveProject \/ Edit \/ Damage
  \/ \E s \in Scheme : SelectScheme(s) \/ SchemeRemoved(s) \/ \E to \in Scheme : SchemeRenamed(s, to)

Spec == Init /\ [][Next]_vars

-----------------------------------------------------------------------------
(***************************************************************************)
(* Properties                                                              *)
(***************************************************************************)

TypeOK ==
  /\ disk \in [Name -> Project \cup {NoProject}]
  /\ srv.loaded \in Live \cup {NoName} /\ srv.dirty \in BOOLEAN
  /\ ui \in [name : Name \cup {NoName}, kind : KindsOf \cup {"nullProject"},
             onto : Ontos \cup {"nullModel"}]
  /\ bar \in [on : BOOLEAN, title : Name \cup {NoName}, skos : BOOLEAN, drop : BOOLEAN]
  /\ ears \subseteq {"projectOpened", "projectClosed"}
  /\ skos \in [held : BOOLEAN, listening : BOOLEAN, scheme : Scheme \cup {NoScheme}]
  /\ rows = NoList \/ DOMAIN rows \subseteq Name
  /\ started \in BOOLEAN /\ waived \in BOOLEAN
  /\ mishaps \subseteq Mishaps

(* The extension and the server agree on the project that is open, and on  *)
(* how it is saved, whatever commands and failures came before: only three *)
(* kinds of failure part them, until a project is next opened.             *)
InStep ==
  task = Idle /\ ~IsNull /\ mishaps \cap {"taken", "unloaded"} = {} =>
    /\ srv.loaded = ui.name
    /\ disk[ui.name].kind = ui.kind

(* A command makes the server drop unsaved edits only when the user was    *)
(* asked and did not save them, or the save failed, unless the extension    *)
(* and the server had been parted before.                                   *)
UnsavedIsAsked ==
  [][ task' # task /\ srv.dirty /\ srv'.loaded # srv.loaded =>
        waived \/ mishaps \cap {"taken", "close"} # {} ]_vars

(* The controls are enabled, and carry the name, exactly while a project   *)
(* is open; so it is as long as the listener of the browser hears both      *)
(* events, but for a project that was cloned.                               *)
ControlsFollowProject ==
  task = Idle /\ ears = {"projectOpened", "projectClosed"} /\ "clone" \notin mishaps =>
    /\ bar.on = ~IsNull
    /\ bar.title = ui.name
    /\ bar.drop = ~IsNull
    /\ ~IsNull => bar.skos = (ui.onto = "SKOS")

(* What the user sees of the session, and what the server does: both hold  *)
(* of the same project.                                                    *)
SessionIsSound == TypeOK /\ InStep /\ ControlsFollowProject

(* The scheme the browser takes for the selected one, and whose renaming   *)
(* it writes into the project, is the one of the loaded SKOS project,      *)
(* across openings, closings, clones and copies of several projects.       *)
SchemeIsTheProjects ==
  /\ task = Idle /\ ~IsNull /\ srv.loaded = ui.name
  /\ disk[ui.name].onto = "SKOS"
  /\ "projectOpened" \in ears /\ "taken" \notin mishaps
  => skos.listening /\ skos.scheme = disk[ui.name].scheme

(* The projects list shows what the server has, while the window is open;  *)
(* only a creation that failed in its dialog leaves it behind.              *)
ListIsCurrent ==
  rows # NoList /\ task = Idle /\ "create" \notin mishaps /\ "list" \notin Faults =>
    rows = [n \in Live |-> disk[n].issue]
=============================================================================
