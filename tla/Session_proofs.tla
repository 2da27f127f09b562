--------------------------- MODULE Session_proofs ---------------------------
(***************************************************************************)
(* The project session: the extension and the server stay in step, the     *)
(* browser knows the selected scheme, the list of projects is current, and *)
(* unsaved edits are asked about, for any number of projects and schemes,  *)
(* every sort of project, and every set of faults.                         *)
(*                                                                         *)
(* The invariant follows a command through its phases.  Once a command has *)
(* closed the current project nothing is current (Phases), so what it was  *)
(* is known only from what the task keeps of it; a clone is to restore     *)
(* just that.  Hence what must be true of the current project is stated of *)
(* a record (Known), and holds both of the current project and of the      *)
(* one the task remembers.                                                 *)
(***************************************************************************)
EXTENDS Session, TLAPS

Uis == [name : Name \cup {NoName}, kind : KindsOf \cup {"nullProject"},
        onto : Ontos \cup {"nullModel"}]

Tasks == [op : Ops, name : Name, src : Name, was : Uis, pc : {"ask", "close", "serve"}]

Types ==
  /\ disk \in [Name -> Project \cup {NoProject}]
  /\ srv \in [loaded : Name \cup {NoName}, dirty : BOOLEAN]
  /\ ui \in Uis
  /\ bar \in [on : BOOLEAN, title : Name \cup {NoName}, skos : BOOLEAN, drop : BOOLEAN]
  /\ ears \subseteq {"projectOpened", "projectClosed"}
  /\ skos \in [held : BOOLEAN, listening : BOOLEAN, scheme : Scheme \cup {NoScheme}]
  /\ rows = NoList \/ DOMAIN rows \subseteq Name
  /\ started \in BOOLEAN /\ waived \in BOOLEAN
  /\ mishaps \subseteq Mishaps
  /\ task \in Tasks \cup {Idle}

(* What the server holds: a project of its disk; only a project that is    *)
(* saved on request can have unsaved edits.                                 *)
Holds ==
  /\ srv.loaded # NoName => srv.loaded \in Live
  /\ srv.dirty => srv.loaded # NoName /\ disk[srv.loaded].kind = "saveToStore"

(* A command runs in the window of the projects, of a browser that runs.    *)
Windows ==
  /\ rows # NoList => started
  /\ task # Idle => rows # NoList

(* A command closes the current project first, unless it clones another.    *)
Closing == task.op # "cloneProject" \/ task.src = task.was.name

Phases ==
  task # Idle =>
    /\ ~Closing => task.pc = "serve" /\ ui = task.was
    /\ Closing /\ task.pc = "serve" => ui = Nobody

Lapsed == mishaps \cap {"taken", "close"} # {}

(* What is true of a project the extension takes, or took, for current.     *)
Known(u) ==
  /\ u.name = NoName => u.kind = "nullProject"
  /\ u.kind = "nullProject" /\ u.name # NoName => Lapsed
  /\ u.kind # "nullProject" => u.name \in Live
  /\ u.kind # "nullProject" /\ "taken" \notin mishaps =>
       /\ disk[u.name].kind = u.kind
       /\ disk[u.name].onto = "SKOS" /\ "projectOpened" \in ears =>
            skos.listening /\ skos.scheme = disk[u.name].scheme

KnownUi == Known(ui)
KnownWas == task # Idle => Known(task.was)

(* The server has the current project loaded, or none after a restart.      *)
InTouch ==
  ~IsNull /\ "taken" \notin mishaps =>
    /\ srv.loaded \in {NoName, ui.name}
    /\ "unloaded" \notin mishaps => srv.loaded = ui.name

(* Nothing is loaded while nothing is current, and nothing is closed that   *)
(* has unsaved edits, unless something went wrong or the user said so.      *)
Asked ==
  /\ IsNull /\ started /\ srv.loaded # NoName => Lapsed
  /\ At("close") /\ srv.dirty => waived \/ Lapsed

Controls ==
  ears = {"projectOpened", "projectClosed"} =>
    IF task # Idle /\ Closing
    THEN ~bar.on /\ bar.title = NoName /\ ~bar.drop
    ELSE "clone" \notin mishaps =>
           /\ bar.on = ~IsNull
           /\ bar.title = ui.name
           /\ bar.drop = ~IsNull
           /\ ~IsNull => bar.skos = (ui.onto = "SKOS")

List ==
  rows # NoList /\ "create" \notin mishaps /\ "list" \notin Faults =>
    rows = [n \in Live |-> disk[n].issue]

IInv ==
  /\ Types /\ Holds /\ Windows /\ Phases
  /\ KnownUi /\ KnownWas /\ InTouch /\ Asked
  /\ Controls /\ List
-----------------------------------------------------------------------------
(***************************************************************************)
(* Records that differ, whatever the constants are.                        *)
(***************************************************************************)
LEMMA Apart ==
  /\ NoProject \notin Project
  /\ Idle \notin Tasks
  /\ Nobody \in Uis
BY DEF NoProject, Project, KindsOf, Idle, Tasks, Ops, Nobody, Uis

(* A task goes on to another phase: nothing else of it changes.             *)
LEMMA GoesOn ==
  ASSUME Types, task # Idle, NEW pc \in {"ask", "close", "serve"}, Goto(pc)
  PROVE  /\ task \in Tasks /\ task' \in Tasks /\ task' # Idle
         /\ task'.op = task.op /\ task'.name = task.name /\ task'.src = task.src
         /\ task'.was = task.was /\ task'.pc = pc
<1>1. task \in Tasks  BY DEF Types
<1>2. task' = [task EXCEPT !.pc = pc]  BY DEF Goto
<1>3. task' = [op |-> task.op, name |-> task.name, src |-> task.src, was |-> task.was, pc |-> pc]
  BY <1>1, <1>2 DEF Tasks
<1>4. task' \in Tasks  BY <1>1, <1>3 DEF Tasks
<1> QED  BY <1>1, <1>3, <1>4, Apart

LEMMA SaveRequestTypes ==
  ASSUME Types, SaveRequest
  PROVE  /\ srv' \in [loaded : Name \cup {NoName}, dirty : BOOLEAN]
         /\ srv'.loaded = srv.loaded
         /\ srv'.dirty => srv.dirty
<1> DEFINE Held == [loaded : Name \cup {NoName}, dirty : BOOLEAN]
<1>1. srv \in Held  BY DEF Types
<1>2. srv' = srv \/ srv' = [srv EXCEPT !.dirty = FALSE]  BY DEF SaveRequest
<1>3. \A s \in Held : /\ [s EXCEPT !.dirty = FALSE] \in Held
                      /\ [s EXCEPT !.dirty = FALSE].loaded = s.loaded
                      /\ [s EXCEPT !.dirty = FALSE].dirty = FALSE
  OBVIOUS
<1> HIDE DEF Held
<1>4. srv' \in Held /\ srv'.loaded = srv.loaded /\ (srv'.dirty => srv.dirty)
  BY <1>1, <1>2, <1>3
<1> QED  BY <1>4 DEF Held

(* What becomes of the controls when the listener for an event is gone.     *)
LEMMA DropSet ==
  ASSUME NEW drop \in BOOLEAN, NEW b \in [on : BOOLEAN, title : Name \cup {NoName}, skos : BOOLEAN, drop : BOOLEAN]
  PROVE  [b EXCEPT !.drop = drop] \in [on : BOOLEAN, title : Name \cup {NoName}, skos : BOOLEAN, drop : BOOLEAN]
OBVIOUS

LEMMA Closed ==
  ASSUME Types, ChangeProjectClosed
  PROVE  bar' \in [on : BOOLEAN, title : Name \cup {NoName}, skos : BOOLEAN, drop : BOOLEAN]
<1> DEFINE Bars == [on : BOOLEAN, title : Name \cup {NoName}, skos : BOOLEAN, drop : BOOLEAN]
<1>1. bar \in Bars  BY DEF Types
<1>2. \/ bar' = [bar EXCEPT !.on = FALSE, !.title = NoName, !.drop = FALSE]
      \/ bar' = [bar EXCEPT !.drop = FALSE]
  BY DEF ChangeProjectClosed
<1>3. \A b \in Bars : /\ [b EXCEPT !.on = FALSE, !.title = NoName, !.drop = FALSE] \in Bars
                      /\ [b EXCEPT !.drop = FALSE] \in Bars
  OBVIOUS
<1> HIDE DEF Bars
<1>4. bar' \in Bars  BY <1>1, <1>2, <1>3
<1> QED  BY <1>4 DEF Bars

(* A project that is written over in one of its properties.                 *)
LEMMA Amended ==
  ASSUME Types, NEW n \in Live, NEW p \in Project, disk' = [disk EXCEPT ![n] = p]
  PROVE  /\ disk' \in [Name -> Project \cup {NoProject}]
         /\ Live' = Live
BY Apart DEF Types, Live

LEMMA IssueIs ==
  ASSUME NEW p \in Project, NEW b \in BOOLEAN
  PROVE  [p EXCEPT !.issue = b] \in Project
BY DEF Project

LEMMA LiveProject ==
  ASSUME Types, NEW n \in Live
  PROVE  n \in Name /\ disk[n] \in Project
BY DEF Types, Live

(* What selecting, removing and renaming a scheme have in common.            *)
SchemeSet(s) ==
  /\ Menu /\ bar.on /\ srv.loaded # NoName
  /\ skos.listening \/ disk[srv.loaded].onto = "SKOS"
  /\ SetProjectProperty(s)

(* A command begins with the current project in its memory.                 *)
LEMMA Begun ==
  ASSUME Types, NEW op \in Ops, NEW n \in Name, NEW src \in Name, Begin(op, n, src),
         op # "cloneProject" \/ src = ui.name
  PROVE  /\ task = Idle /\ task' # Idle
         /\ task'.op = op /\ task'.name = n /\ task'.src = src /\ task'.was = ui
         /\ task'.pc \in {"ask", "close"}
BY DEF Begin, Idle, Ops, AfterClosing

-----------------------------------------------------------------------------
(***************************************************************************)
(* One lemma per action.  An action that leaves a part of the invariant's  *)
(* variables alone keeps that part by its definition; a step of its own    *)
(* says why where it does not.                                              *)
(***************************************************************************)
LEMMA FirefoxClosedKeeps ==
  ASSUME IInv, FirefoxClosed
  PROVE  IInv'
<1> USE SessionAssumption
<1>0. /\ Types /\ Holds /\ Windows /\ Phases /\ KnownUi /\ KnownWas
      /\ InTouch /\ Asked /\ Controls /\ List
  BY DEF IInv
<1>1. Types'
  <2>1. srv' \in [loaded : Name \cup {NoName}, dirty : BOOLEAN]
    <3>1. CASE SaveRequest  BY <1>0, <3>1, SaveRequestTypes
    <3>2. CASE srv' = srv  BY <1>0, <3>2 DEF Types
    <3> QED  BY <3>1, <3>2 DEF FirefoxClosed
  <2>2. bar' \in [on : BOOLEAN, title : Name \cup {NoName}, skos : BOOLEAN, drop : BOOLEAN]
    <3>1. bar' = [on |-> FALSE, title |-> NoName, skos |-> FALSE, drop |-> FALSE]  BY DEF FirefoxClosed
    <3> QED  BY <3>1
  <2>3. skos' \in [held : BOOLEAN, listening : BOOLEAN, scheme : Scheme \cup {NoScheme}]
    <3>1. skos' = [held |-> FALSE, listening |-> FALSE, scheme |-> NoScheme]  BY DEF FirefoxClosed
    <3> QED  BY <3>1
  <2>4. ui' \in Uis /\ ears' \subseteq {"projectOpened", "projectClosed"} /\ started' \in BOOLEAN
    BY Apart DEF FirefoxClosed
  <2>5. /\ disk' \in [Name -> Project \cup {NoProject}] /\ (rows' = NoList \/ DOMAIN rows' \subseteq Name)
        /\ waived' \in BOOLEAN /\ mishaps' \subseteq Mishaps /\ task' \in Tasks \cup {Idle}
    BY <1>0 DEF FirefoxClosed, Types
  <2> QED  BY <2>1, <2>2, <2>3, <2>4, <2>5 DEF Types
<1>2. Holds'
  BY <1>0 DEF Holds, Live, Types, FirefoxClosed, SaveRequest
<1>3. Windows'
  BY <1>0 DEF Windows, FirefoxClosed
<1>4. Phases'
  BY <1>0 DEF Phases, FirefoxClosed
<1>5. KnownUi'
  BY <1>0 DEF KnownUi, Known, Lapsed, Live, Types, Uis, Tasks, KindsOf, Idle, Nobody,
       FirefoxClosed, SaveRequest
<1>6. KnownWas'
  BY <1>0 DEF KnownWas, Known, FirefoxClosed
<1>7. InTouch'
  BY <1>0 DEF InTouch, IsNull, Types, Uis, Tasks, KindsOf, Idle, Nobody, FirefoxClosed,
       SaveRequest
<1>8. Asked'
  BY <1>0 DEF Asked, IsNull, Lapsed, At, FirefoxClosed
<1>9. Controls'
  BY <1>0 DEF Controls, Closing, IsNull, Types, Uis, Tasks, KindsOf, Idle, Nobody,
       FirefoxClosed, SaveRequest
<1>10. List'
  BY <1>0 DEF List, Live, NoList, FirefoxClosed, SaveRequest
<1> QED  BY <1>1, <1>2, <1>3, <1>4, <1>5, <1>6, <1>7, <1>8, <1>9, <1>10 DEF IInv

LEMMA ServerRestartKeeps ==
  ASSUME IInv, ServerRestart
  PROVE  IInv'
<1> USE SessionAssumption
<1>0. /\ Types /\ Holds /\ Windows /\ Phases /\ KnownUi /\ KnownWas
      /\ InTouch /\ Asked /\ Controls /\ List
  BY DEF IInv
<1>1. Types'
  BY <1>0 DEF Types, Uis, Tasks, Project, NoProject, Mishaps, KindsOf, Ontos, Live,
       ServerRestart
<1>2. Holds'
  BY <1>0 DEF Holds, ServerRestart
<1>3. Windows'
  BY <1>0 DEF Windows, ServerRestart
<1>4. Phases'
  BY <1>0 DEF Phases, Closing, ServerRestart
<1>5. KnownUi'
  BY <1>0 DEF KnownUi, Known, Lapsed, Live, ServerRestart
<1>6. KnownWas'
  BY <1>0 DEF KnownWas, Known, Lapsed, Live, ServerRestart
<1>7. InTouch'
  BY <1>0 DEF InTouch, ServerRestart
<1>8. Asked'
  BY <1>0 DEF Asked, ServerRestart
<1>9. Controls'
  BY <1>0 DEF Controls, Closing, IsNull, ServerRestart
<1>10. List'
  BY <1>0 DEF List, Live, NoList, ServerRestart
<1> QED  BY <1>1, <1>2, <1>3, <1>4, <1>5, <1>6, <1>7, <1>8, <1>9, <1>10 DEF IInv

LEMMA ManageAllProjectsKeeps ==
  ASSUME IInv, ManageAllProjects
  PROVE  IInv'
<1> USE SessionAssumption
<1>0. /\ Types /\ Holds /\ Windows /\ Phases /\ KnownUi /\ KnownWas
      /\ InTouch /\ Asked /\ Controls /\ List
  BY DEF IInv
<1>1. Types'
  BY <1>0 DEF Types, Uis, Tasks, Project, NoProject, Mishaps, KindsOf, Ontos, Live,
       ManageAllProjects, ListProjects
<1>2. Holds'
  BY <1>0 DEF Holds, Live, ManageAllProjects
<1>3. Windows'
  BY <1>0 DEF Windows, ManageAllProjects
<1>4. Phases'
  BY <1>0 DEF Phases, ManageAllProjects
<1>5. KnownUi'
  BY <1>0 DEF KnownUi, Known, Lapsed, Live, ManageAllProjects
<1>6. KnownWas'
  BY <1>0 DEF KnownWas, Known, ManageAllProjects
<1>7. InTouch'
  BY <1>0 DEF InTouch, IsNull, ManageAllProjects
<1>8. Asked'
  BY <1>0 DEF Asked, IsNull, Lapsed, At, ManageAllProjects
<1>9. Controls'
  BY <1>0 DEF Controls, Closing, IsNull, ManageAllProjects
<1>10. List'
  BY <1>0 DEF List, Live, NoList, ManageAllProjects, ListProjects
<1> QED  BY <1>1, <1>2, <1>3, <1>4, <1>5, <1>6, <1>7, <1>8, <1>9, <1>10 DEF IInv

LEMMA ProperCloseKeeps ==
  ASSUME IInv, ProperClose
  PROVE  IInv'
<1> USE SessionAssumption
<1>0. /\ Types /\ Holds /\ Windows /\ Phases /\ KnownUi /\ KnownWas
      /\ InTouch /\ Asked /\ Controls /\ List
  BY DEF IInv
<1>1. Types'
  BY <1>0 DEF Types, ProperClose
<1>2. Holds'
  BY <1>0 DEF Holds, Live, ProperClose
<1>3. Windows'
  BY <1>0 DEF Windows, ProperClose
<1>4. Phases'
  BY <1>0 DEF Phases, ProperClose
<1>5. KnownUi'
  BY <1>0 DEF KnownUi, Known, Lapsed, Live, ProperClose
<1>6. KnownWas'
  BY <1>0 DEF KnownWas, Known, ProperClose
<1>7. InTouch'
  BY <1>0 DEF InTouch, IsNull, ProperClose
<1>8. Asked'
  BY <1>0 DEF Asked, IsNull, Lapsed, At, ProperClose
<1>9. Controls'
  BY <1>0 DEF Controls, Closing, IsNull, ProperClose
<1>10. List'
  BY <1>0 DEF List, Live, NoList, ProperClose
<1> QED  BY <1>1, <1>2, <1>3, <1>4, <1>5, <1>6, <1>7, <1>8, <1>9, <1>10 DEF IInv

LEMMA SaveAnswerKeeps ==
  ASSUME IInv, SaveAnswer
  PROVE  IInv'
<1> USE SessionAssumption
<1>0. /\ Types /\ Holds /\ Windows /\ Phases /\ KnownUi /\ KnownWas
      /\ InTouch /\ Asked /\ Controls /\ List
  BY DEF IInv
<1>1. Types'
  <2>1. task # Idle /\ Goto("close")  BY DEF SaveAnswer, At
  <2>2. task' \in Tasks  BY <1>0, <2>1, GoesOn
  <2>3. srv' \in [loaded : Name \cup {NoName}, dirty : BOOLEAN]
    BY <1>0, SaveRequestTypes DEF SaveAnswer, Types
  <2> QED  BY <1>0, <2>2, <2>3 DEF Types, SaveAnswer
<1>2. Holds'
  BY <1>0 DEF Holds, Live, Types, SaveAnswer, SaveRequest, Goto
<1>3. Windows'
  BY <1>0 DEF Windows, Types, Uis, Tasks, KindsOf, Idle, Nobody, SaveAnswer, SaveRequest, Goto
<1>4. Phases'
  BY <1>0 DEF Phases, Closing, Types, Tasks, Idle, Nobody, SaveAnswer, SaveRequest, Goto, At
<1>5. KnownUi'
  BY <1>0 DEF KnownUi, Known, Lapsed, Live, SaveAnswer
<1>6. KnownWas'
  BY <1>0 DEF KnownWas, Known, Lapsed, Live, Types, Uis, Tasks, KindsOf, Idle, Nobody,
       SaveAnswer, SaveRequest, Goto
<1>7. InTouch'
  BY <1>0 DEF InTouch, IsNull, Types, SaveAnswer, SaveRequest, Goto
<1>8. Asked'
  BY <1>0 DEF Asked, IsNull, Lapsed, At, SaveAnswer, SaveRequest, Goto
<1>9. Controls'
  BY <1>0 DEF Controls, Closing, IsNull, Types, Uis, Tasks, KindsOf, Idle, Nobody,
       SaveAnswer, SaveRequest, Goto
<1>10. List'
  BY <1>0 DEF List, Live, NoList, SaveAnswer, SaveRequest, Goto
<1> QED  BY <1>1, <1>2, <1>3, <1>4, <1>5, <1>6, <1>7, <1>8, <1>9, <1>10 DEF IInv

LEMMA CloseRequestKeeps ==
  ASSUME IInv, CloseRequest
  PROVE  IInv'
<1> USE SessionAssumption
<1>0. /\ Types /\ Holds /\ Windows /\ Phases /\ KnownUi /\ KnownWas
      /\ InTouch /\ Asked /\ Controls /\ List
  BY DEF IInv
<1>1. Types'
  <2>1. task # Idle /\ Goto("serve")  BY DEF CloseRequest, At
  <2>2. task' \in Tasks  BY <1>0, <2>1, GoesOn
  <2>3. srv' \in [loaded : Name \cup {NoName}, dirty : BOOLEAN]
    <3>1. CASE srv' = srv  BY <1>0, <3>1 DEF Types
    <3>2. CASE srv' = [loaded |-> NoName, dirty |-> FALSE]  BY <3>2
    <3> QED  BY <3>1, <3>2 DEF CloseRequest
  <2>4. ui' \in Uis  BY Apart DEF CloseRequest
  <2>5. mishaps' \subseteq Mishaps  BY <1>0 DEF Types, CloseRequest, Mishaps
  <2>6. UNCHANGED <<disk, bar, ears, skos, rows, started, waived>>  BY DEF CloseRequest
  <2> QED  BY <1>0, <2>2, <2>3, <2>4, <2>5, <2>6 DEF Types
<1>2. Holds'
  BY <1>0 DEF Holds, Live, CloseRequest
<1>3. Windows'
  BY <1>0 DEF Windows, Types, Uis, Tasks, KindsOf, Idle, Nobody, CloseRequest, Goto
<1>4. Phases'
  BY <1>0 DEF Phases, Closing, Types, Tasks, Idle, Nobody, CloseRequest, Goto, At
<1>5. KnownUi'
  BY <1>0 DEF KnownUi, Known, Lapsed, Live, Types, Uis, Tasks, KindsOf, Idle, Nobody,
       CloseRequest, Goto
<1>6. KnownWas'
  BY <1>0 DEF KnownWas, Known, Lapsed, Live, Types, Uis, Tasks, KindsOf, Idle, Nobody,
       CloseRequest, Goto
<1>7. InTouch'
  BY <1>0 DEF InTouch, IsNull, Types, Uis, Tasks, KindsOf, Idle, Nobody, CloseRequest, Goto
<1>8. Asked'
  BY <1>0 DEF Asked, IsNull, Lapsed, At, CloseRequest
<1>9. Controls'
  <2>1. task # Idle /\ Goto("serve")  BY DEF CloseRequest, At
  <2>2. /\ task' # Idle /\ task'.op = task.op
        /\ task'.src = task.src /\ task'.was = task.was
    BY <1>0, <2>1, GoesOn
  <2>3. Closing /\ Closing'  BY <1>0, <2>1, <2>2 DEF Phases, Closing, CloseRequest, At
  <2> QED  BY <1>0, <2>1, <2>2, <2>3 DEF Controls, CloseRequest
<1>10. List'
  BY <1>0 DEF List, Live, NoList, CloseRequest, Goto
<1> QED  BY <1>1, <1>2, <1>3, <1>4, <1>5, <1>6, <1>7, <1>8, <1>9, <1>10 DEF IInv

LEMMA SaveProjectKeeps ==
  ASSUME IInv, SaveProject
  PROVE  IInv'
<1> USE SessionAssumption
<1>0. /\ Types /\ Holds /\ Windows /\ Phases /\ KnownUi /\ KnownWas
      /\ InTouch /\ Asked /\ Controls /\ List
  BY DEF IInv
<1>1. Types'
  BY <1>0, SaveRequestTypes DEF Types, SaveProject
<1>2. Holds'
  BY <1>0 DEF Holds, Live, Types, SaveProject, SaveRequest, Menu
<1>3. Windows'
  BY <1>0 DEF Windows, SaveProject
<1>4. Phases'
  BY <1>0 DEF Phases, Closing, SaveProject
<1>5. KnownUi'
  BY <1>0 DEF KnownUi, Known, Lapsed, Live, SaveProject
<1>6. KnownWas'
  BY <1>0 DEF KnownWas, Known, Lapsed, Live, SaveProject
<1>7. InTouch'
  BY <1>0 DEF InTouch, IsNull, Types, SaveProject, SaveRequest, Menu
<1>8. Asked'
  BY <1>0 DEF Asked, IsNull, Lapsed, At, SaveProject, SaveRequest, Menu
<1>9. Controls'
  BY <1>0 DEF Controls, Closing, IsNull, SaveProject
<1>10. List'
  BY <1>0 DEF List, Live, NoList, SaveProject, SaveRequest, Menu
<1> QED  BY <1>1, <1>2, <1>3, <1>4, <1>5, <1>6, <1>7, <1>8, <1>9, <1>10 DEF IInv

LEMMA EditKeeps ==
  ASSUME IInv, Edit
  PROVE  IInv'
<1> USE SessionAssumption
<1>0. /\ Types /\ Holds /\ Windows /\ Phases /\ KnownUi /\ KnownWas
      /\ InTouch /\ Asked /\ Controls /\ List
  BY DEF IInv
<1>1. Types'
  BY <1>0 DEF Types, Edit
<1>2. Holds'
  BY <1>0 DEF Holds, Live, Edit
<1>3. Windows'
  BY <1>0 DEF Windows, Edit
<1>4. Phases'
  BY <1>0 DEF Phases, Closing, Edit
<1>5. KnownUi'
  BY <1>0 DEF KnownUi, Known, Lapsed, Live, Edit
<1>6. KnownWas'
  BY <1>0 DEF KnownWas, Known, Lapsed, Live, Edit
<1>7. InTouch'
  BY <1>0 DEF InTouch, IsNull, Edit
<1>8. Asked'
  BY <1>0 DEF Asked, IsNull, Lapsed, At, Edit, Menu
<1>9. Controls'
  BY <1>0 DEF Controls, Closing, IsNull, Edit
<1>10. List'
  BY <1>0 DEF List, Live, NoList, Edit, Menu
<1> QED  BY <1>1, <1>2, <1>3, <1>4, <1>5, <1>6, <1>7, <1>8, <1>9, <1>10 DEF IInv

LEMMA DamageKeeps ==
  ASSUME IInv, Damage
  PROVE  IInv'
<1> USE SessionAssumption
<1>0. /\ Types /\ Holds /\ Windows /\ Phases /\ KnownUi /\ KnownWas
      /\ InTouch /\ Asked /\ Controls /\ List
  BY DEF IInv
<1>1. Types'
  <2> PICK n \in Live : disk' = [disk EXCEPT ![n].issue = TRUE]  BY DEF Damage
  <2>1. disk[n] \in Project  BY <1>0, LiveProject
  <2>2. disk' = [disk EXCEPT ![n] = [disk[n] EXCEPT !.issue = TRUE]]  BY <2>1
  <2>3. disk' \in [Name -> Project \cup {NoProject}]
    BY <1>0, <2>1, <2>2, IssueIs, Amended
  <2> QED  BY <1>0, <2>3 DEF Types, Damage
<1>2. Holds'
  BY <1>0 DEF Holds, Damage
<1>3. Windows'
  BY <1>0 DEF Windows, Damage
<1>4. Phases'
  BY <1>0 DEF Phases, Closing, Damage
<1>5. KnownUi'
  BY <1>0 DEF KnownUi, Known, Lapsed, Live, Types, Uis, Project, NoProject, KindsOf,
       IsNull, Holds, InTouch, Damage, Menu
<1>6. KnownWas'
  BY <1>0 DEF KnownWas, Known, Lapsed, Live, Damage, Menu
<1>7. InTouch'
  BY <1>0 DEF InTouch, IsNull, Damage
<1>8. Asked'
  BY <1>0 DEF Asked, IsNull, Lapsed, At, Damage
<1>9. Controls'
  BY <1>0 DEF Controls, Closing, IsNull, Damage
<1>10. List'
  BY <1>0 DEF List, Live, NoList, Damage, Menu
<1> QED  BY <1>1, <1>2, <1>3, <1>4, <1>5, <1>6, <1>7, <1>8, <1>9, <1>10 DEF IInv

LEMMA DeleteProjectKeeps ==
  ASSUME IInv, NEW n \in Name, DeleteProject(n)
  PROVE  IInv'
<1> USE SessionAssumption
<1>0. /\ Types /\ Holds /\ Windows /\ Phases /\ KnownUi /\ KnownWas
      /\ InTouch /\ Asked /\ Controls /\ List
  BY DEF IInv
<1>1. Types'
  BY <1>0 DEF Types, Uis, Tasks, Project, NoProject, Mishaps, KindsOf, Ontos, Live,
       DeleteProject
<1>2. Holds'
  BY <1>0 DEF Holds, Live, DeleteProject
<1>3. Windows'
  BY <1>0 DEF Windows, DeleteProject
<1>4. Phases'
  BY <1>0 DEF Phases, DeleteProject
<1>5. KnownUi'
  BY <1>0 DEF KnownUi, Known, Lapsed, Live, DeleteProject
<1>6. KnownWas'
  BY <1>0 DEF KnownWas, Known, DeleteProject
<1>7. InTouch'
  BY <1>0 DEF InTouch, IsNull, DeleteProject
<1>8. Asked'
  BY <1>0 DEF Asked, IsNull, Lapsed, At, DeleteProject
<1>9. Controls'
  BY <1>0 DEF Controls, Closing, IsNull, DeleteProject
<1>10. List'
  BY <1>0 DEF List, Live, Types, NoList, DeleteProject
<1> QED  BY <1>1, <1>2, <1>3, <1>4, <1>5, <1>6, <1>7, <1>8, <1>9, <1>10 DEF IInv

LEMMA TryRepairProjectKeeps ==
  ASSUME IInv, NEW n \in Name, TryRepairProject(n)
  PROVE  IInv'
<1> USE SessionAssumption
<1>0. /\ Types /\ Holds /\ Windows /\ Phases /\ KnownUi /\ KnownWas
      /\ InTouch /\ Asked /\ Controls /\ List
  BY DEF IInv
<1>1. Types'
  <2>1. disk[n] \in Project  BY <1>0, LiveProject DEF TryRepairProject
  <2>2. disk' = [disk EXCEPT ![n] = [disk[n] EXCEPT !.issue = FALSE]]
    BY <2>1 DEF TryRepairProject
  <2>3. disk' \in [Name -> Project \cup {NoProject}]
    BY <1>0, <2>1, <2>2, IssueIs, Amended DEF TryRepairProject
  <2>4. rows' = [m \in Live |-> disk'[m].issue] /\ UNCHANGED <<srv, ui, bar, ears, skos, started, task, waived, mishaps>>
    BY DEF TryRepairProject
  <2>5. DOMAIN rows' \subseteq Name  BY <2>4 DEF Live
  <2> QED  BY <1>0, <2>3, <2>4, <2>5 DEF Types
<1>2. Holds'
  BY <1>0 DEF Holds, Live, Types, Project, NoProject, KindsOf, TryRepairProject, Offered
<1>3. Windows'
  BY <1>0 DEF Windows, TryRepairProject
<1>4. Phases'
  BY <1>0 DEF Phases, TryRepairProject
<1>5. KnownUi'
  BY <1>0 DEF KnownUi, Known, Lapsed, Live, Types, Uis, Project, NoProject, KindsOf,
       IsNull, Holds, InTouch, TryRepairProject, Offered
<1>6. KnownWas'
  BY <1>0 DEF KnownWas, Known, TryRepairProject
<1>7. InTouch'
  BY <1>0 DEF InTouch, IsNull, TryRepairProject
<1>8. Asked'
  BY <1>0 DEF Asked, IsNull, Lapsed, At, TryRepairProject
<1>9. Controls'
  BY <1>0 DEF Controls, Closing, IsNull, TryRepairProject
<1>10. List'
  BY <1>0 DEF List, Windows, Live, Types, Project, NoProject, NoList, TryRepairProject, Offered
<1> QED  BY <1>1, <1>2, <1>3, <1>4, <1>5, <1>6, <1>7, <1>8, <1>9, <1>10 DEF IInv

LEMMA BeginKeeps ==
  ASSUME IInv, NEW op \in Ops, NEW n \in Name, NEW src \in Name,
         op # "cloneProject" \/ src = ui.name, Begin(op, n, src)
  PROVE  IInv'
<1> USE SessionAssumption
<1>0. /\ Types /\ Holds /\ Windows /\ Phases /\ KnownUi /\ KnownWas
      /\ InTouch /\ Asked /\ Controls /\ List
  BY DEF IInv
<1>1. Types'
  <2>1. ui \in Uis /\ task' = [op |-> op, name |-> n, src |-> src, was |-> ui, pc |-> AfterClosing]
    BY <1>0 DEF Begin, Types
  <2>2. task' \in Tasks  BY <2>1 DEF Tasks, AfterClosing
  <2>3. bar' \in [on : BOOLEAN, title : Name \cup {NoName}, skos : BOOLEAN, drop : BOOLEAN]
    BY <1>0, Closed DEF Begin
  <2>4. ears' \subseteq {"projectOpened", "projectClosed"}
    BY <1>0 DEF Types, Begin, ChangeProjectClosed
  <2> QED  BY <1>0, <2>2, <2>3, <2>4 DEF Types, Begin
<1>2. Holds'
  BY <1>0 DEF Holds, Live, Begin
<1>3. Windows'
  BY <1>0 DEF Windows, Begin
<1>4. Phases'
  BY <1>0, Begun DEF Phases, Closing
<1>5. KnownUi'
  BY <1>0 DEF KnownUi, Known, Lapsed, Live, Begin, AfterClosing, MustAsk, ChangeProjectClosed
<1>6. KnownWas'
  BY <1>0 DEF KnownWas, Known, Lapsed, Live, Types, Tasks, Uis, Project, NoProject,
       KindsOf, KnownUi, Idle, Begin, AfterClosing, MustAsk, ChangeProjectClosed
<1>7. InTouch'
  BY <1>0 DEF InTouch, IsNull, Begin
<1>8. Asked'
  BY <1>0 DEF Asked, IsNull, Lapsed, At, Types, Tasks, Windows, Idle, InTouch, KnownUi,
       Known, Holds, Begin, AfterClosing, MustAsk, ChangeProjectClosed
<1>9. Controls'
  <2>1. Closing'  BY <1>0, Begun DEF Closing
  <2>2. ears' = {"projectOpened", "projectClosed"} => ears = ears' /\ "projectClosed" \in ears
    BY <1>0 DEF Types, Begin, ChangeProjectClosed
  <2>3. "projectClosed" \in ears => ~bar'.on /\ bar'.title = NoName /\ ~bar'.drop
    BY <1>0 DEF Types, Begin, ChangeProjectClosed
  <2> QED  BY <1>0, Begun, <2>1, <2>2, <2>3 DEF Controls
<1>10. List'
  BY <1>0 DEF List, Live, NoList, Begin, AfterClosing, MustAsk, ChangeProjectClosed
<1> QED  BY <1>1, <1>2, <1>3, <1>4, <1>5, <1>6, <1>7, <1>8, <1>9, <1>10 DEF IInv

LEMMA SaveAsProjectKeeps ==
  ASSUME IInv, NEW n \in Name, SaveAsProject(n)
  PROVE  IInv'
<1> USE SessionAssumption
<1>0. /\ Types /\ Holds /\ Windows /\ Phases /\ KnownUi /\ KnownWas
      /\ InTouch /\ Asked /\ Controls /\ List
  BY DEF IInv
<1>1. Types'
  <2>s. srv' \in [loaded : Name \cup {NoName}, dirty : BOOLEAN]
    <3>1. \A l \in Name \cup {NoName} :
            [loaded |-> l, dirty |-> FALSE] \in [loaded : Name \cup {NoName}, dirty : BOOLEAN]
      OBVIOUS
    <3> QED  BY <3>1 DEF SaveAsProject
  <2>m. mishaps' \subseteq Mishaps  BY <1>0 DEF Types, SaveAsProject, Mishaps
  <2>1. CASE disk' = disk /\ ui' = ui /\ bar' = bar
    BY <1>0, <2>1, <2>s, <2>m DEF Types, SaveAsProject
  <2>2. CASE disk' = [disk EXCEPT ![n] = disk[srv.loaded]] /\ ProjectChangedName(n)
    <3>1. disk' \in [Name -> Project \cup {NoProject}]
      BY <1>0, <2>2 DEF Types, Holds, SaveAsProject, Live
    <3>2. ui' \in Uis  BY <1>0, <2>2 DEF Types, Uis, ProjectChangedName
    <3>3. bar' \in [on : BOOLEAN, title : Name \cup {NoName}, skos : BOOLEAN, drop : BOOLEAN]
      BY <1>0, <2>2 DEF Types, ProjectChangedName
    <3> QED  BY <1>0, <3>1, <3>2, <3>3, <2>s, <2>m DEF Types, SaveAsProject
  <2> QED  BY <2>1, <2>2 DEF SaveAsProject
<1>2. Holds'
  BY <1>0 DEF Holds, Live, Types, SaveAsProject, Menu, ProjectChangedName
<1>3. Windows'
  BY <1>0 DEF Windows, SaveAsProject
<1>4. Phases'
  BY <1>0 DEF Phases, Closing, SaveAsProject, Menu, ProjectChangedName
<1>5. KnownUi'
  <2>1. CASE disk' = disk /\ ui' = ui
    BY <1>0, <2>1 DEF KnownUi, Known, Lapsed, Live, SaveAsProject
  <2>2. CASE disk' = [disk EXCEPT ![n] = disk[srv.loaded]] /\ ProjectChangedName(n)
    <3>1. ui'.name = n /\ ui'.kind = ui.kind
      BY <1>0, <2>2 DEF Types, Uis, ProjectChangedName
    <3>2. srv.loaded # NoName /\ disk'[n] = disk[srv.loaded] /\ disk[srv.loaded] # NoProject
      BY <1>0, <2>2 DEF Types, SaveAsProject, Holds, Live
    <3>3. n \in Live'  BY <3>2 DEF Live
    <3>4. UNCHANGED <<ears, skos, mishaps, started>>  BY <1>0, <2>2, <3>2 DEF
         SaveAsProject, Types, Live
    <3>5. ui.kind = "nullProject" => Lapsed
      BY <1>0, <3>2 DEF Asked, IsNull, SaveAsProject, Menu
    <3>6. ui.kind # "nullProject" /\ "taken" \notin mishaps => srv.loaded = ui.name
      BY <1>0, <3>2 DEF InTouch, IsNull
    <3>7. n # NoName  BY SessionAssumption
    <3> QED  BY <1>0, <3>1, <3>2, <3>3, <3>4, <3>5, <3>6, <3>7 DEF KnownUi, Known, Lapsed
  <2> QED  BY <2>1, <2>2 DEF SaveAsProject
<1>6. KnownWas'
  BY <1>0 DEF KnownWas, Known, Lapsed, Live, SaveAsProject, Menu, ProjectChangedName
<1>7. InTouch'
  BY <1>0 DEF InTouch, IsNull, Types, Uis, Tasks, KindsOf, Idle, Nobody, SaveAsProject,
       Menu, ProjectChangedName
<1>8. Asked'
  <2>1. started /\ started' /\ task = Idle /\ task' = Idle /\ srv.loaded # NoName
    BY DEF SaveAsProject, Menu
  <2>2. ui'.kind = ui.kind
    BY <1>0 DEF Types, Uis, SaveAsProject, ProjectChangedName
  <2>3. ui.kind = "nullProject" => Lapsed  BY <1>0, <2>1 DEF Asked, IsNull
  <2>4. Lapsed => Lapsed'  BY DEF Lapsed, SaveAsProject
  <2> QED  BY <2>1, <2>2, <2>3, <2>4 DEF Asked, IsNull, At
<1>9. Controls'
  <2>1. CASE ui' = ui /\ bar' = bar
    BY <1>0, <2>1 DEF Controls, SaveAsProject, Menu, IsNull
  <2>2. CASE ProjectChangedName(n) /\ mishaps' = mishaps
    <3>1. ui'.name = n /\ ui'.kind = ui.kind /\ ui'.onto = ui.onto
      BY <1>0, <2>2 DEF Types, Uis, ProjectChangedName
    <3>2. bar'.title = n /\ bar'.on = bar.on /\ bar'.drop = bar.drop /\ bar'.skos = bar.skos
      BY <1>0, <2>2 DEF Types, ProjectChangedName
    <3>3. task = Idle /\ task' = Idle /\ ears' = ears  BY DEF SaveAsProject, Menu
    <3> QED  BY <1>0, <2>2, <3>1, <3>2, <3>3 DEF Controls, IsNull
  <2> QED  BY <2>1, <2>2 DEF SaveAsProject
<1>10. List'
  BY <1>0 DEF List, Live, NoList, SaveAsProject, Menu, ProjectChangedName
<1> QED  BY <1>1, <1>2, <1>3, <1>4, <1>5, <1>6, <1>7, <1>8, <1>9, <1>10 DEF IInv

LEMMA SchemeSetKeeps ==
  ASSUME IInv, NEW s \in Scheme \cup {NoScheme}, SchemeSet(s)
  PROVE  IInv'
<1> USE SessionAssumption
<1>0. /\ Types /\ Holds /\ Windows /\ Phases /\ KnownUi /\ KnownWas
      /\ InTouch /\ Asked /\ Controls /\ List
  BY DEF IInv
<1>1. Types'
  BY <1>0 DEF Types, Uis, Tasks, Project, NoProject, Mishaps, KindsOf, Ontos, Live, Menu,
       SetProjectProperty, SchemeSet
<1>2. Holds'
  BY <1>0 DEF Holds, Live, Types, Project, NoProject, KindsOf, Menu, SetProjectProperty,
       SchemeSet
<1>3. Windows'
  BY <1>0 DEF Windows, Menu, SetProjectProperty, SchemeSet
<1>4. Phases'
  BY <1>0 DEF Phases, Closing, Menu, SetProjectProperty, SchemeSet
<1>5. KnownUi'
  BY <1>0 DEF KnownUi, Known, Lapsed, Live, Types, Uis, Project, NoProject, KindsOf,
       IsNull, Holds, InTouch, Menu, SetProjectProperty, SchemeSet
<1>6. KnownWas'
  BY <1>0 DEF KnownWas, Known, Lapsed, Live, Menu, SetProjectProperty, SchemeSet
<1>7. InTouch'
  BY <1>0 DEF InTouch, IsNull, Menu, SetProjectProperty, SchemeSet
<1>8. Asked'
  BY <1>0 DEF Asked, IsNull, Lapsed, At, Menu, SetProjectProperty, SchemeSet
<1>9. Controls'
  BY <1>0 DEF Controls, Closing, IsNull, Menu, SetProjectProperty, SchemeSet
<1>10. List'
  BY <1>0 DEF List, Live, NoList, Menu, SetProjectProperty, SchemeSet
<1> QED  BY <1>1, <1>2, <1>3, <1>4, <1>5, <1>6, <1>7, <1>8, <1>9, <1>10 DEF IInv
-----------------------------------------------------------------------------
(***************************************************************************)
(* Announcements.  Whatever was known of the projects before, the new one  *)
(* is known, and the controls show it, if the event was heard.             *)
(***************************************************************************)
(* What the server must have done for n to be announced as such.            *)
Announcing(n, kind, onto) ==
  /\ Announce(n, kind, onto)
  /\ disk' \in [Name -> Project \cup {NoProject}]
  /\ srv' \in [loaded : Name \cup {NoName}, dirty : BOOLEAN]
  /\ srv'.loaded # NoName => srv'.loaded \in Live'
  /\ disk'[n] \in Project
  /\ disk'[n].kind = kind
  /\ disk'[n].onto = IF onto = "undefined" THEN "OWL" ELSE onto
  /\ task' = Idle

LEMMA AnnouncedTypes ==
  ASSUME Types, NEW n \in Name, NEW kind \in KindsOf, NEW onto \in Ontos \cup {"undefined"},
         Announcing(n, kind, onto)
  PROVE  /\ ui' \in Uis
         /\ bar' \in [on : BOOLEAN, title : Name \cup {NoName}, skos : BOOLEAN, drop : BOOLEAN]
         /\ ears' \subseteq {"projectOpened", "projectClosed"}
         /\ skos' \in [held : BOOLEAN, listening : BOOLEAN, scheme : Scheme \cup {NoScheme}]
         /\ mishaps' \subseteq Mishaps
<1>1. ui' \in Uis
  BY DEF Announcing, Announce, SetCurrentProject, Uis, Ontos
<1>2. bar' \in [on : BOOLEAN, title : Name \cup {NoName}, skos : BOOLEAN, drop : BOOLEAN]
  <2> DEFINE b == onto = "SKOS" \/ (onto = "undefined" /\ bar.skos)
  <2>1. b \in BOOLEAN  OBVIOUS
  <2>2. CASE "projectOpened" \in ears
    <3>1. bar' = [on |-> TRUE, title |-> n, skos |-> b, drop |-> TRUE]
      BY <2>2 DEF Announcing, Announce, ChangeProjectOpened
    <3> HIDE DEF b
    <3> QED  BY <2>1, <3>1
  <2>3. CASE "projectOpened" \notin ears
    <3>1. bar' = [bar EXCEPT !.drop = TRUE]
      BY <2>3 DEF Announcing, Announce, ChangeProjectOpened
    <3>2. bar \in [on : BOOLEAN, title : Name \cup {NoName}, skos : BOOLEAN, drop : BOOLEAN]
      BY DEF Types
    <3> QED  BY <3>1, <3>2, DropSet
  <2> QED  BY <2>2, <2>3
<1>3. ears' \subseteq {"projectOpened", "projectClosed"}
  BY DEF Types, Announcing, Announce, ChangeProjectOpened
<1>4. skos' \in [held : BOOLEAN, listening : BOOLEAN, scheme : Scheme \cup {NoScheme}]
  <2>1. srv'.loaded # NoName => disk'[srv'.loaded] \in Project
    BY DEF Announcing, Live
  <2>2. srv'.loaded # NoName => disk'[srv'.loaded].scheme \in Scheme \cup {NoScheme}
    BY <2>1 DEF Project
  <2>3. \A s \in Scheme \cup {NoScheme} :
          Attached(s) \in [held : BOOLEAN, listening : BOOLEAN, scheme : Scheme \cup {NoScheme}]
    BY DEF Attached
  <2>4. [skos EXCEPT !.listening = FALSE]
          \in [held : BOOLEAN, listening : BOOLEAN, scheme : Scheme \cup {NoScheme}]
    BY DEF Types
  <2>5. \/ skos' = skos
        \/ skos' = [skos EXCEPT !.listening = FALSE]
        \/ srv'.loaded # NoName /\ skos' = Attached(disk'[srv'.loaded].scheme)
    BY DEF Announcing, Announce, ChangeProjectOpened
  <2>6. CASE skos' = skos  BY <2>6 DEF Types
  <2>7. CASE skos' = [skos EXCEPT !.listening = FALSE]  BY <2>4, <2>7
  <2>8. CASE srv'.loaded # NoName /\ skos' = Attached(disk'[srv'.loaded].scheme)
    BY <2>2, <2>3, <2>8
  <2> QED  BY <2>5, <2>6, <2>7, <2>8
<1>5. mishaps' \subseteq Mishaps
  BY DEF Types, Announcing, Announce, Mishaps
<1> QED  BY <1>1, <1>2, <1>3, <1>4, <1>5

LEMMA AnnouncedUi ==
  ASSUME Types, NEW n \in Name, NEW kind \in KindsOf, NEW onto \in Ontos \cup {"undefined"},
         Announcing(n, kind, onto)
  PROVE  KnownUi' /\ KnownWas' /\ InTouch' /\ Phases' /\ Asked'
<1>1. /\ ui'.name = n /\ ui'.kind = kind
      /\ kind # "nullProject" /\ n # NoName
  BY SessionAssumption DEF Announcing, Announce, SetCurrentProject, KindsOf
<1>2. n \in Live'  BY Apart DEF Announcing, Live
<1>3. srv'.loaded # n => "taken" \in mishaps'  BY DEF Announcing, Announce
<1>4. ASSUME srv'.loaded = n, disk'[n].onto = "SKOS", "projectOpened" \in ears'
      PROVE  skos'.listening /\ skos'.scheme = disk'[n].scheme
  <2>1. onto = "SKOS"  BY <1>4 DEF Announcing
  <2>2. "projectOpened" \in ears /\ skos' = Attached(disk'[n].scheme)
    BY <1>1, <1>4, <2>1 DEF Announcing, Announce, ChangeProjectOpened
  <2> QED  BY <2>2 DEF Attached
<1>5. KnownUi'  BY <1>1, <1>2, <1>3, <1>4 DEF KnownUi, Known, Announcing
<1>6. InTouch'  BY <1>1, <1>3 DEF InTouch
<1>7. task' = Idle  BY DEF Announcing
<1> QED  BY <1>1, <1>5, <1>6, <1>7 DEF KnownWas, Phases, Asked, IsNull, At

LEMMA AnnouncedControls ==
  ASSUME NEW n \in Name, NEW kind \in KindsOf, NEW onto \in Ontos \cup {"undefined"},
         Announcing(n, kind, onto)
  PROVE  Controls'
<1>1. /\ ui'.name = n /\ ui'.kind # "nullProject"
      /\ onto # "undefined" => ui'.onto = onto
  BY DEF Announcing, Announce, SetCurrentProject, KindsOf
<1>2. ASSUME "projectOpened" \in ears'
      PROVE  /\ bar'.on /\ bar'.title = n /\ bar'.drop
             /\ bar'.skos = (onto = "SKOS") /\ onto # "undefined"
  BY <1>2 DEF Announcing, Announce, ChangeProjectOpened
<1>3. task' = Idle  BY DEF Announcing
<1> QED  BY <1>1, <1>2, <1>3 DEF Controls, IsNull

(* With the list closed or up to date, and the rest of the types, this is   *)
(* all there is to an announcement.                                         *)
LEMMA Announced ==
  ASSUME IInv, NEW n \in Name, NEW kind \in KindsOf, NEW onto \in Ontos \cup {"undefined"},
         Announcing(n, kind, onto), Holds', rows' = NoList,
         started' \in BOOLEAN, waived' \in BOOLEAN
  PROVE  IInv'
<1>1. Types'  BY AnnouncedTypes DEF IInv, Types, Announcing
<1>2. KnownUi' /\ KnownWas' /\ InTouch' /\ Phases' /\ Asked'  BY AnnouncedUi DEF IInv
<1>3. Controls'  BY AnnouncedControls
<1>4. Windows' /\ List'  BY DEF Windows, List, Announcing
<1> QED  BY <1>1, <1>2, <1>3, <1>4 DEF IInv

(* The list that is drawn is the list of the server, or the server failed.  *)
LEMMA Listed ==
  ASSUME Types, ListProjects, UNCHANGED disk
  PROVE  (rows' = NoList \/ DOMAIN rows' \subseteq Name) /\ List'
BY SessionAssumption DEF ListProjects, List, Live

LEMMA StartSTKeeps ==
  ASSUME IInv, StartST
  PROVE  IInv'
<1>0. /\ Types /\ Holds /\ Windows /\ Phases /\ KnownUi /\ KnownWas
      /\ InTouch /\ Asked /\ Controls /\ List
  BY DEF IInv
<1>1. CASE srv.loaded # NoName
  <2> DEFINE p == disk[srv.loaded]
  <2>1. srv.loaded \in Live /\ srv.loaded \in Name /\ p \in Project
    BY <1>0, <1>1, LiveProject DEF Holds
  <2>2. p.kind \in KindsOf /\ p.onto \in Ontos /\ p.onto # "undefined"
    BY <2>1 DEF Project, Ontos
  <2>3. Announcing(srv.loaded, p.kind, p.onto)
    BY <1>0, <1>1, <2>1, <2>2 DEF StartST, Announcing, Types, Holds, Live
  <2>4. Holds'  BY <1>0, <1>1 DEF StartST, Holds, Live
  <2>5. rows' = NoList  BY <1>0, <1>1 DEF StartST, Windows
  <2> QED  BY <1>0, <2>1, <2>2, <2>3, <2>4, <2>5, Announced DEF StartST, Types
<1>2. CASE srv.loaded = NoName
  <2>1. ListProjects /\ UNCHANGED <<disk, srv, ui, bar, ears, skos, mishaps, task, waived>>
        /\ started' /\ task = Idle
    BY <1>2 DEF StartST
  <2>2. (rows' = NoList \/ DOMAIN rows' \subseteq Name) /\ List'  BY <1>0, <2>1, Listed
  <2>3. Types'  BY <1>0, <2>1, <2>2 DEF Types, StartST
  <2>4. Holds' /\ Windows' /\ Phases' /\ InTouch' /\ Asked'
    BY <1>0, <1>2, <2>1 DEF Holds, Live, Windows, Phases, InTouch, IsNull, Asked, At
  <2>5. KnownUi' /\ KnownWas'
    BY <1>0, <2>1 DEF KnownUi, KnownWas, Known, Live, Lapsed
  <2>6. Controls'  BY <1>0, <2>1 DEF Controls, IsNull
  <2> QED  BY <2>2, <2>3, <2>4, <2>5, <2>6 DEF IInv
<1> QED  BY <1>1, <1>2

-----------------------------------------------------------------------------
(***************************************************************************)
(* The requests that end a command.                                        *)
(***************************************************************************)

(* A command that is served and announces nothing: the project that was     *)
(* current is not any more, but for a clone.                                *)
LEMMA AtServe ==
  ASSUME IInv, NEW op \in Ops \ {"cloneProject"}, Serving(op)
  PROVE  /\ task \in Tasks /\ task.name \in Name
         /\ ui = Nobody /\ rows # NoList /\ started /\ Closing
BY DEF IInv, Types, Tasks, Serving, At, Phases, Closing, Windows

LEMMA Ended ==
  ASSUME IInv, NEW op \in Ops \ {"cloneProject"}, Serving(op), task' = Idle,
         UNCHANGED <<srv, ui, bar, ears, skos, waived, started>>,
         mishaps \subseteq mishaps', mishaps' \subseteq Mishaps
  PROVE  Windows' /\ Phases' /\ KnownUi' /\ KnownWas' /\ InTouch' /\ Asked' /\ Controls'
<1>1. ui = Nobody /\ ui' = Nobody /\ Closing /\ started /\ task # Idle
  BY AtServe DEF Serving, At
<1>2. Lapsed => Lapsed'  BY DEF Lapsed
<1>3. Windows' /\ Phases' /\ InTouch'  BY <1>1 DEF Windows, Phases, InTouch, IsNull, Nobody
<1>4. KnownUi' /\ KnownWas'  BY <1>1 DEF KnownUi, KnownWas, Known, Nobody
<1>5. Asked'  BY <1>1, <1>2 DEF IInv, Asked, IsNull, At
<1>6. Controls'
  <2>1. bar.on \in BOOLEAN /\ bar.drop \in BOOLEAN  BY DEF IInv, Types
  <2> QED  BY <1>1, <2>1 DEF IInv, Controls, IsNull, Nobody
<1> QED  BY <1>3, <1>4, <1>5, <1>6

(* A loaded project that was just made or opened.                           *)
LEMMA Loaded ==
  ASSUME NEW n \in Name, srv' = [loaded |-> n, dirty |-> FALSE], n \in Live'
  PROVE  Holds' /\ srv' \in [loaded : Name \cup {NoName}, dirty : BOOLEAN] /\ srv'.loaded = n
BY DEF Holds

LEMMA OpenRequestKeeps ==
  ASSUME IInv, OpenRequest
  PROVE  IInv'
<1>0. /\ Types /\ Holds /\ List
      /\ task.name \in Name /\ Serving("openProject") /\ "openProject" \in Ops \ {"cloneProject"}
      /\ started
  BY AtServe DEF IInv, OpenRequest, Ops
<1>1. CASE /\ task.name \in Live /\ Loads(task.name) /\ UNCHANGED disk
           /\ Announce(task.name, disk[task.name].kind, disk[task.name].onto)
  <2> DEFINE p == disk[task.name]
  <2>1. p \in Project  BY <1>0, <1>1, LiveProject
  <2>2. p.kind \in KindsOf /\ p.onto \in Ontos /\ p.onto # "undefined"
    BY <2>1 DEF Project, Ontos
  <2>3. Holds' /\ srv' \in [loaded : Name \cup {NoName}, dirty : BOOLEAN] /\ srv'.loaded = task.name
    BY <1>0, <1>1, Loaded DEF Loads, Live
  <2>4. Announcing(task.name, p.kind, p.onto)
    BY <1>0, <1>1, <2>1, <2>2, <2>3 DEF OpenRequest, Announcing, Types, Live
  <2> QED  BY <1>0, <1>1, <2>2, <2>3, <2>4, Announced DEF OpenRequest, Types, Loads
<1>2. CASE UNCHANGED <<disk, srv, ui, bar, ears, skos, waived, mishaps>>
  <2>1. Windows' /\ Phases' /\ KnownUi' /\ KnownWas' /\ InTouch' /\ Asked' /\ Controls'
    BY <1>0, <1>2, Ended DEF OpenRequest, Types
  <2>2. Types' /\ Holds' /\ List'
    BY <1>0, <1>2 DEF Types, Holds, Live, List, OpenRequest
  <2> QED  BY <2>1, <2>2 DEF IInv
<1> QED  BY <1>1, <1>2 DEF OpenRequest

(* A project that was just made.                                            *)
LEMMA FreshIs ==
  ASSUME NEW sort \in [kind : KindsOf, onto : Ontos], NEW s \in Scheme \cup {NoScheme}
  PROVE  /\ Fresh(sort, s) \in Project
         /\ Fresh(sort, s).kind = sort.kind /\ Fresh(sort, s).onto = sort.onto
BY DEF Fresh, Project

LEMMA Made ==
  ASSUME IInv, task.name \in Name, NEW sort \in [kind : KindsOf, onto : Ontos],
         NEW s \in Scheme \cup {NoScheme}, NEW onto \in {sort.onto, "undefined"},
         onto = "undefined" => sort.onto = "OWL",
         task' = Idle, rows' = NoList, Loads(task.name), UNCHANGED started,
         disk' = [disk EXCEPT ![task.name] = Fresh(sort, s)],
         Announce(task.name, sort.kind, onto)
  PROVE  IInv'
<1> DEFINE n == task.name
<1>1. /\ Fresh(sort, s) \in Project
      /\ Fresh(sort, s).kind = sort.kind /\ Fresh(sort, s).onto = sort.onto
  BY FreshIs
<1>2. disk' \in [Name -> Project \cup {NoProject}] /\ disk'[n] = Fresh(sort, s)
  <2>1. disk \in [Name -> Project \cup {NoProject}]  BY DEF IInv, Types
  <2> QED  BY <1>1, <2>1
<1>3. n \in Live'
  <2>1. disk'[n] # NoProject  BY <1>1, <1>2, Apart
  <2> QED  BY <2>1 DEF Live
<1>4. Holds' /\ srv' \in [loaded : Name \cup {NoName}, dirty : BOOLEAN] /\ srv'.loaded = n
  BY <1>3, Loaded DEF Loads
<1>5. sort.kind \in KindsOf /\ sort.onto \in Ontos /\ sort.onto # "undefined"  BY DEF Ontos
<1>6. Announcing(n, sort.kind, onto)
  BY <1>1, <1>2, <1>3, <1>4, <1>5 DEF Announcing
<1>7. started' \in BOOLEAN
  BY DEF IInv, Types
<1>8. waived' \in BOOLEAN
  BY DEF Loads
<1> QED  BY <1>4, <1>5, <1>6, <1>7, <1>8, Announced

LEMMA CreationFailsKeeps ==
  ASSUME IInv, NEW op \in Ops \ {"cloneProject"}, Serving(op), CreationFails, task' = Idle,
         UNCHANGED started
  PROVE  IInv'
<1>0. Types /\ Holds /\ List /\ task.name \in Name  BY AtServe DEF IInv
<1>1. Windows' /\ Phases' /\ KnownUi' /\ KnownWas' /\ InTouch' /\ Asked' /\ Controls'
  BY <1>0, Ended DEF CreationFails, Types, Mishaps
<1>2. Types'  BY <1>0 DEF CreationFails, Types, Mishaps
<1>3. Holds'  BY <1>0 DEF Types, Holds, Live, CreationFails
<1>4. List'  BY DEF List, CreationFails
<1> QED  BY <1>1, <1>2, <1>3, <1>4 DEF IInv

LEMMA NewRequestKeeps ==
  ASSUME IInv, NewRequest
  PROVE  IInv'
<1>0. task.name \in Name /\ Serving("newProject") /\ "newProject" \in Ops \ {"cloneProject"}
  BY AtServe DEF NewRequest, Ops
<1>1. CASE CreationFails  BY <1>0, <1>1, CreationFailsKeeps DEF NewRequest
<1>2. CASE ~CreationFails
  <2> PICK sort \in Sort :
        /\ disk' = [disk EXCEPT ![task.name] = Fresh(sort, NoScheme)]
        /\ Announce(task.name, sort.kind, sort.onto)
    BY <1>2 DEF NewRequest
  <2>1. rows' = NoList /\ Loads(task.name) /\ task' = Idle /\ UNCHANGED started
    BY <1>2 DEF NewRequest
  <2>2. sort \in [kind : KindsOf, onto : Ontos] /\ sort.onto # "undefined"
    BY SessionAssumption DEF Ontos
  <2> QED  BY <1>0, <2>1, <2>2, Made
<1> QED  BY <1>1, <1>2

LEMMA NewFromFileRequestKeeps ==
  ASSUME IInv, NewFromFileRequest
  PROVE  IInv'
<1>0. /\ task.name \in Name /\ Serving("newProjectFromFile")
      /\ "newProjectFromFile" \in Ops \ {"cloneProject"}
  BY AtServe DEF NewFromFileRequest, Ops
<1>1. CASE CreationFails  BY <1>0, <1>1, CreationFailsKeeps DEF NewFromFileRequest
<1>2. CASE ~CreationFails
  <2> PICK sort \in Sort :
        /\ disk' = [disk EXCEPT ![task.name] = Fresh([sort EXCEPT !.onto = "OWL"], NoScheme)]
        /\ Announce(task.name, sort.kind, "undefined")
    BY <1>2 DEF NewFromFileRequest
  <2>1. rows' = NoList /\ Loads(task.name) /\ task' = Idle /\ UNCHANGED started
    BY <1>2 DEF NewFromFileRequest
  <2> DEFINE owl == [sort EXCEPT !.onto = "OWL"]
  <2>2. owl \in [kind : KindsOf, onto : Ontos] /\ owl.kind = sort.kind /\ owl.onto = "OWL"
    BY SessionAssumption DEF Ontos
  <2> HIDE DEF owl
  <2>3. disk' = [disk EXCEPT ![task.name] = Fresh(owl, NoScheme)]
        /\ Announce(task.name, owl.kind, "undefined")
    BY <2>2 DEF owl
  <2> QED  BY <1>0, <2>1, <2>2, <2>3, Made
<1> QED  BY <1>1, <1>2

LEMMA ImportRequestKeeps ==
  ASSUME IInv, ImportRequest
  PROVE  IInv'
<1>0. /\ Types /\ Holds /\ List /\ started
      /\ task.name \in Name /\ Serving("importProject")
      /\ "importProject" \in Ops \ {"cloneProject"}
  BY AtServe DEF IInv, ImportRequest, Ops
<1>1. CASE ImportTaken
  <2> DEFINE p == disk[task.name]
  <2>1. p \in Project  BY <1>0, <1>1, LiveProject DEF ImportTaken
  <2>2. p.kind \in KindsOf /\ p.onto \in Ontos /\ p.onto # "undefined"
    BY <2>1 DEF Project, Ontos
  <2>3. Announcing(task.name, p.kind, p.onto)
    BY <1>0, <1>1, <2>1, <2>2 DEF ImportRequest, ImportTaken, Announcing, Types, Holds, Live
  <2>4. Holds'  BY <1>0, <1>1 DEF ImportTaken, Holds, Live
  <2> QED  BY <1>0, <1>1, <2>2, <2>3, <2>4, Announced DEF ImportRequest, ImportTaken, Types
<1>2. CASE UNCHANGED <<disk, srv, ui, bar, ears, skos, rows, waived, mishaps>>
  <2>1. Windows' /\ Phases' /\ KnownUi' /\ KnownWas' /\ InTouch' /\ Asked' /\ Controls'
    BY <1>0, <1>2, Ended DEF ImportRequest, Types
  <2>2. Types' /\ Holds' /\ List'
    BY <1>0, <1>2 DEF Types, Holds, Live, List, ImportRequest
  <2> QED  BY <2>1, <2>2 DEF IInv
<1>3. ASSUME NEW sort \in Sort, NEW s \in Scheme \cup {NoScheme},
             rows' = NoList, Loads(task.name),
             disk' = [disk EXCEPT ![task.name] = Fresh(sort, s)],
             Announce(task.name, sort.kind, sort.onto)
      PROVE  IInv'
  <2>1. sort \in [kind : KindsOf, onto : Ontos] /\ sort.onto # "undefined"
    BY SessionAssumption DEF Ontos
  <2> QED  BY <1>0, <1>3, <2>1, Made DEF ImportRequest
<1> QED  BY <1>1, <1>2, <1>3 DEF ImportRequest

(***************************************************************************)
(* A clone.  When the current project is cloned, it is opened again, and    *)
(* what the task remembers of it is as it was.                              *)
(***************************************************************************)
LEMMA CloneRequestKeeps ==
  ASSUME IInv, CloneRequest
  PROVE  IInv'
<1>0. /\ Types /\ Holds /\ Windows /\ Phases /\ KnownUi /\ KnownWas
      /\ InTouch /\ Asked /\ Controls /\ List
  BY DEF IInv
<1>1. /\ task \in Tasks /\ task # Idle /\ task' = Idle /\ task.pc = "serve"
      /\ task.op = "cloneProject" /\ rows # NoList /\ started
      /\ UNCHANGED <<bar, ears, skos, started>>
  BY <1>0 DEF CloneRequest, Serving, At, Types, Windows
<1>2. /\ task.name \in Name /\ task.src \in Name /\ task.was \in Uis
      /\ task.src # NoName /\ Known(task.was)
  BY <1>0, <1>1, SessionAssumption DEF Tasks, KnownWas
<1>3. \/ /\ task.src \in Live /\ task.name \notin Live
         /\ disk' = [disk EXCEPT ![task.name] = disk[task.src]]
         /\ rows' = [m \in Live \cup {task.name} |-> disk'[m].issue]
      \/ UNCHANGED <<disk, rows>>
  BY DEF CloneRequest
<1>4. /\ disk' \in [Name -> Project \cup {NoProject}]
      /\ Live \subseteq Live'
      /\ \A n \in Live : disk'[n] = disk[n]
      /\ rows' = NoList \/ DOMAIN rows' \subseteq Name
  BY <1>0, <1>2, <1>3 DEF Types, Live
<1>5. List /\ mishaps \subseteq mishaps' => List'
  <2>1. CASE UNCHANGED <<disk, rows>>  BY <2>1 DEF List, Live
  <2>2. CASE /\ task.src \in Live /\ task.name \notin Live
             /\ disk' = [disk EXCEPT ![task.name] = disk[task.src]]
             /\ rows' = [m \in Live \cup {task.name} |-> disk'[m].issue]
    <3>1. Live' = Live \cup {task.name}  BY <1>0, <1>2, <2>2 DEF Types, Live
    <3> QED  BY <2>2, <3>1 DEF List
  <2> QED  BY <1>3, <2>1, <2>2
<1>6. CASE task.src # task.was.name
  <2>1. UNCHANGED <<srv, ui, waived, mishaps>>  BY <1>6 DEF CloneRequest
  <2>2. ~Closing /\ ui = task.was  BY <1>0, <1>1, <1>6 DEF Phases, Closing
  <2>3. Types' /\ Windows' /\ Phases'
    BY <1>0, <1>1, <1>4, <2>1 DEF Types, Windows, Phases
  <2>4. Holds'  BY <1>0, <1>4, <2>1 DEF Holds
  <2>5. KnownUi' /\ KnownWas'
    BY <1>0, <1>1, <1>4, <2>1 DEF KnownUi, KnownWas, Known, Lapsed
  <2>6. InTouch' /\ Asked'  BY <1>0, <1>1, <2>1 DEF InTouch, IsNull, Asked, At, Lapsed
  <2>7. Controls'  BY <1>0, <1>1, <2>1, <2>2 DEF Controls, IsNull
  <2> QED  BY <1>0, <1>5, <2>1, <2>3, <2>4, <2>5, <2>6, <2>7 DEF IInv
<1>7. CASE task.src = task.was.name
  <2>1. ui = Nobody  BY <1>0, <1>1, <1>7 DEF Phases, Closing
  <2>2. mishaps' = mishaps \cup {"clone"}  BY <1>7 DEF CloneRequest, Reopen
  <2>3. Controls' /\ Windows' /\ Phases' /\ KnownWas'
    BY <1>0, <1>1, <2>2 DEF Controls, Windows, Phases, KnownWas
  <2>4. mishaps' \subseteq Mishaps /\ (Lapsed <=> Lapsed')
    BY <1>0, <2>2 DEF Types, Mishaps, Lapsed
  <2>5. List'  BY <1>0, <1>5, <2>2
  <2>6. CASE task.src \in Live /\ Loads(task.src) /\ ui' = task.was
    <3>1. Holds' /\ srv' \in [loaded : Name \cup {NoName}, dirty : BOOLEAN] /\ srv'.loaded = task.src
      BY <1>2, <1>4, <2>6, Loaded DEF Loads
    <3>2. Types'  BY <1>0, <1>1, <1>2, <1>4, <2>4, <2>6, <3>1 DEF Types, Loads
    <3>3. KnownUi'
      BY <1>1, <1>2, <1>4, <2>2, <2>4, <2>6 DEF KnownUi, Known
    <3>4. InTouch'  BY <1>7, <2>6, <3>1 DEF InTouch
    <3>5. Asked'
      BY <1>1, <1>2, <1>7, <2>4, <2>6 DEF Asked, IsNull, At, Known
    <3> QED  BY <2>3, <2>5, <3>1, <3>2, <3>3, <3>4, <3>5 DEF IInv
  <2>7. CASE UNCHANGED <<srv, ui, waived>>
    <3>1. Types' /\ Holds'  BY <1>0, <1>1, <1>4, <2>4, <2>7 DEF Types, Holds
    <3>2. KnownUi' /\ InTouch' /\ Asked'
      BY <1>0, <1>1, <2>1, <2>4, <2>7 DEF KnownUi, Known, InTouch, IsNull, Asked, At, Nobody
    <3> QED  BY <2>3, <2>5, <3>1, <3>2 DEF IInv
  <2> QED  BY <1>7, <2>6, <2>7 DEF CloneRequest, Reopen
<1> QED  BY <1>6, <1>7

LEMMA CloneProjectKeeps ==
  ASSUME IInv, NEW src \in Name, NEW n \in Name, CloneProject(src, n)
  PROVE  IInv'
<1>0. /\ Types /\ Holds /\ Windows /\ Phases /\ KnownUi /\ KnownWas
      /\ InTouch /\ Asked /\ Controls /\ List
  BY DEF IInv
<1>1. CASE src = ui.name /\ Begin("cloneProject", n, src)
  BY <1>1, BeginKeeps DEF Ops
<1>2. CASE /\ src # ui.name /\ task = Idle /\ rows # NoList
           /\ task' = [op |-> "cloneProject", name |-> n, src |-> src, was |-> ui, pc |-> "serve"]
           /\ UNCHANGED <<disk, srv, ui, bar, ears, skos, rows, started, waived, mishaps>>
  <2>1. /\ task'.op = "cloneProject" /\ task'.src = src /\ task'.was = ui /\ task'.pc = "serve"
        /\ task' # Idle /\ task' \in Tasks
    BY <1>0, <1>2 DEF Types, Tasks, Ops, Idle
  <2>2. ~Closing'  BY <1>2, <2>1 DEF Closing
  <2>3. Types' /\ Holds' /\ Windows' /\ Phases'
    BY <1>0, <1>2, <2>1, <2>2 DEF Types, Holds, Live, Windows, Phases
  <2>4. KnownUi' /\ KnownWas'
    BY <1>0, <1>2, <2>1 DEF KnownUi, KnownWas, Known, Live, Lapsed
  <2>5. InTouch' /\ Asked'  BY <1>0, <1>2, <2>1 DEF InTouch, IsNull, Asked, At, Lapsed
  <2>6. Controls' /\ List'
    BY <1>0, <1>2, <2>2 DEF Controls, IsNull, List, Live
  <2> QED  BY <2>3, <2>4, <2>5, <2>6 DEF IInv
<1> QED  BY <1>1, <1>2 DEF CloneProject

LEMMA SelectSchemeKeeps ==
  ASSUME IInv, NEW s \in Scheme, SelectScheme(s)
  PROVE  IInv'
BY SchemeSetKeeps DEF SelectScheme, SchemeSet

LEMMA SchemeRenamedKeeps ==
  ASSUME IInv, NEW s \in Scheme, NEW to \in Scheme \cup {NoScheme}, SchemeRenamed(s, to)
  PROVE  IInv'
BY SchemeSetKeeps DEF SchemeRenamed, SchemeSet

-----------------------------------------------------------------------------
LEMMA Initially ==
  ASSUME Init
  PROVE  IInv
<1>1. Types
  <2>1. \A d \in {FALSE} : [loaded |-> NoName, dirty |-> d] \in [loaded : Name \cup {NoName}, dirty : BOOLEAN]
    OBVIOUS
  <2>2. bar \in [on : BOOLEAN, title : Name \cup {NoName}, skos : BOOLEAN, drop : BOOLEAN]
    BY DEF Init
  <2>3. skos \in [held : BOOLEAN, listening : BOOLEAN, scheme : Scheme \cup {NoScheme}]
    BY DEF Init
  <2>4. disk \in [Name -> Project \cup {NoProject}] /\ ui \in Uis  BY Apart DEF Init
  <2> QED  BY <2>1, <2>2, <2>3, <2>4 DEF Init, Types
<1>2. ui.kind = "nullProject" /\ ui.name = NoName /\ task = Idle  BY DEF Init, Nobody
<1>3. Holds /\ Windows /\ Phases /\ Asked  BY <1>2 DEF Init, Holds, Windows, Phases, Asked, At
<1>4. KnownUi /\ KnownWas /\ InTouch  BY <1>2 DEF KnownUi, KnownWas, Known, InTouch, IsNull
<1>5. Controls /\ List  BY <1>2 DEF Init, Controls, List, IsNull
<1> QED  BY <1>1, <1>3, <1>4, <1>5 DEF IInv

LEMMA Inductive ==
  ASSUME IInv, [Next]_vars
  PROVE  IInv'
<1>1. CASE StartST  BY <1>1, StartSTKeeps
<1>2. CASE FirefoxClosed  BY <1>2, FirefoxClosedKeeps
<1>3. CASE ServerRestart  BY <1>3, ServerRestartKeeps
<1>4. CASE ManageAllProjects  BY <1>4, ManageAllProjectsKeeps
<1>5. CASE ProperClose  BY <1>5, ProperCloseKeeps
<1>6. ASSUME NEW n \in Name,
             \/ DeleteProject(n) \/ TryRepairProject(n) \/ SaveAsProject(n)
      PROVE  IInv'
  BY <1>6, DeleteProjectKeeps, TryRepairProjectKeeps, SaveAsProjectKeeps
<1>7. ASSUME NEW n \in Name,
             OpenProject(n) \/ NewProject(n) \/ NewProjectFromFile(n) \/ ImportProject(n)
      PROVE  IInv'
  <2>1. \E op \in Ops \ {"cloneProject"} : Begin(op, n, n)
    BY <1>7 DEF OpenProject, NewProject, NewProjectFromFile, ImportProject, Ops
  <2> QED  BY <2>1, BeginKeeps
<1>8. ASSUME NEW n \in Name, NEW m \in Name, CloneProject(n, m)
      PROVE  IInv'
  BY <1>8, CloneProjectKeeps
<1>9. CASE SaveAnswer  BY <1>9, SaveAnswerKeeps
<1>10. CASE CloseRequest  BY <1>10, CloseRequestKeeps
<1>11. CASE OpenRequest  BY <1>11, OpenRequestKeeps
<1>12. CASE NewRequest  BY <1>12, NewRequestKeeps
<1>13. CASE NewFromFileRequest  BY <1>13, NewFromFileRequestKeeps
<1>14. CASE ImportRequest  BY <1>14, ImportRequestKeeps
<1>15. CASE CloneRequest  BY <1>15, CloneRequestKeeps
<1>16. CASE SaveProject  BY <1>16, SaveProjectKeeps
<1>17. CASE Edit  BY <1>17, EditKeeps
<1>18. CASE Damage  BY <1>18, DamageKeeps
<1>19. ASSUME NEW s \in Scheme, SelectScheme(s)
       PROVE  IInv'
  BY <1>19, SelectSchemeKeeps
<1>20. ASSUME NEW s \in Scheme, NEW to \in Scheme \cup {NoScheme}, SchemeRenamed(s, to)
       PROVE  IInv'
  BY <1>20, SchemeRenamedKeeps
<1>21. CASE UNCHANGED vars
  BY <1>21 DEF IInv, vars, Types, Holds, Live, Windows, Phases, Closing, KnownUi, KnownWas,
       Known, Lapsed, InTouch, IsNull, Asked, At, Controls, List
<1> QED
  BY <1>1, <1>2, <1>3, <1>4, <1>5, <1>6, <1>7, <1>8, <1>9, <1>10, <1>11, <1>12, <1>13, <1>14,
     <1>15, <1>16, <1>17, <1>18, <1>19, <1>20, <1>21
     DEF Next, SchemeRemoved

LEMMA Invariant == Spec => []IInv
<1>1. Init => IInv  BY Initially
<1>2. IInv /\ [Next]_vars => IInv'  BY Inductive
<1> QED  BY <1>1, <1>2, PTL DEF Spec

(***************************************************************************)
(* Whatever commands are given, and whichever requests fail, the variables *)
(* keep their types, the extension and the server agree on the project     *)
(* that is open and how it is saved, and the menu and the tool bar show    *)
(* it, with the exceptions that the parts of SessionIsSound name.           *)
(***************************************************************************)
THEOREM SessionStaysSound == Spec => []SessionIsSound
<1>1. ASSUME IInv  PROVE SessionIsSound
  <2>1. Types /\ Holds /\ KnownUi /\ InTouch /\ Controls  BY <1>1 DEF IInv
  <2>2. TypeOK  BY <2>1 DEF TypeOK, Types, Holds, Uis
  <2>3. InStep  BY <2>1 DEF InStep, InTouch, KnownUi, Known, IsNull
  <2>4. ControlsFollowProject
    BY <2>1 DEF ControlsFollowProject, Controls
  <2> QED  BY <2>2, <2>3, <2>4 DEF SessionIsSound
<1> QED  BY <1>1, Invariant, PTL

(***************************************************************************)
(* The scheme that the browser holds for the selected one is the scheme of *)
(* the open project, however many projects were opened, closed, cloned and *)
(* copied before.                                                          *)
(***************************************************************************)
THEOREM SchemeIsFollowed == Spec => []SchemeIsTheProjects
<1>1. ASSUME IInv  PROVE SchemeIsTheProjects
  BY <1>1 DEF IInv, KnownUi, Known, SchemeIsTheProjects, IsNull
<1> QED  BY <1>1, Invariant, PTL

(***************************************************************************)
(* The list of projects is the list of the server while its window is open *)
(* and no command is under way, for every server whose answers to the      *)
(* request for the list do not fail, unless a creation failed.              *)
(***************************************************************************)
THEOREM ListIsKeptCurrent == Spec => []ListIsCurrent
<1>1. ASSUME IInv  PROVE ListIsCurrent
  BY <1>1 DEF IInv, List, ListIsCurrent
<1> QED  BY <1>1, Invariant, PTL

(***************************************************************************)
(* A command makes the server drop unsaved edits only when the user was    *)
(* asked: between the question and the request nothing is edited, and a    *)
(* project that is closed without a question has nothing to save.           *)
(***************************************************************************)
THEOREM NothingDroppedUnasked == Spec => UnsavedIsAsked
<1>1. ASSUME IInv, [Next]_vars
      PROVE  [ task' # task /\ srv.dirty /\ srv'.loaded # srv.loaded =>
                 waived \/ mishaps \cap {"taken", "close"} # {} ]_vars
  <2> SUFFICES ASSUME Next, task' # task, srv.dirty, srv'.loaded # srv.loaded
               PROVE  waived \/ Lapsed
    BY <1>1 DEF Lapsed, vars
  <2>0. Types /\ Holds /\ Windows /\ Phases /\ Asked  BY <1>1 DEF IInv
  <2>1. CASE CloseRequest  BY <2>0, <2>1 DEF CloseRequest, Asked
  <2>2. ASSUME NEW op \in Ops \ {"cloneProject"}, Serving(op)
        PROVE  Lapsed
    BY <1>1, <2>0, <2>2, AtServe DEF Holds, Asked, IsNull, Nobody
  <2>3. CASE OpenRequest \/ NewRequest \/ NewFromFileRequest \/ ImportRequest
    BY <2>2, <2>3 DEF OpenRequest, NewRequest, NewFromFileRequest, ImportRequest, Ops
  <2>4. CASE CloneRequest
    <3>1. task.src = task.was.name /\ task # Idle /\ task.pc = "serve"
      BY <2>4 DEF CloneRequest, Serving, At
    <3>2. ui = Nobody /\ started  BY <2>0, <3>1 DEF Phases, Closing, Windows
    <3> QED  BY <2>0, <3>2 DEF Holds, Asked, IsNull, Nobody
  <2>5. CASE SaveAnswer  BY <2>0, <2>5, SaveRequestTypes DEF SaveAnswer
  <2>7. \/ srv'.loaded = srv.loaded \/ task' = task
        \/ CloseRequest \/ OpenRequest \/ NewRequest \/ NewFromFileRequest \/ ImportRequest
        \/ CloneRequest \/ SaveAnswer
    BY DEF Next, StartST, FirefoxClosed, ServerRestart, ManageAllProjects, ProperClose,
         DeleteProject, TryRepairProject, OpenProject, NewProject, NewProjectFromFile,
         ImportProject, CloneProject, Begin, SaveAsProject, SaveProject, Edit, Damage,
         SelectScheme, SchemeRemoved, SchemeRenamed, SetProjectProperty
  <2> QED  BY <2>1, <2>3, <2>4, <2>5, <2>7
<1>2. IInv /\ [Next]_vars =>
        [ task' # task /\ srv.dirty /\ srv'.loaded # srv.loaded =>
            waived \/ mishaps \cap {"taken", "close"} # {} ]_vars
  BY <1>1
<1> QED  BY <1>2, Invariant, PTL DEF Spec, UnsavedIsAsked
=============================================================================
