----------------------- MODULE ProjectManager_proofs -----------------------
(***************************************************************************)
(* Machine-checked facts about ProjectManager, for every set of project    *)
(* names and contents.                                                     *)
(***************************************************************************)
EXTENDS ProjectManager, TLAPS

(* What the step a request has reached says about the rest of the state.    *)
StepFacts ==
  task # NoTask =>
    /\ task.pc \in {"info", "config", "load", "confirm", "label", "rename"}
         => disk[task.dst] # NoDir
    /\ task.pc \in {"rename", "data", "file", "write", "property"}
         => current # NoProject /\ current.dir = task.dst
    /\ task.pc \in {"unpack", "rename", "data"} => task.op = "importProject"
    /\ task.op = "importProject" => archive # NoArchive

IInv == TypeOK /\ StepFacts /\ OthersUntouched

-----------------------------------------------------------------------------
(* The two ways in which a step changes its request and a directory.        *)

LEMMA GotoFacts ==
  ASSUME task \in Tasks, NEW p \in Pcs, Goto(p)
  PROVE  /\ task' \in Tasks /\ task' # NoTask
         /\ task'.pc = p /\ task'.op = task.op
         /\ task'.src = task.src /\ task'.dst = task.dst
         /\ task'.pre = task.pre
BY MarkersAssumption DEF Goto, Tasks

LEMMA SetDirFacts ==
  ASSUME disk \in Disks, NEW n \in Names, NEW d \in Dir \cup {NoDir}, SetDir(n, d)
  PROVE  /\ disk' \in Disks
         /\ disk'[n] = d
         /\ \A m \in Names \ {n} : disk'[m] = disk[m]
BY DEF SetDir, Disks

(* Partly deleted and partly copied directories are directories.            *)
LEMMA PiecesAreDirs ==
  ASSUME NEW d \in Dir
  PROVE  /\ Remains(d) \subseteq Dir
         /\ Fragments(d) \subseteq Dir
         /\ WithoutInfo(d) \in Dir
<1>1. ASSUME NEW F \in SUBSET d.files, NEW s \in Contents
      PROVE  Piece(d, F, s) \in Dir
  BY DEF Piece, Dir
<1>2. d.saved \in Contents /\ Empty \in Contents /\ Partial \in Contents
  BY ContentsAssumption DEF Dir
<1>3. ASSUME NEW r \in Remains(d)
      PROVE  r \in Dir
  <2>1. PICK F \in SUBSET d.files, s \in {d.saved, Empty} :
          r = Piece(d, F, s)
    BY <1>3 DEF Remains
  <2>2. s \in Contents
    BY <1>2
  <2>3. QED
    BY <1>1, <2>1, <2>2
<1>4. ASSUME NEW r \in Fragments(d)
      PROVE  r \in Dir
  <2>1. PICK F \in SUBSET d.files, s \in {d.saved, Empty, Partial} :
          r = Piece(d, F, s)
    BY <1>4 DEF Fragments
  <2>2. s \in Contents
    BY <1>2
  <2>3. QED
    BY <1>1, <2>1, <2>2
<1>5. WithoutInfo(d) \in Dir
  BY DEF WithoutInfo, Dir
<1>6. QED
  BY <1>3, <1>4, <1>5

(* Deleting a directory removes it or leaves a directory.                   *)
LEMMA DeleteDirFacts ==
  ASSUME disk \in Disks, NEW n \in Names, disk[n] # NoDir, DeleteDir(n)
  PROVE  /\ disk' \in Disks
         /\ \A m \in Names \ {n} : disk'[m] = disk[m]
<1>1. disk[n] \in Dir
  BY DEF Disks
<1>2. CASE SetDir(n, NoDir)
  BY <1>2, SetDirFacts
<1>3. CASE \E r \in Remains(disk[n]) : SetDir(n, r)
  BY <1>1, <1>3, PiecesAreDirs, SetDirFacts
<1>4. QED
  BY <1>2, <1>3 DEF DeleteDir

(* Editing the loaded model touches no directory but its own.               *)
LEMMA WriteModelFacts ==
  ASSUME disk \in Disks, current \in Loaded, NEW c \in Contents, WriteModel(c)
  PROVE  /\ disk' \in Disks /\ current' \in Loaded
         /\ current'.dir = current.dir /\ current'.label = current.label
         /\ current'.mem = c
         /\ \A m \in Names \ {current.dir} : disk'[m] = disk[m]
         /\ disk[current.dir] # NoDir => disk'[current.dir] # NoDir
<1>1. /\ current' \in Loaded /\ current'.dir = current.dir
      /\ current'.label = current.label /\ current'.mem = c
  BY DEF WriteModel, Loaded
<1>2. current.dir \in Names
  BY DEF Loaded
<1>3. CASE UNCHANGED disk
  BY <1>1, <1>3
<1>4. CASE /\ disk[current.dir] # NoDir
           /\ SetDir(current.dir, [disk[current.dir] EXCEPT !.saved = c])
  <2>1. [disk[current.dir] EXCEPT !.saved = c] \in Dir
    BY <1>2, <1>4 DEF Disks, Dir
  <2>2. QED
    BY <1>1, <1>2, <1>4, <2>1, SetDirFacts, MarkersAssumption
<1>5. QED
  BY <1>3, <1>4 DEF WriteModel

(* A step of a handler: the request moves on to p, and no directory other   *)
(* than its target changes.                                                 *)
LEMMA HandlerStep ==
  ASSUME IInv, task # NoTask, NEW p \in Pcs, Goto(p),
         disk' \in Disks,
         \A m \in Names \ {task.dst} : disk'[m] = disk[m],
         current' \in Currents,
         archive' = archive,
         p \in {"info", "config", "load", "confirm", "label", "rename"}
           => disk'[task.dst] # NoDir,
         p \in {"rename", "data", "file", "write", "property"}
           => current' # NoProject /\ current'.dir = task.dst,
         p \in {"unpack", "rename", "data"} => task.op = "importProject"
  PROVE  IInv'
<1>1. task \in Tasks
  BY DEF IInv, TypeOK
<1>2. /\ task' \in Tasks /\ task' # NoTask /\ task'.pc = p
      /\ task'.op = task.op /\ task'.dst = task.dst /\ task'.pre = task.pre
  BY <1>1, GotoFacts
<1>3. TypeOK'
  BY <1>2 DEF IInv, TypeOK
<1>4. StepFacts'
  BY <1>2 DEF IInv, StepFacts
<1>5. OthersUntouched'
  BY <1>2 DEF IInv, OthersUntouched
<1>6. QED
  BY <1>3, <1>4, <1>5 DEF IInv

(* A request is accepted: its handler is at its first step.                 *)
LEMMA RequestStep ==
  ASSUME IInv, NEW o \in Ops, NEW s \in Names, NEW d \in Names,
         NEW p \in {"prepare", "describe", "erase", "unpack", "close", "copy",
                    "write", "property"},
         Begin(o, s, d, p),
         o = "importProject" => archive # NoArchive,
         p = "unpack" => o = "importProject",
         p \in {"write", "property"} => current # NoProject /\ current.dir = d
  PROVE  IInv'
<1>1. p \in Pcs
  BY DEF Pcs
<1>2. task' = [op |-> o, src |-> s, dst |-> d, pc |-> p,
               pre |-> [disk |-> disk, current |-> current]]
  BY DEF Begin
<1>3. task' \in Tasks
  BY <1>1, <1>2 DEF IInv, TypeOK, Tasks
<1>4. UNCHANGED <<disk, current, archive>>
  BY DEF Begin
<1>5. TypeOK'
  BY <1>3, <1>4 DEF IInv, TypeOK
<1>6. StepFacts'
  BY <1>2, <1>4 DEF StepFacts
<1>7. OthersUntouched'
  BY <1>2, <1>4 DEF OthersUntouched
<1>8. QED
  BY <1>5, <1>6, <1>7 DEF IInv

LEMMA RequestInvariant ==
  ASSUME IInv, Request
  PROVE  IInv'
<1>1. ASSUME NEW n \in Names, NEW o \in Creates, Begin(o, n, n, "prepare")
      PROVE  IInv'
  BY <1>1, RequestStep DEF Creates, Ops
<1>2. ASSUME NEW n \in Names, Begin("openProject", n, n, "describe")
      PROVE  IInv'
  BY <1>2, RequestStep DEF Ops
<1>3. ASSUME NEW n \in Names, Begin("deleteProject", n, n, "erase")
      PROVE  IInv'
  BY <1>3, RequestStep DEF Ops
<1>4. ASSUME NEW n \in Names, archive # NoArchive,
             Begin("importProject", n, n, "unpack")
      PROVE  IInv'
  BY <1>4, RequestStep DEF Ops
<1>5. current # NoProject => current.dir \in Names /\ current.label \in Names
  BY DEF IInv, TypeOK, Currents, Loaded
<1>6. ASSUME NEW n \in Names, current # NoProject,
             Begin("saveProjectAs", current.label, n, "close")
      PROVE  IInv'
  BY <1>5, <1>6, RequestStep DEF Ops
<1>7. ASSUME NEW n \in Names, NEW s \in Names, Begin("cloneProject", s, n, "copy")
      PROVE  IInv'
  BY <1>7, RequestStep DEF Ops
<1>8. ASSUME current # NoProject,
             Begin("saveProject", current.dir, current.dir, "write")
      PROVE  IInv'
  BY <1>5, <1>8, RequestStep DEF Ops
<1>9. ASSUME current # NoProject,
             Begin("setProperty", current.dir, current.dir, "property")
      PROVE  IInv'
  BY <1>5, <1>9, RequestStep DEF Ops
<1>10. QED
  BY <1>1, <1>2, <1>3, <1>4, <1>6, <1>7, <1>8, <1>9 DEF Request

(* Between two requests only the type of the state matters.                 *)
LEMMA IdleStep ==
  ASSUME task' = NoTask, disk' \in Disks, current' \in Currents,
         archive' \in Archive \cup {NoArchive}
  PROVE  IInv'
BY DEF IInv, TypeOK, StepFacts, OthersUntouched

LEMMA AnswerInvariant ==
  ASSUME IInv, Answer
  PROVE  IInv'
BY IdleStep DEF Answer, IInv, TypeOK

(* The facts every handler step starts from.                                *)
LEMMA TargetFacts ==
  ASSUME IInv, task # NoTask
  PROVE  /\ task \in Tasks /\ task.dst \in Names /\ task.src \in Names
         /\ task.op \in Ops /\ task.pc \in Pcs
         /\ disk \in Disks /\ disk[task.dst] \in Dir \cup {NoDir}
         /\ disk[task.src] \in Dir \cup {NoDir}
         /\ current \in Currents /\ archive \in Archive \cup {NoArchive}
         /\ AfterFailure \in {"erase", "exc"}
BY DEF IInv, TypeOK, Tasks, Disks, AfterFailure

LEMMA PrepareInvariant ==
  ASSUME IInv, Prepare
  PROVE  IInv'
<1>1. task # NoTask /\ archive' = archive /\ current' = current
  BY DEF Prepare, At
<1>2. ASSUME NEW k \in Kinds,
             SetDir(task.dst, [files |-> {"store"}, label |-> task.dst,
                               kind |-> k, saved |-> Empty]),
             Goto("info")
      PROVE  IInv'
  <2>1. [files |-> {"store"}, label |-> task.dst, kind |-> k, saved |-> Empty] \in Dir
    BY <1>1, TargetFacts, ContentsAssumption DEF Dir, Files
  <2>2. /\ disk' \in Disks /\ disk'[task.dst] # NoDir
        /\ \A m \in Names \ {task.dst} : disk'[m] = disk[m]
    BY <1>1, <1>2, <2>1, TargetFacts, SetDirFacts, MarkersAssumption
  <2>3. QED
    BY <1>1, <1>2, <2>2, TargetFacts, HandlerStep DEF Pcs
<1>3. CASE Goto("erase") /\ UNCHANGED disk
  BY <1>1, <1>3, TargetFacts, HandlerStep DEF Pcs
<1>4. QED
  BY <1>2, <1>3 DEF Prepare

(* Writing one of the files of a directory that is being created.           *)
LEMMA WriteFileInvariant ==
  ASSUME IInv, NEW f \in {"info", "config"}, NEW next \in {"config", "describe"},
         WriteFile(f, next)
  PROVE  IInv'
<1>1. task # NoTask /\ archive' = archive /\ current' = current
  BY DEF WriteFile, At
<1>2. disk[task.dst] \in Dir
  BY TargetFacts DEF WriteFile, At, IInv, StepFacts
<1>3. CASE /\ SetDir(task.dst, [disk[task.dst] EXCEPT !.files = @ \cup {f}])
           /\ Goto(next)
  <2>1. [disk[task.dst] EXCEPT !.files = @ \cup {f}] \in Dir
    BY <1>2 DEF Dir, Files
  <2>2. /\ disk' \in Disks /\ disk'[task.dst] # NoDir
        /\ \A m \in Names \ {task.dst} : disk'[m] = disk[m]
    BY <1>1, <1>3, <2>1, TargetFacts, SetDirFacts, MarkersAssumption
  <2>3. QED
    BY <1>1, <1>3, <2>2, TargetFacts, HandlerStep DEF Pcs
<1>4. CASE DeleteDir(task.dst) /\ Goto("erase")
  <2>1. disk' \in Disks /\ \A m \in Names \ {task.dst} : disk'[m] = disk[m]
    BY <1>1, <1>2, <1>4, TargetFacts, DeleteDirFacts, MarkersAssumption
  <2>2. QED
    BY <1>1, <1>4, <2>1, TargetFacts, HandlerStep DEF Pcs
<1>5. QED
  BY <1>3, <1>4 DEF WriteFile

(* A handler step that writes the directory d over its target, and keeps a  *)
(* loaded project loaded from the same directory.                           *)
LEMMA TargetStep ==
  ASSUME IInv, task # NoTask, NEW p \in Pcs, Goto(p),
         NEW d \in Dir, SetDir(task.dst, d),
         current' \in Currents, archive' = archive,
         p \in {"rename", "data", "file", "write", "property"}
           => current' # NoProject /\ current'.dir = task.dst,
         p \in {"unpack", "rename", "data"} => task.op = "importProject"
  PROVE  IInv'
<1>1. /\ disk' \in Disks /\ disk'[task.dst] # NoDir
      /\ \A m \in Names \ {task.dst} : disk'[m] = disk[m]
  BY TargetFacts, SetDirFacts, MarkersAssumption
<1>2. QED
  BY <1>1, HandlerStep

LEMMA LoadFileInvariant ==
  ASSUME IInv, LoadFile
  PROVE  IInv'
<1>1. /\ task # NoTask /\ archive' = archive
      /\ current \in Loaded /\ current.dir = task.dst
  BY DEF LoadFile, At, IInv, StepFacts, TypeOK, Currents
<1>2. ASSUME NEW c \in Contents, WriteModel(c), Goto("ok")
      PROVE  IInv'
  <2>1. /\ disk' \in Disks /\ current' \in Currents
        /\ \A m \in Names \ {task.dst} : disk'[m] = disk[m]
    BY <1>1, <1>2, TargetFacts, WriteModelFacts DEF Currents
  <2>2. QED
    BY <1>1, <1>2, <2>1, HandlerStep DEF Pcs, Answers
<1>3. CASE Goto("erase") /\ UNCHANGED <<disk, current>>
  BY <1>1, <1>3, TargetFacts, HandlerStep DEF Pcs
<1>4. QED
  BY <1>2, <1>3 DEF LoadFile

LEMMA DescribeInvariant ==
  ASSUME IInv, Describe
  PROVE  IInv'
<1>1. task # NoTask /\ UNCHANGED <<disk, current, archive>>
  BY DEF Describe, At
<1>2. CASE disk[task.dst] # NoDir /\ Goto("load")
  BY <1>1, <1>2, TargetFacts, HandlerStep DEF Pcs
<1>3. CASE Goto(AfterFailure)
  <2>1. AfterFailure \in Pcs
    BY <1>1, TargetFacts DEF Pcs, Answers
  <2>2. QED
    BY <1>1, <1>3, <2>1, TargetFacts, HandlerStep
<1>4. QED
  BY <1>2, <1>3 DEF Describe

LEMMA LoadFailsInvariant ==
  ASSUME IInv, LoadFails
  PROVE  IInv'
<1>1. /\ task # NoTask /\ current' = current /\ archive' = archive
      /\ disk[task.dst] # NoDir /\ Goto(AfterFailure) /\ DeleteDir(task.dst)
  BY DEF LoadFails, At, IInv, StepFacts
<1>2. disk' \in Disks /\ \A m \in Names \ {task.dst} : disk'[m] = disk[m]
  BY <1>1, TargetFacts, DeleteDirFacts
<1>3. AfterFailure \in Pcs
  BY <1>1, TargetFacts DEF Pcs, Answers
<1>4. QED
  BY <1>1, <1>2, <1>3, TargetFacts, HandlerStep

LEMMA LoadTriplesInvariant ==
  ASSUME IInv, LoadTriples
  PROVE  IInv'
<1>1. /\ task # NoTask /\ UNCHANGED <<disk, current, archive>>
      /\ disk[task.dst] # NoDir /\ Goto("confirm")
  BY DEF LoadTriples, At, IInv, StepFacts
<1>2. QED
  BY <1>1, TargetFacts, HandlerStep DEF Pcs

(* The step after confirmProject depends on who asked for the activation.   *)
LEMMA AfterConfirmFacts ==
  AfterConfirm \in {"file", "rename", "ok"}
    /\ (AfterConfirm = "rename" => task.op = "importProject")
BY DEF AfterConfirm

LEMMA ConfirmInvariant ==
  ASSUME IInv, Confirm
  PROVE  IInv'
<1>1. task # NoTask /\ UNCHANGED <<disk, archive>> /\ disk[task.dst] # NoDir
  BY DEF Confirm, At, IInv, StepFacts
<1>2. CASE /\ current' = [dir |-> task.dst, label |-> disk[task.dst].label,
                          kind |-> disk[task.dst].kind, mem |-> disk[task.dst].saved]
           /\ Goto(AfterConfirm)
  <2>1. current' \in Loaded /\ current'.dir = task.dst
    BY <1>1, <1>2, TargetFacts DEF Dir, Loaded
  <2>2. current' \in Currents /\ current' # NoProject
    BY <2>1, MarkersAssumption DEF Currents
  <2>3. AfterConfirm \in Pcs
    BY AfterConfirmFacts DEF Pcs, Answers
  <2>4. QED
    BY <1>1, <1>2, <2>1, <2>2, <2>3, AfterConfirmFacts, TargetFacts, HandlerStep
<1>3. CASE Goto(AfterFailure) /\ UNCHANGED current
  <2>1. AfterFailure \in Pcs
    BY <1>1, TargetFacts DEF Pcs, Answers
  <2>2. QED
    BY <1>1, <1>3, <2>1, TargetFacts, HandlerStep
<1>4. QED
  BY <1>2, <1>3 DEF Confirm

LEMMA EraseInvariant ==
  ASSUME IInv, Erase
  PROVE  IInv'
<1>1. task # NoTask /\ UNCHANGED <<current, archive>>
  BY DEF Erase, At
<1>2. CASE Goto("exc") /\ UNCHANGED disk
  BY <1>1, <1>2, TargetFacts, HandlerStep DEF Pcs, Answers
<1>3. CASE SetDir(task.dst, NoDir) /\ Goto(EraseAnswer)
  <2>1. disk' \in Disks /\ \A m \in Names \ {task.dst} : disk'[m] = disk[m]
    BY <1>1, <1>3, TargetFacts, SetDirFacts
  <2>2. EraseAnswer \in Answers
    BY DEF EraseAnswer, Answers
  <2>3. QED
    BY <1>1, <1>3, <2>1, <2>2, TargetFacts, HandlerStep DEF Pcs, Answers
<1>4. ASSUME disk[task.dst] # NoDir,
             NEW r \in Remains(disk[task.dst]), SetDir(task.dst, r), Goto("exc")
      PROVE  IInv'
  <2>1. r \in Dir
    BY <1>1, <1>4, TargetFacts, PiecesAreDirs
  <2>2. QED
    BY <1>1, <1>4, <2>1, TargetFacts, TargetStep DEF Pcs, Answers
<1>5. QED
  BY <1>2, <1>3, <1>4 DEF Erase

LEMMA SaveInvariant ==
  ASSUME IInv, Save
  PROVE  IInv'
<1>1. /\ task # NoTask /\ UNCHANGED <<current, archive>>
      /\ current \in Loaded
  BY DEF Save, At, IInv, StepFacts, TypeOK, Currents
<1>2. CASE /\ disk[task.dst] # NoDir
           /\ SetDir(task.dst, [disk[task.dst] EXCEPT !.saved = current.mem])
           /\ Goto("ok")
  <2>1. [disk[task.dst] EXCEPT !.saved = current.mem] \in Dir
    BY <1>1, <1>2, TargetFacts DEF Dir, Loaded
  <2>2. QED
    BY <1>1, <1>2, <2>1, TargetFacts, TargetStep DEF Pcs, Answers
<1>3. CASE Goto("exc") /\ UNCHANGED disk
  BY <1>1, <1>3, TargetFacts, HandlerStep DEF Pcs, Answers
<1>4. QED
  BY <1>2, <1>3 DEF Save

LEMMA SetPropertyInvariant ==
  ASSUME IInv, SetProperty
  PROVE  IInv'
<1>1. /\ task # NoTask /\ UNCHANGED <<current, archive>>
      /\ current \in Loaded
  BY DEF SetProperty, At, IInv, StepFacts, TypeOK, Currents
<1>2. CASE /\ disk[task.dst] # NoDir
           /\ SetDir(task.dst, [disk[task.dst] EXCEPT !.files = @ \cup {"info"},
                                                      !.label = current.label])
           /\ Goto("ok")
  <2>1. [disk[task.dst] EXCEPT !.files = @ \cup {"info"},
                               !.label = current.label] \in Dir
    BY <1>1, <1>2, TargetFacts DEF Dir, Loaded, Files
  <2>2. QED
    BY <1>1, <1>2, <2>1, TargetFacts, TargetStep DEF Pcs, Answers
<1>3. CASE Goto("exc") /\ UNCHANGED disk
  BY <1>1, <1>3, TargetFacts, HandlerStep DEF Pcs, Answers
<1>4. QED
  BY <1>2, <1>3 DEF SetProperty

LEMMA SaveAsCloseInvariant ==
  ASSUME IInv, SaveAsClose
  PROVE  IInv'
<1>1. task # NoTask /\ UNCHANGED <<disk, archive>>
  BY DEF SaveAsClose, At
<1>2. CASE Goto("fail") /\ UNCHANGED current
  BY <1>1, <1>2, TargetFacts, HandlerStep DEF Pcs, Answers
<1>3. CASE current' = NoProject /\ Goto("copy")
  BY <1>1, <1>3, TargetFacts, HandlerStep DEF Pcs, Currents
<1>4. CASE Goto("exc") /\ UNCHANGED current
  BY <1>1, <1>4, TargetFacts, HandlerStep DEF Pcs, Answers
<1>5. QED
  BY <1>2, <1>3, <1>4 DEF SaveAsClose

LEMMA CopyInvariant ==
  ASSUME IInv, Copy
  PROVE  IInv'
<1>1. task # NoTask /\ UNCHANGED <<current, archive>>
  BY DEF Copy, At
<1>2. CASE CanCopy /\ SetDir(task.dst, disk[task.src]) /\ Goto("label")
  <2>1. disk[task.src] \in Dir
    BY <1>1, <1>2, TargetFacts DEF CanCopy
  <2>2. QED
    BY <1>1, <1>2, <2>1, TargetFacts, TargetStep DEF Pcs
<1>3. CASE Goto("exc") /\ UNCHANGED disk
  BY <1>1, <1>3, TargetFacts, HandlerStep DEF Pcs, Answers
<1>4. QED
  BY <1>2, <1>3 DEF Copy

LEMMA LabelInvariant ==
  ASSUME IInv, Label
  PROVE  IInv'
<1> DEFINE next == IF task.op = "saveProjectAs" THEN "describe" ELSE "ok"
<1>1. /\ task # NoTask /\ UNCHANGED <<current, archive>>
      /\ disk[task.dst] # NoDir
  BY DEF Label, At, IInv, StepFacts
<1>2. next \in {"describe", "ok"} /\ next \in Pcs /\ "exc" \in Pcs
  BY DEF Pcs, Answers
<1>3. CASE /\ SetDir(task.dst, [disk[task.dst] EXCEPT !.label = task.dst])
           /\ Goto(next)
  <2>1. [disk[task.dst] EXCEPT !.label = task.dst] \in Dir
    BY <1>1, TargetFacts DEF Dir
  <2> HIDE DEF next
  <2>2. QED
    BY <1>1, <1>2, <1>3, <2>1, TargetFacts, TargetStep
<1>4. ASSUME NEW p \in {"exc", next}, Goto(p), UNCHANGED disk
      PROVE  IInv'
  <2> HIDE DEF next
  <2>1. QED
    BY <1>1, <1>2, <1>4, TargetFacts, HandlerStep
<1>5. QED
  BY <1>3, <1>4 DEF Label

LEMMA UnpackInvariant ==
  ASSUME IInv, Unpack
  PROVE  IInv'
<1>1. /\ task # NoTask /\ UNCHANGED <<current, archive>>
      /\ archive \in Archive
  BY DEF Unpack, At, IInv, StepFacts, TypeOK
<1>2. CASE Goto("fail") /\ UNCHANGED disk
  BY <1>1, <1>2, TargetFacts, HandlerStep DEF Pcs, Answers
<1>3. CASE SetDir(task.dst, Unpacked) /\ Goto("describe")
  <2>1. Unpacked \in Dir
    BY <1>1, ContentsAssumption DEF Unpacked, Archive, Dir, Files
  <2>2. QED
    BY <1>1, <1>3, <2>1, TargetFacts, TargetStep DEF Pcs
<1>4. QED
  BY <1>2, <1>3 DEF Unpack

LEMMA RenameInvariant ==
  ASSUME IInv, Rename
  PROVE  IInv'
<1>1. /\ task # NoTask /\ archive' = archive /\ disk[task.dst] # NoDir
      /\ current \in Loaded /\ current.dir = task.dst
      /\ task.op = "importProject" /\ Goto("data")
      /\ current' = [current EXCEPT !.label = task.dst]
  BY DEF Rename, At, IInv, StepFacts, TypeOK, Currents
<1>2. current' \in Loaded /\ current'.dir = task.dst
  BY <1>1, TargetFacts DEF Loaded
<1>3. current' \in Currents /\ current' # NoProject
  BY <1>2, MarkersAssumption DEF Currents
<1>4. [disk[task.dst] EXCEPT !.label = task.dst] \in Dir
  BY <1>1, TargetFacts DEF Dir
<1>5. QED
  BY <1>1, <1>2, <1>3, <1>4, TargetFacts, TargetStep DEF Rename, Pcs

LEMMA LoadDataInvariant ==
  ASSUME IInv, LoadData
  PROVE  IInv'
<1>1. /\ task # NoTask /\ archive' = archive /\ archive \in Archive
      /\ current \in Loaded /\ current.dir = task.dst
  BY DEF LoadData, At, IInv, StepFacts, TypeOK, Currents
<1>2. CASE WriteModel(archive.content) /\ Goto("ok")
  <2>1. archive.content \in Contents
    BY <1>1 DEF Archive
  <2>2. /\ disk' \in Disks /\ current' \in Currents
        /\ \A m \in Names \ {task.dst} : disk'[m] = disk[m]
    BY <1>1, <1>2, <2>1, TargetFacts, WriteModelFacts DEF Currents
  <2>3. QED
    BY <1>1, <1>2, <2>2, HandlerStep DEF Pcs, Answers
<1>3. CASE Goto("exc") /\ UNCHANGED <<disk, current>>
  BY <1>1, <1>3, TargetFacts, HandlerStep DEF Pcs, Answers
<1>4. QED
  BY <1>2, <1>3 DEF LoadData

(* The requests that are served in one step.                                *)
LEMMA OneStepInvariant ==
  ASSUME IInv, CloseProject \/ ExportProject \/ RepairProject \/ Edit
  PROVE  IInv'
<1>1. /\ disk \in Disks /\ current \in Currents /\ archive \in Archive \cup {NoArchive}
      /\ current # NoProject => current \in Loaded
  BY DEF IInv, TypeOK, Currents
<1>2. CASE CloseProject
  BY <1>1, <1>2, IdleStep DEF CloseProject, Currents
<1>3. CASE ExportProject
  <2>1. /\ current \in Loaded /\ disk[current.dir] \in Dir
        /\ task' = NoTask /\ UNCHANGED <<disk, current>>
    BY <1>1, <1>3 DEF ExportProject, Disks, Loaded
  <2>2. [label |-> disk[current.dir].label, kind |-> disk[current.dir].kind,
         content |-> current.mem] \in Archive
    BY <2>1 DEF Archive, Dir, Loaded
  <2>3. QED
    BY <1>1, <1>3, <2>1, <2>2, IdleStep DEF ExportProject
<1>4. CASE RepairProject
  <2>1. PICK n \in Names :
          /\ disk[n] # NoDir
          /\ SetDir(n, [disk[n] EXCEPT !.files = @ \cup {"config"}])
    BY <1>4 DEF RepairProject
  <2>2. [disk[n] EXCEPT !.files = @ \cup {"config"}] \in Dir
    BY <1>1, <2>1 DEF Disks, Dir, Files
  <2>3. disk' \in Disks
    BY <1>1, <2>1, <2>2, SetDirFacts
  <2>4. QED
    BY <1>1, <1>4, <2>3, IdleStep DEF RepairProject
<1>5. CASE Edit
  <2>1. PICK c \in Contents : WriteModel(c)
    BY <1>5 DEF Edit
  <2>2. disk' \in Disks /\ current' \in Currents
    BY <1>1, <1>5, <2>1, WriteModelFacts DEF Edit, Currents
  <2>3. QED
    BY <1>1, <1>5, <2>2, IdleStep DEF Edit
<1>6. QED
  BY <1>2, <1>3, <1>4, <1>5

(* A write that is cut short leaves a directory behind.                     *)
LEMMA TornDirs ==
  ASSUME IInv, task # NoTask
  PROVE  Torn \subseteq Dir
<1>1. ASSUME NEW n \in Names, disk[n] # NoDir
      PROVE  /\ disk[n] \in Dir
             /\ Remains(disk[n]) \subseteq Dir
             /\ Fragments(disk[n]) \subseteq Dir
             /\ WithoutInfo(disk[n]) \in Dir
             /\ [disk[n] EXCEPT !.saved = Partial] \in Dir
  <2>1. disk[n] \in Dir
    BY <1>1, TargetFacts DEF Disks
  <2>2. [disk[n] EXCEPT !.saved = Partial] \in Dir
    BY <2>1, ContentsAssumption DEF Dir
  <2>3. QED
    BY <2>1, <2>2, PiecesAreDirs
<1>2. CASE task.pc = "erase"
  BY <1>1, <1>2, TargetFacts DEF Torn
<1>3. CASE task.pc = "load"
  <2>1. disk[task.dst] # NoDir
    BY <1>3 DEF IInv, StepFacts
  <2>2. QED
    BY <1>1, <1>3, <2>1, TargetFacts DEF Torn
<1>4. CASE task.pc = "copy"
  BY <1>1, <1>4, TargetFacts DEF Torn, CanCopy
<1>5. CASE task.pc = "unpack"
  <2>1. archive \in Archive
    BY <1>5, TargetFacts DEF IInv, StepFacts
  <2>2. ASSUME NEW F \in {{}, {"info"}, {"info", "config"}}
        PROVE  [Unpacked EXCEPT !.files = F] \in Dir
    BY <2>1, ContentsAssumption DEF Unpacked, Archive, Dir, Files
  <2>3. QED
    BY <1>5, <2>2 DEF Torn
<1>6. CASE task.pc = "label"
  <2>1. disk[task.dst] # NoDir
    BY <1>6 DEF IInv, StepFacts
  <2>2. QED
    BY <1>1, <1>6, <2>1, TargetFacts DEF Torn
<1>7. CASE task.pc \in {"confirm", "rename", "property"}
  BY <1>1, <1>7, TargetFacts DEF Torn
<1>8. CASE task.pc = "write"
  BY <1>1, <1>8, TargetFacts DEF Torn
<1>9. CASE task.pc \notin {"erase", "load", "copy", "unpack", "label", "confirm",
                          "rename", "property", "write"}
  BY <1>9 DEF Torn
<1>10. QED
  BY <1>2, <1>3, <1>4, <1>5, <1>6, <1>7, <1>8, <1>9

LEMMA IOErrorInvariant ==
  ASSUME IInv, IOError
  PROVE  IInv'
<1>1. task # NoTask /\ archive' = archive /\ Goto(AfterFailure)
  BY DEF IOError
<1>2. PICK d \in Torn : SetDir(task.dst, d)
  BY DEF IOError
<1>3. d \in Dir
  BY <1>1, TornDirs
<1>4. AfterFailure \in Pcs
  BY <1>1, TargetFacts DEF Pcs, Answers
<1>5. current' \in Currents
  <2>1. CASE task.pc = "rename"
    <3>1. current \in Loaded
      BY <1>1, <2>1, TargetFacts DEF IInv, StepFacts, Currents
    <3>2. [current EXCEPT !.label = task.dst] \in Loaded
      BY <1>1, <3>1, TargetFacts DEF Loaded
    <3>3. QED
      BY <2>1, <3>2 DEF IOError, Currents
  <2>2. CASE task.pc # "rename"
    BY <1>1, <2>2, TargetFacts DEF IOError
  <2>3. QED
    BY <2>1, <2>2
<1>6. QED
  BY <1>1, <1>2, <1>3, <1>4, <1>5, TargetFacts, TargetStep

LEMMA CrashInvariant ==
  ASSUME IInv, Crash
  PROVE  IInv'
<1>1. /\ task' = NoTask /\ current' \in Currents
      /\ archive' \in Archive \cup {NoArchive} /\ disk \in Disks
  BY DEF Crash, Currents, IInv, TypeOK
<1>2. ASSUME task # NoTask, NEW d \in Torn, SetDir(task.dst, d)
      PROVE  disk' \in Disks
  <2>1. d \in Dir
    BY <1>2, TornDirs
  <2>2. QED
    BY <1>2, <2>1, TargetFacts, SetDirFacts
<1>3. disk' \in Disks
  BY <1>1, <1>2 DEF Crash
<1>4. QED
  BY <1>1, <1>3, IdleStep

-----------------------------------------------------------------------------
LEMMA Initially ==
  ASSUME Init
  PROVE  IInv
BY DEF Init, IInv, TypeOK, StepFacts, OthersUntouched, Disks, Currents

LEMMA Inductive ==
  ASSUME IInv, [Next]_vars
  PROVE  IInv'
<1>1. CASE UNCHANGED vars
  BY <1>1 DEF vars, IInv, TypeOK, StepFacts, OthersUntouched
<1>2. CASE WriteInfo
  BY <1>2, WriteFileInvariant DEF WriteInfo
<1>3. CASE WriteConfig
  BY <1>3, WriteFileInvariant DEF WriteConfig
<1>4. CASE Request \/ Answer \/ Prepare \/ LoadFile \/ Describe \/ LoadFails
  BY <1>4, RequestInvariant, AnswerInvariant, PrepareInvariant,
     LoadFileInvariant, DescribeInvariant, LoadFailsInvariant
<1>5. CASE LoadTriples \/ Confirm \/ Erase \/ Save \/ SetProperty \/ SaveAsClose
  BY <1>5, LoadTriplesInvariant, ConfirmInvariant, EraseInvariant,
     SaveInvariant, SetPropertyInvariant, SaveAsCloseInvariant
<1>6. CASE Copy \/ Label \/ Unpack \/ Rename \/ LoadData
  BY <1>6, CopyInvariant, LabelInvariant, UnpackInvariant, RenameInvariant,
     LoadDataInvariant
<1>7. CASE \/ CloseProject \/ ExportProject \/ RepairProject \/ Edit
           \/ IOError \/ Crash
  BY <1>7, OneStepInvariant, IOErrorInvariant, CrashInvariant
<1>8. QED
  BY <1>1, <1>2, <1>3, <1>4, <1>5, <1>6, <1>7 DEF Next

THEOREM InvariantHolds == Spec => []IInv
BY Initially, Inductive, PTL DEF Spec

(* Every state has its type, whatever fails: in particular a handler always *)
(* finds the directory and the loaded project that its step works on.       *)
THEOREM TypeCorrect == Spec => []TypeOK
<1>1. IInv => TypeOK
  BY DEF IInv
<1>2. QED
  BY <1>1, InvariantHolds, PTL

(* Whatever fails and whenever the server stops, a request changes no       *)
(* project directory but its target.                                        *)
THEOREM TargetsOnly == Spec => []OthersUntouched
<1>1. IInv => OthersUntouched
  BY DEF IInv
<1>2. QED
  BY <1>1, InvariantHolds, PTL

-----------------------------------------------------------------------------
(* Answers *)

(* The steps of each handler.                                               *)
Stage ==
  /\ task.op \in Creates => task.pc \in {"prepare", "info", "config", "describe", "load",
                                         "confirm", "file", "erase", "ok", "exc"}
  /\ task.op = "openProject" => task.pc \in {"describe", "load", "confirm", "ok", "exc"}
  /\ task.op = "deleteProject" => task.pc \in {"erase", "ok", "exc"}
  /\ task.op = "saveProject" => task.pc \in {"write", "ok", "exc"}
  /\ task.op = "setProperty" => task.pc \in {"property", "ok", "exc"}
  /\ task.op = "cloneProject" => task.pc \in {"copy", "label", "ok", "exc"}
  /\ task.op = "saveProjectAs" => task.pc \in {"close", "copy", "label", "describe", "load",
                                              "confirm", "ok", "exc", "fail"}
  /\ task.op = "importProject" => task.pc \in {"unpack", "describe", "load", "confirm",
                                              "rename", "data", "ok", "exc", "fail"}

(* Nothing has been changed yet.                                            *)
Start ==
  /\ task.pc \in {"prepare", "unpack", "close", "write", "property", "copy", "fail"}
       => disk = task.pre.disk
  /\ task.pc \in {"prepare", "unpack", "close", "write", "property", "fail"}
       => current = task.pre.current
  /\ task.op = "cloneProject" /\ task.pc \in {"copy", "label"}
       => current = task.pre.current

(* A handler that has not failed has not lost what it found in its target.  *)
TargetKept ==
  task.op # "deleteProject" /\ task.pc \notin {"erase", "exc"} /\ task.pre.disk[task.dst] # NoDir =>
    disk[task.dst] # NoDir /\ task.pre.disk[task.dst].files \subseteq disk[task.dst].files

OpenReads ==
  task.op = "openProject" =>
    /\ task.pc \in {"describe", "load", "confirm", "ok"} => disk = task.pre.disk
    /\ task.pc = "ok" => /\ current # NoProject /\ current.dir = task.dst
                         /\ current.mem = task.pre.disk[task.dst].saved

(* The copy is the source, and then the source under its own name.          *)
CopyOf(d) == [task.pre.disk[task.src] EXCEPT !.label = d.label]

CopyMakes ==
  task.op \in {"cloneProject", "saveProjectAs"} =>
    /\ task.pc \in {"label", "describe", "load", "confirm"} =>
         disk[task.dst] # NoDir /\ disk[task.dst] = CopyOf(disk[task.dst])
    /\ task.pc \in {"describe", "load", "confirm"} /\ "info" \in disk[task.dst].files =>
         disk[task.dst].label = task.dst
    /\ task.pc \in {"load", "confirm"} => "info" \in disk[task.dst].files
    /\ task.pc \in {"label", "describe", "load", "confirm"} => task.pre.disk[task.src] # NoDir

ImportMakes ==
  task.op = "importProject" =>
    /\ task.pc \in {"describe", "load", "confirm", "rename", "data", "ok"} =>
         task.pre.disk[task.dst] = NoDir /\ disk[task.dst] # NoDir
    /\ task.pc \in {"describe", "load", "confirm"} => disk[task.dst] = Unpacked
    /\ task.pc \in {"rename", "data"} =>
         current # NoProject /\ current.dir = task.dst /\ current.kind = archive.kind
    /\ task.pc = "data" => current.label = task.dst /\ disk[task.dst].label = task.dst

History ==
  task # NoTask =>
    /\ Stage /\ Start /\ TargetKept /\ OpenReads /\ CopyMakes /\ ImportMakes
    /\ SaveIsDurable /\ CopiesAreFaithful /\ ImportRestoresExport

AInv == IInv /\ History

-----------------------------------------------------------------------------
(* What a step finds, and what it leaves of its request.                    *)
LEMMA Found ==
  ASSUME AInv, task # NoTask
  PROVE  /\ History /\ disk \in Disks /\ current \in Currents
         /\ task.dst \in Names /\ task.src \in Names /\ task.op \in Ops
         /\ disk[task.dst] \in Dir \cup {NoDir} /\ disk[task.src] \in Dir \cup {NoDir}
         /\ task.pre.disk \in Disks /\ task.pre.current \in Currents
         /\ task.pre.disk[task.src] \in Dir \cup {NoDir}
BY TargetFacts DEF AInv, IInv, TypeOK, Tasks, Disks

LEMMA Moved ==
  ASSUME AInv, task # NoTask, NEW p \in Pcs, Goto(p)
  PROVE  /\ task' # NoTask /\ task'.pc = p /\ task'.op = task.op /\ task'.dst = task.dst
         /\ task'.src = task.src /\ task'.pre = task.pre
BY GotoFacts DEF AInv, IInv, TypeOK

(* Which request has come to a step.                                        *)
LEMMA OpAt ==
  ASSUME AInv, task # NoTask
  PROVE  /\ task.pc \in {"prepare", "info", "config", "file"} => task.op \in Creates
         /\ task.pc = "erase" => task.op \in Creates \cup {"deleteProject"}
         /\ task.pc \in {"describe", "load", "confirm"} =>
              task.op \in Creates \cup {"openProject", "saveProjectAs", "importProject"}
         /\ task.pc = "write" => task.op = "saveProject"
         /\ task.pc = "property" => task.op = "setProperty"
         /\ task.pc = "close" => task.op = "saveProjectAs"
         /\ task.pc \in {"copy", "label"} => task.op \in {"cloneProject", "saveProjectAs"}
         /\ task.pc \in {"unpack", "rename", "data"} => task.op = "importProject"
BY Found DEF History, Stage, Ops, Creates

-----------------------------------------------------------------------------
(* The handler gives up: the history does not bind it any more.             *)
LEMMA GivenUp ==
  ASSUME AInv, task # NoTask, NEW p \in {"erase", "exc"}, Goto(p),
         p = "erase" => task.op \in Creates
  PROVE  History'
<1>1. /\ task' # NoTask /\ task'.pc = p /\ task'.op = task.op /\ task'.dst = task.dst
      /\ task'.src = task.src /\ task'.pre = task.pre
  BY Moved DEF Pcs, Answers
<1>2. task.op \in Ops
  BY TargetFacts DEF AInv
<1>3. QED
  BY <1>1, <1>2 DEF History, Stage, Start, TargetKept, OpenReads, CopyMakes, ImportMakes,
     SaveIsDurable, CopiesAreFaithful, ImportRestoresExport, Answered, Creates, Ops

LEMMA FailedHistory ==
  ASSUME AInv, task # NoTask, Goto(AfterFailure)
  PROVE  History'
BY TargetFacts, GivenUp DEF AInv, AfterFailure

(* A step that changes neither directories nor the loaded project.          *)
LEMMA PassedHistory ==
  ASSUME AInv, Describe \/ LoadTriples
  PROVE  History'
<1>1. task # NoTask /\ UNCHANGED <<disk, current, archive>> /\ task.pc \in {"describe", "load"}
  BY DEF Describe, LoadTriples, At
<1>2. CASE Goto(AfterFailure)
  BY <1>1, <1>2, FailedHistory
<1>3. ASSUME NEW p \in {"load", "confirm"}, Goto(p), p = "load" => "info" \in disk[task.dst].files,
             p = "confirm" => task.pc = "load"
      PROVE  History'
  <2>1. /\ task' # NoTask /\ task'.pc = p /\ task'.op = task.op /\ task'.dst = task.dst
        /\ task'.src = task.src /\ task'.pre = task.pre
    BY <1>1, <1>3, Moved DEF Pcs
  <2>2. History /\ Unpacked' = Unpacked
    BY <1>1, Found DEF Unpacked
  <2>3. task.op \in Creates \cup {"openProject", "saveProjectAs", "importProject"}
    BY <1>1, OpAt
  <2>4. Stage' /\ Start' /\ TargetKept' /\ OpenReads'
    BY <1>1, <1>3, <2>1, <2>2, <2>3 DEF History, Stage, Start, TargetKept, OpenReads, Creates
  <2>5. CopyMakes' /\ ImportMakes'
    BY <1>1, <1>3, <2>1, <2>2, <2>3 DEF History, CopyMakes, CopyOf, ImportMakes, Creates
  <2>6. SaveIsDurable' /\ CopiesAreFaithful' /\ ImportRestoresExport'
    BY <1>3, <2>1 DEF SaveIsDurable, CopiesAreFaithful, ImportRestoresExport, Answered
  <2>7. QED
    BY <2>4, <2>5, <2>6 DEF History
<1>4. QED
  BY <1>1, <1>2, <1>3 DEF Describe, LoadTriples, At

(* A request is accepted, with the state it found.                          *)
LEMMA BegunHistory ==
  ASSUME NEW o \in Ops, NEW s, NEW d, NEW p, Begin(o, s, d, p),
         \/ o \in Creates /\ p = "prepare"
         \/ o = "openProject" /\ p = "describe"
         \/ o = "deleteProject" /\ p = "erase"
         \/ o = "importProject" /\ p = "unpack"
         \/ o = "saveProjectAs" /\ p = "close"
         \/ o = "cloneProject" /\ p = "copy"
         \/ o = "saveProject" /\ p = "write"
         \/ o = "setProperty" /\ p = "property"
  PROVE  History'
<1>1. /\ task' = [op |-> o, src |-> s, dst |-> d, pc |-> p,
                  pre |-> [disk |-> disk, current |-> current]]
      /\ UNCHANGED <<disk, current, archive>>
  BY DEF Begin
<1>2. Stage' /\ Start' /\ TargetKept' /\ OpenReads'
  BY <1>1 DEF Stage, Start, TargetKept, OpenReads, Creates
<1>3. CopyMakes' /\ ImportMakes'
  BY <1>1 DEF CopyMakes, ImportMakes, Creates
<1>4. SaveIsDurable' /\ CopiesAreFaithful' /\ ImportRestoresExport'
  BY <1>1 DEF SaveIsDurable, CopiesAreFaithful, ImportRestoresExport, Answered
<1>5. QED
  BY <1>2, <1>3, <1>4 DEF History

LEMMA RequestHistory ==
  ASSUME AInv, Request
  PROVE  History'
BY BegunHistory DEF Request, Creates, Ops

LEMMA IdleHistory ==
  ASSUME task' = NoTask
  PROVE  History'
BY DEF History

(* Creations: their target was free.                                        *)
LEMMA CreatedHistory ==
  ASSUME AInv, task # NoTask, task.op \in Creates, NEW p \in {"info", "config", "describe", "file", "ok"},
         Goto(p), task.pc \in {"prepare", "info", "config", "confirm", "file"},
         task.pre.disk[task.dst] # NoDir =>
           disk'[task.dst] # NoDir /\ task.pre.disk[task.dst].files \subseteq disk'[task.dst].files
  PROVE  History'
<1>1. /\ task' # NoTask /\ task'.pc = p /\ task'.op = task.op /\ task'.dst = task.dst
      /\ task'.src = task.src /\ task'.pre = task.pre
  BY Moved DEF Pcs, Answers
<1>2. Stage' /\ Start' /\ TargetKept' /\ OpenReads'
  BY <1>1 DEF Stage, Start, TargetKept, OpenReads, Creates
<1>3. CopyMakes' /\ ImportMakes'
  BY <1>1 DEF CopyMakes, ImportMakes, Creates
<1>4. SaveIsDurable' /\ CopiesAreFaithful' /\ ImportRestoresExport'
  BY <1>1 DEF SaveIsDurable, CopiesAreFaithful, ImportRestoresExport, Answered, Creates
<1>5. QED
  BY <1>2, <1>3, <1>4 DEF History

LEMMA PrepareHistory ==
  ASSUME AInv, Prepare
  PROVE  History'
<1>1. task # NoTask /\ task.pc = "prepare" /\ task.op \in Creates
  BY OpAt DEF Prepare, At
<1>2. CASE Goto("erase")
  BY <1>1, <1>2, GivenUp
<1>3. CASE disk[task.dst] = NoDir /\ Goto("info")
  BY <1>1, <1>3, Found, CreatedHistory DEF History, Start
<1>4. QED
  BY <1>2, <1>3 DEF Prepare

LEMMA WriteFileHistory ==
  ASSUME AInv, NEW f \in {"info", "config"}, NEW next \in {"config", "describe"}, WriteFile(f, next)
  PROVE  History'
<1>1. task # NoTask /\ task.pc = f /\ task.op \in Creates
  BY OpAt DEF WriteFile, At
<1>2. CASE Goto("erase")
  BY <1>1, <1>2, GivenUp
<1>3. CASE Goto(next) /\ SetDir(task.dst, [disk[task.dst] EXCEPT !.files = @ \cup {f}])
  <2>1. disk[task.dst] \in Dir
    BY <1>1, Found DEF AInv, IInv, StepFacts
  <2> DEFINE d == [disk[task.dst] EXCEPT !.files = @ \cup {f}]
  <2>2. d \in Dir /\ disk[task.dst].files \subseteq d.files
    BY <2>1 DEF Dir, Files
  <2>3. disk'[task.dst] = d /\ d # NoDir
    BY <1>1, <1>3, <2>2, Found, SetDirFacts, MarkersAssumption
  <2>4. task.pre.disk[task.dst] # NoDir => task.pre.disk[task.dst].files \subseteq disk[task.dst].files
    BY <1>1, Found DEF History, TargetKept, Creates
  <2>5. QED
    BY <1>1, <1>3, <2>2, <2>3, <2>4, CreatedHistory
<1>4. QED
  BY <1>2, <1>3 DEF WriteFile

(* Writing into the model changes the saved content at most.                *)
LEMMA WriteModelSaves ==
  ASSUME disk \in Disks, current \in Loaded, NEW c \in Contents, WriteModel(c)
  PROVE  /\ \A n \in Names : disk[n] # NoDir =>
              disk'[n] # NoDir /\ disk'[n].files = disk[n].files /\ disk'[n].label = disk[n].label
         /\ current' = [dir |-> current.dir, label |-> current.label, kind |-> current.kind, mem |-> c]
<1>1. current' = [dir |-> current.dir, label |-> current.label, kind |-> current.kind, mem |-> c]
  BY DEF WriteModel, Loaded
<1>2. CASE UNCHANGED disk
  BY <1>1, <1>2
<1>3. CASE /\ disk[current.dir] # NoDir
           /\ SetDir(current.dir, [disk[current.dir] EXCEPT !.saved = c])
  <2> DEFINE d == [disk[current.dir] EXCEPT !.saved = c]
  <2>1. current.dir \in Names
    BY DEF Loaded
  <2>2. disk[current.dir] \in Dir
    BY <1>3, <2>1 DEF Disks
  <2>3. d \in Dir /\ d.files = disk[current.dir].files /\ d.label = disk[current.dir].label
    BY <2>2 DEF Dir
  <2>4. disk'[current.dir] = d /\ d # NoDir /\ \A m \in Names \ {current.dir} : disk'[m] = disk[m]
    BY <1>3, <2>1, <2>3, SetDirFacts, MarkersAssumption
  <2>5. QED
    BY <1>1, <2>3, <2>4
<1>4. QED
  BY <1>2, <1>3 DEF WriteModel

LEMMA LoadFileHistory ==
  ASSUME AInv, LoadFile
  PROVE  History'
<1>1. task # NoTask /\ task.pc = "file" /\ task.op \in Creates
  BY OpAt DEF LoadFile, At
<1>2. CASE Goto("erase")
  BY <1>1, <1>2, GivenUp
<1>3. ASSUME NEW c \in Contents, WriteModel(c), Goto("ok") PROVE History'
  <2>1. current \in Loaded /\ disk \in Disks /\ task.dst \in Names
    BY <1>1, Found DEF AInv, IInv, StepFacts, Currents
  <2>2. task.pre.disk[task.dst] # NoDir =>
          disk[task.dst] # NoDir /\ task.pre.disk[task.dst].files \subseteq disk[task.dst].files
    BY <1>1, Found DEF History, TargetKept, Creates
  <2>3. QED
    BY <1>1, <1>3, <2>1, <2>2, WriteModelSaves, CreatedHistory
<1>4. QED
  BY <1>2, <1>3 DEF LoadFile

(* A step that ends a request which is neither a copy nor an import.        *)
LEMMA ConfirmHistory ==
  ASSUME AInv, Confirm
  PROVE  History'
<1>1. task # NoTask /\ task.pc = "confirm" /\ UNCHANGED <<disk, archive>>
      /\ task.op \in Creates \cup {"openProject", "saveProjectAs", "importProject"}
  BY OpAt DEF Confirm, At
<1>2. CASE Goto(AfterFailure)
  BY <1>1, <1>2, FailedHistory
<1>3. CASE /\ current' = [dir |-> task.dst, label |-> disk[task.dst].label,
                         kind |-> disk[task.dst].kind, mem |-> disk[task.dst].saved]
           /\ Goto(AfterConfirm)
  <2>1. History /\ disk[task.dst] \in Dir /\ disk[task.dst] # NoDir /\ task.dst \in Names
    BY <1>1, Found, MarkersAssumption DEF AInv, IInv, StepFacts
  <2>2. current' # NoProject
    <3>1. current' \in Loaded
      BY <1>3, <2>1 DEF Dir, Loaded
    <3>2. QED
      BY <3>1, MarkersAssumption
  <2>3. CASE task.op \in Creates
    <3>1. AfterConfirm \in {"file", "ok"}
      BY <2>3 DEF AfterConfirm, Creates
    <3>2. task.pre.disk[task.dst] # NoDir =>
            disk[task.dst] # NoDir /\ task.pre.disk[task.dst].files \subseteq disk[task.dst].files
      BY <1>1, <2>1, <2>3 DEF History, TargetKept, Creates
    <3>3. QED
      BY <1>1, <1>3, <2>3, <3>1, <3>2, CreatedHistory
  <2>4. CASE task.op = "openProject"
    <3>1. Goto("ok")
      BY <1>3, <2>4 DEF AfterConfirm
    <3>2. /\ task' # NoTask /\ task'.pc = "ok" /\ task'.op = task.op /\ task'.dst = task.dst
          /\ task'.src = task.src /\ task'.pre = task.pre
      BY <1>1, <3>1, Moved DEF Pcs, Answers
    <3>3. disk = task.pre.disk
      BY <1>1, <2>1, <2>4 DEF History, OpenReads
    <3>4. Stage' /\ Start' /\ TargetKept' /\ OpenReads' /\ CopyMakes' /\ ImportMakes'
      BY <1>1, <1>3, <2>2, <2>4, <3>2, <3>3
         DEF Stage, Start, TargetKept, OpenReads, CopyMakes, ImportMakes, Creates
    <3>5. SaveIsDurable' /\ CopiesAreFaithful' /\ ImportRestoresExport'
      BY <2>4, <3>2 DEF SaveIsDurable, CopiesAreFaithful, ImportRestoresExport, Answered
    <3>6. QED
      BY <3>4, <3>5 DEF History
  <2>5. CASE task.op = "saveProjectAs"
    <3>1. Goto("ok")
      BY <1>3, <2>5 DEF AfterConfirm
    <3>2. /\ task' # NoTask /\ task'.pc = "ok" /\ task'.op = task.op /\ task'.dst = task.dst
          /\ task'.src = task.src /\ task'.pre = task.pre
      BY <1>1, <3>1, Moved DEF Pcs, Answers
    <3>3. /\ disk[task.dst] = CopyOf(disk[task.dst]) /\ disk[task.dst].label = task.dst
      BY <1>1, <2>1, <2>5 DEF History, CopyMakes
    <3>4. disk[task.dst].saved = task.pre.disk[task.src].saved
      <4>1. disk[task.dst].saved = CopyOf(disk[task.dst]).saved
        BY <3>3
      <4>2. task.pre.disk[task.src] \in Dir
        BY <1>1, Found, <2>5, <2>1 DEF History, CopyMakes
      <4>3. QED
        BY <4>1, <4>2 DEF CopyOf, Dir
    <3>5. Stage' /\ Start' /\ TargetKept' /\ OpenReads' /\ CopyMakes' /\ ImportMakes'
      BY <1>1, <2>1, <2>5, <3>2
         DEF History, Stage, Start, TargetKept, OpenReads, CopyMakes, ImportMakes, Creates
    <3>6. SaveIsDurable' /\ CopiesAreFaithful' /\ ImportRestoresExport'
      BY <1>3, <2>2, <2>5, <3>2, <3>3, <3>4
         DEF SaveIsDurable, CopiesAreFaithful, ImportRestoresExport, Answered
    <3>7. QED
      BY <3>5, <3>6 DEF History
  <2>6. CASE task.op = "importProject"
    <3>1. Goto("rename")
      BY <1>3, <2>6 DEF AfterConfirm
    <3>2. /\ task' # NoTask /\ task'.pc = "rename" /\ task'.op = task.op /\ task'.dst = task.dst
          /\ task'.src = task.src /\ task'.pre = task.pre
      BY <1>1, <3>1, Moved DEF Pcs
    <3>3. disk[task.dst].kind = archive.kind /\ task.pre.disk[task.dst] = NoDir
      BY <1>1, <2>1, <2>6 DEF History, ImportMakes, Unpacked
    <3>4. Stage' /\ Start' /\ TargetKept' /\ OpenReads' /\ CopyMakes' /\ ImportMakes'
      BY <1>1, <1>3, <2>1, <2>2, <2>6, <3>2, <3>3
         DEF Stage, Start, TargetKept, OpenReads, CopyMakes, ImportMakes, Creates
    <3>5. SaveIsDurable' /\ CopiesAreFaithful' /\ ImportRestoresExport'
      BY <2>6, <3>2 DEF SaveIsDurable, CopiesAreFaithful, ImportRestoresExport, Answered
    <3>6. QED
      BY <3>4, <3>5 DEF History
  <2>7. QED
    BY <1>1, <2>3, <2>4, <2>5, <2>6
<1>4. QED
  BY <1>2, <1>3 DEF Confirm

LEMMA EraseHistory ==
  ASSUME AInv, Erase
  PROVE  History'
<1>1. task # NoTask /\ task.pc = "erase" /\ task.op \in Creates \cup {"deleteProject"}
  BY OpAt DEF Erase, At
<1>2. CASE Goto("exc")
  BY <1>1, <1>2, GivenUp
<1>3. CASE task.op = "deleteProject" /\ Goto("ok")
  <2>1. /\ task' # NoTask /\ task'.pc = "ok" /\ task'.op = task.op
    BY <1>1, <1>3, Moved DEF Pcs, Answers
  <2>2. QED
    BY <1>3, <2>1 DEF History, Stage, Start, TargetKept, OpenReads, CopyMakes, ImportMakes,
       SaveIsDurable, CopiesAreFaithful, ImportRestoresExport, Answered, Creates
<1>4. QED
  BY <1>2, <1>3 DEF Erase, EraseAnswer

LEMMA SaveHistory ==
  ASSUME AInv, Save \/ SetProperty
  PROVE  History'
<1>1. /\ task # NoTask /\ UNCHANGED <<current, archive>>
      /\ \/ Save /\ task.pc = "write" /\ task.op = "saveProject"
         \/ SetProperty /\ task.pc = "property" /\ task.op = "setProperty"
      /\ current # NoProject /\ current.dir = task.dst /\ current = task.pre.current
      /\ disk = task.pre.disk
  BY OpAt, Found DEF Save, SetProperty, At, AInv, IInv, StepFacts, History, Start
<1>2. CASE Goto("exc")
  BY <1>1, <1>2, GivenUp
<1>3. ASSUME NEW d \in Dir, disk[task.dst] # NoDir, SetDir(task.dst, d), Goto("ok"),
             disk[task.dst].files \subseteq d.files, Save => d.saved = current.mem
      PROVE  History'
  <2>1. /\ task' # NoTask /\ task'.pc = "ok" /\ task'.op = task.op /\ task'.dst = task.dst
        /\ task'.src = task.src /\ task'.pre = task.pre
    BY <1>1, <1>3, Moved DEF Pcs, Answers
  <2>2. disk'[task.dst] = d /\ d # NoDir
    BY <1>1, <1>3, Found, SetDirFacts, MarkersAssumption
  <2>3. Stage' /\ Start' /\ TargetKept' /\ OpenReads' /\ CopyMakes' /\ ImportMakes'
    BY <1>1, <1>3, <2>1, <2>2
       DEF Stage, Start, TargetKept, OpenReads, CopyMakes, ImportMakes, Creates
  <2>4. SaveIsDurable' /\ CopiesAreFaithful' /\ ImportRestoresExport'
    BY <1>1, <1>3, <2>1, <2>2 DEF SaveIsDurable, CopiesAreFaithful, ImportRestoresExport, Answered
  <2>5. QED
    BY <2>3, <2>4 DEF History
<1>4. current \in Loaded /\ (disk[task.dst] # NoDir => disk[task.dst] \in Dir)
  BY <1>1, Found DEF Currents
<1>5. CASE Save /\ disk[task.dst] # NoDir
  <2> DEFINE d == [disk[task.dst] EXCEPT !.saved = current.mem]
  <2>1. d \in Dir /\ d.saved = current.mem /\ d.files = disk[task.dst].files
    BY <1>4, <1>5 DEF Dir, Loaded
  <2>2. SetDir(task.dst, d) /\ Goto("ok")
    BY <1>5 DEF Save
  <2>3. QED
    BY <1>3, <1>5, <2>1, <2>2
<1>6. CASE SetProperty /\ ~Save /\ disk[task.dst] # NoDir
  <2> DEFINE d == [disk[task.dst] EXCEPT !.files = @ \cup {"info"}, !.label = current.label]
  <2>1. d \in Dir /\ disk[task.dst].files \subseteq d.files
    BY <1>4, <1>6 DEF Dir, Loaded, Files
  <2>2. SetDir(task.dst, d) /\ Goto("ok")
    BY <1>6 DEF SetProperty
  <2>3. QED
    BY <1>3, <1>6, <2>1, <2>2
<1>7. QED
  BY <1>2, <1>5, <1>6 DEF Save, SetProperty

LEMMA SaveAsCloseHistory ==
  ASSUME AInv, SaveAsClose
  PROVE  History'
<1>1. /\ task # NoTask /\ task.pc = "close" /\ task.op = "saveProjectAs" /\ UNCHANGED <<disk, archive>>
      /\ disk = task.pre.disk /\ current = task.pre.current
  BY OpAt, Found DEF SaveAsClose, At, History, Start
<1>2. CASE Goto("exc")
  BY <1>1, <1>2, GivenUp
<1>3. ASSUME NEW p \in {"fail", "copy"}, Goto(p), p = "fail" => current' = current
      PROVE  History'
  <2>1. /\ task' # NoTask /\ task'.pc = p /\ task'.op = task.op /\ task'.dst = task.dst
        /\ task'.src = task.src /\ task'.pre = task.pre
    BY <1>1, <1>3, Moved DEF Pcs, Answers
  <2>2. Stage' /\ Start' /\ TargetKept' /\ OpenReads' /\ CopyMakes' /\ ImportMakes'
    BY <1>1, <1>3, <2>1
       DEF Stage, Start, TargetKept, OpenReads, CopyMakes, ImportMakes, Creates
  <2>3. SaveIsDurable' /\ CopiesAreFaithful' /\ ImportRestoresExport'
    BY <1>3, <2>1 DEF SaveIsDurable, CopiesAreFaithful, ImportRestoresExport, Answered
  <2>4. QED
    BY <2>2, <2>3 DEF History
<1>4. QED
  BY <1>2, <1>3 DEF SaveAsClose

LEMMA CopyHistory ==
  ASSUME AInv, Copy
  PROVE  History'
<1>1. /\ task # NoTask /\ task.pc = "copy" /\ task.op \in {"cloneProject", "saveProjectAs"}
      /\ UNCHANGED <<current, archive>> /\ disk = task.pre.disk
      /\ task.op = "cloneProject" => current = task.pre.current
  BY OpAt, Found DEF Copy, At, History, Start
<1>2. CASE Goto("exc")
  BY <1>1, <1>2, GivenUp
<1>3. CASE CanCopy /\ SetDir(task.dst, disk[task.src]) /\ Goto("label")
  <2>1. /\ task' # NoTask /\ task'.pc = "label" /\ task'.op = task.op /\ task'.dst = task.dst
        /\ task'.src = task.src /\ task'.pre = task.pre
    BY <1>1, <1>3, Moved DEF Pcs
  <2>2. /\ disk[task.src] # NoDir /\ disk[task.src] \in Dir /\ disk[task.dst] = NoDir
    BY <1>1, <1>3, Found DEF CanCopy
  <2>3. disk'[task.dst] = disk[task.src]
    BY <1>1, <1>3, <2>2, Found, SetDirFacts
  <2>4. disk'[task.dst] = [task.pre.disk[task.src] EXCEPT !.label = disk'[task.dst].label]
    BY <1>1, <2>2, <2>3 DEF Dir
  <2>5. Stage' /\ Start' /\ TargetKept' /\ OpenReads' /\ ImportMakes'
    BY <1>1, <2>1, <2>2
       DEF Stage, Start, TargetKept, OpenReads, ImportMakes, Creates
  <2>6. CopyMakes'
    BY <1>1, <2>1, <2>2, <2>3, <2>4 DEF CopyMakes, CopyOf
  <2>7. SaveIsDurable' /\ CopiesAreFaithful' /\ ImportRestoresExport'
    BY <2>1 DEF SaveIsDurable, CopiesAreFaithful, ImportRestoresExport, Answered
  <2>8. QED
    BY <2>5, <2>6, <2>7 DEF History
<1>4. QED
  BY <1>2, <1>3 DEF Copy

LEMMA LabelHistory ==
  ASSUME AInv, Label
  PROVE  History'
<1> DEFINE next == IF task.op = "saveProjectAs" THEN "describe" ELSE "ok"
<1>1. /\ task # NoTask /\ task.pc = "label" /\ task.op \in {"cloneProject", "saveProjectAs"}
      /\ UNCHANGED <<current, archive>>
      /\ disk[task.dst] # NoDir /\ disk[task.dst] = CopyOf(disk[task.dst])
      /\ task.op = "cloneProject" => current = task.pre.current
      /\ task.pre.disk[task.dst] # NoDir => task.pre.disk[task.dst].files \subseteq disk[task.dst].files
      /\ task.pre.disk[task.src] # NoDir
  BY OpAt, Found DEF Label, At, History, Start, CopyMakes, TargetKept
<1>2. disk[task.dst] \in Dir /\ task.pre.disk[task.src] \in Dir /\ task.dst \in Names
  BY <1>1, Found
<1>3. CASE Goto("exc")
  BY <1>1, <1>3, GivenUp
<1>4. ASSUME Goto(next), disk'[task.dst] # NoDir,
             disk'[task.dst] = CopyOf(disk'[task.dst]),
             disk'[task.dst].files = disk[task.dst].files,
             "info" \in disk'[task.dst].files => disk'[task.dst].label = task.dst
      PROVE  History'
  <2>1. /\ task' # NoTask /\ task'.pc = next /\ task'.op = task.op /\ task'.dst = task.dst
        /\ task'.src = task.src /\ task'.pre = task.pre
    BY <1>1, <1>4, Moved DEF Pcs, Answers
  <2>2. Stage' /\ Start' /\ TargetKept' /\ OpenReads' /\ ImportMakes'
    BY <1>1, <1>4, <2>1
       DEF Stage, Start, TargetKept, OpenReads, ImportMakes, Creates
  <2>3. CopyMakes'
    BY <1>1, <1>4, <2>1 DEF CopyMakes, CopyOf
  <2>4. SaveIsDurable' /\ CopiesAreFaithful' /\ ImportRestoresExport'
    BY <1>1, <1>4, <2>1 DEF SaveIsDurable, CopiesAreFaithful, ImportRestoresExport, Answered, CopyOf
  <2>5. QED
    BY <2>2, <2>3, <2>4 DEF History
<1>5. CASE "info" \in disk[task.dst].files /\ Goto(next)
           /\ SetDir(task.dst, [disk[task.dst] EXCEPT !.label = task.dst])
  <2> DEFINE d == [disk[task.dst] EXCEPT !.label = task.dst]
  <2>1. d \in Dir /\ d.label = task.dst /\ d.files = disk[task.dst].files
    BY <1>2 DEF Dir
  <2>2. d = CopyOf(d)
    <3>1. CopyOf(disk[task.dst]) = [task.pre.disk[task.src] EXCEPT !.label = disk[task.dst].label]
      BY DEF CopyOf
    <3>2. d = [task.pre.disk[task.src] EXCEPT !.label = task.dst]
      BY <1>1, <1>2, <3>1 DEF Dir
    <3>3. QED
      BY <2>1, <3>2 DEF CopyOf
  <2>3. disk'[task.dst] = d /\ d # NoDir
    BY <1>1, <1>2, <1>5, <2>1, Found, SetDirFacts, MarkersAssumption
  <2>4. QED
    BY <1>4, <1>5, <2>1, <2>2, <2>3
<1>6. CASE "info" \notin disk[task.dst].files /\ Goto(next) /\ UNCHANGED disk
  BY <1>1, <1>4, <1>6
<1>7. QED
  BY <1>3, <1>5, <1>6 DEF Label

LEMMA UnpackHistory ==
  ASSUME AInv, Unpack
  PROVE  History'
<1>1. /\ task # NoTask /\ task.pc = "unpack" /\ task.op = "importProject"
      /\ UNCHANGED <<current, archive>> /\ disk = task.pre.disk /\ current = task.pre.current
  BY OpAt, Found DEF Unpack, At, History, Start
<1>2. ASSUME NEW p \in {"fail", "describe"}, Goto(p), p = "fail" => UNCHANGED disk,
             p = "describe" => disk[task.dst] = NoDir /\ SetDir(task.dst, Unpacked)
      PROVE  History'
  <2>1. /\ task' # NoTask /\ task'.pc = p /\ task'.op = task.op /\ task'.dst = task.dst
        /\ task'.src = task.src /\ task'.pre = task.pre
    BY <1>1, <1>2, Moved DEF Pcs, Answers
  <2>2. p = "describe" => disk'[task.dst] = Unpacked /\ Unpacked' = Unpacked /\ Unpacked # NoDir
    <3>1. archive \in Archive
      BY <1>1 DEF AInv, IInv, TypeOK, StepFacts
    <3>2. Unpacked \in Dir
      BY <3>1, ContentsAssumption DEF Unpacked, Dir, Archive
    <3>3. Unpacked' = Unpacked
      BY <1>1 DEF Unpacked
    <3>4. QED
      BY <1>1, <1>2, <3>2, <3>3, Found, SetDirFacts, MarkersAssumption
  <2>3. Stage' /\ Start' /\ TargetKept' /\ OpenReads' /\ CopyMakes'
    BY <1>1, <1>2, <2>1
       DEF Stage, Start, TargetKept, OpenReads, CopyMakes, Creates
  <2>4. ImportMakes'
    BY <1>1, <1>2, <2>1, <2>2 DEF ImportMakes
  <2>5. SaveIsDurable' /\ CopiesAreFaithful' /\ ImportRestoresExport'
    BY <1>2, <2>1 DEF SaveIsDurable, CopiesAreFaithful, ImportRestoresExport, Answered
  <2>6. QED
    BY <2>3, <2>4, <2>5 DEF History
<1>3. QED
  BY <1>2 DEF Unpack

LEMMA RenameHistory ==
  ASSUME AInv, Rename
  PROVE  History'
<1> DEFINE d == [disk[task.dst] EXCEPT !.label = task.dst]
<1>1. /\ task # NoTask /\ task.pc = "rename" /\ task.op = "importProject" /\ UNCHANGED archive
      /\ SetDir(task.dst, d) /\ Goto("data")
      /\ current' = [current EXCEPT !.label = task.dst]
      /\ current # NoProject /\ current.dir = task.dst /\ current.kind = archive.kind
      /\ task.pre.disk[task.dst] = NoDir /\ disk[task.dst] # NoDir
  BY OpAt, Found DEF Rename, At, History, ImportMakes
<1>2. disk[task.dst] \in Dir /\ current \in Loaded /\ task.dst \in Names
  BY <1>1, Found DEF Currents
<1>3. d \in Dir /\ d.label = task.dst
  BY <1>2 DEF Dir
<1>4. disk'[task.dst] = d /\ d # NoDir
  BY <1>1, <1>2, <1>3, Found, SetDirFacts, MarkersAssumption
<1>5. /\ task' # NoTask /\ task'.pc = "data" /\ task'.op = task.op /\ task'.dst = task.dst
      /\ task'.src = task.src /\ task'.pre = task.pre
  BY <1>1, Moved DEF Pcs
<1>6. /\ current' \in Loaded /\ current'.dir = task.dst /\ current'.label = task.dst
      /\ current'.kind = archive.kind
  BY <1>1, <1>2 DEF Loaded
<1>7. current' # NoProject
  BY <1>6, MarkersAssumption
<1> HIDE DEF d
<1>8. Stage' /\ Start' /\ TargetKept' /\ OpenReads' /\ CopyMakes'
  BY <1>1, <1>5
     DEF Stage, Start, TargetKept, OpenReads, CopyMakes, Creates
<1>9. ImportMakes'
  BY <1>1, <1>3, <1>4, <1>5, <1>6, <1>7 DEF ImportMakes
<1>10. SaveIsDurable' /\ CopiesAreFaithful' /\ ImportRestoresExport'
  BY <1>5 DEF SaveIsDurable, CopiesAreFaithful, ImportRestoresExport, Answered
<1>11. QED
  BY <1>8, <1>9, <1>10 DEF History

LEMMA LoadDataHistory ==
  ASSUME AInv, LoadData
  PROVE  History'
<1>1. /\ task # NoTask /\ task.pc = "data" /\ task.op = "importProject" /\ UNCHANGED archive
      /\ current # NoProject /\ current.dir = task.dst /\ current.label = task.dst
      /\ current.kind = archive.kind /\ disk[task.dst].label = task.dst
      /\ task.pre.disk[task.dst] = NoDir /\ disk[task.dst] # NoDir /\ archive # NoArchive
  BY OpAt, Found DEF LoadData, At, History, ImportMakes, AInv, IInv, StepFacts
<1>2. CASE Goto("exc")
  BY <1>1, <1>2, GivenUp
<1>3. CASE WriteModel(archive.content) /\ Goto("ok")
  <2>1. /\ current \in Loaded /\ archive \in Archive /\ disk \in Disks /\ task.dst \in Names
    BY <1>1, Found DEF Currents, AInv, IInv, TypeOK
  <2>2. archive.content \in Contents
    BY <2>1 DEF Archive
  <2>3. /\ disk'[task.dst] # NoDir /\ disk'[task.dst].label = task.dst
        /\ current' = [dir |-> task.dst, label |-> task.dst, kind |-> archive.kind,
                       mem |-> archive.content]
    BY <1>1, <1>3, <2>1, <2>2, WriteModelSaves
  <2>4. /\ task' # NoTask /\ task'.pc = "ok" /\ task'.op = task.op /\ task'.dst = task.dst
        /\ task'.src = task.src /\ task'.pre = task.pre
    BY <1>1, <1>3, Moved DEF Pcs, Answers
  <2>5. Stage' /\ Start' /\ TargetKept' /\ OpenReads' /\ CopyMakes' /\ ImportMakes'
    BY <1>1, <2>3, <2>4
       DEF Stage, Start, TargetKept, OpenReads, CopyMakes, ImportMakes, Creates
  <2>6. SaveIsDurable' /\ CopiesAreFaithful' /\ ImportRestoresExport'
    BY <1>1, <2>3, <2>4 DEF SaveIsDurable, CopiesAreFaithful, ImportRestoresExport, Answered
  <2>7. QED
    BY <2>5, <2>6 DEF History
<1>4. QED
  BY <1>2, <1>3 DEF LoadData

LEMMA HistoryKept ==
  ASSUME AInv, [Next]_vars
  PROVE  AInv'
<1>1. IInv'
  BY Inductive DEF AInv
<1>2. CASE UNCHANGED vars
  BY <1>1, <1>2 DEF vars, AInv, History, Stage, Start, TargetKept, OpenReads, CopyMakes, CopyOf,
     ImportMakes, Unpacked, SaveIsDurable, CopiesAreFaithful, ImportRestoresExport, Answered
<1>3. CASE Answer \/ Crash \/ CloseProject \/ ExportProject \/ RepairProject \/ Edit
  BY <1>1, <1>3, IdleHistory
     DEF AInv, Answer, Crash, CloseProject, ExportProject, RepairProject, Edit
<1>4. CASE IOError
  BY <1>1, <1>4, FailedHistory DEF AInv, IOError
<1>5. CASE LoadFails
  BY <1>1, <1>5, FailedHistory DEF AInv, LoadFails, At
<1>6. CASE Request \/ Prepare \/ WriteInfo \/ WriteConfig \/ LoadFile
  BY <1>1, <1>6, RequestHistory, PrepareHistory, WriteFileHistory, LoadFileHistory
     DEF AInv, WriteInfo, WriteConfig
<1>7. CASE Describe \/ LoadTriples \/ Confirm \/ Erase \/ Save \/ SetProperty \/ SaveAsClose
  BY <1>1, <1>7, PassedHistory, ConfirmHistory, EraseHistory, SaveHistory, SaveAsCloseHistory
     DEF AInv
<1>8. CASE Copy \/ Label \/ Unpack \/ Rename \/ LoadData
  BY <1>1, <1>8, CopyHistory, LabelHistory, UnpackHistory, RenameHistory, LoadDataHistory
     DEF AInv
<1>9. QED
  BY <1>2, <1>3, <1>4, <1>5, <1>6, <1>7, <1>8 DEF Next

LEMMA HistoryHolds == Spec => []AInv
<1>1. Init => AInv
  BY Initially DEF Init, AInv, History
<1>2. AInv /\ [Next]_vars => AInv'
  BY HistoryKept
<1>3. QED
  BY <1>1, <1>2, PTL DEF Spec

(* Whatever fails, "ok" hides no loss and "fail" no effect: an answer is    *)
(* true of every directory and of the loaded project.                       *)
THEOREM NoAnswerLies == Spec => []AnswersAreTrue
<1>1. AInv => AnswersAreTrue
  <2>1. SUFFICES ASSUME AInv, task # NoTask
                 PROVE  /\ OkLosesNothing /\ FailChangesNothing
                        /\ OpenShowsWhatWasSaved /\ SaveIsDurable
    BY DEF AnswersAreTrue
  <2>2. History /\ OthersUntouched
    BY <2>1, Found DEF AInv, IInv
  <2>3. OkLosesNothing
    <3>1. SUFFICES ASSUME task.pc = "ok", task.op # "deleteProject", NEW n \in Names,
                          task.pre.disk[n] # NoDir
                   PROVE  disk[n] # NoDir /\ task.pre.disk[n].files \subseteq disk[n].files
      BY DEF OkLosesNothing
    <3>2. CASE n = task.dst
      BY <2>1, <2>2, <3>1, <3>2 DEF History, TargetKept
    <3>3. CASE n # task.dst
      BY <2>1, <2>2, <3>1, <3>3 DEF OthersUntouched
    <3>4. QED
      BY <3>2, <3>3
  <2>4. FailChangesNothing
    BY <2>1, <2>2 DEF History, Start, FailChangesNothing
  <2>5. OpenShowsWhatWasSaved
    BY <2>1, <2>2 DEF History, OpenReads, OpenShowsWhatWasSaved
  <2>6. QED
    BY <2>1, <2>2, <2>3, <2>4, <2>5 DEF History
<1>2. QED
  BY <1>1, HistoryHolds, PTL

(* Whatever fails, a copy that was answered "ok" is its source under its    *)
(* own name, and a project that was saved as another one is loaded.         *)
THEOREM CopiesAreCopies == Spec => []CopiesAreFaithful
<1>1. AInv => CopiesAreFaithful
  BY DEF AInv, History, CopiesAreFaithful, Answered
<1>2. QED
  BY <1>1, HistoryHolds, PTL

(* Whatever fails, an import that was answered "ok" has loaded what was     *)
(* exported, under the new name, into a directory that was not there.       *)
THEOREM ImportsRestore == Spec => []ImportRestoresExport
<1>1. AInv => ImportRestoresExport
  BY DEF AInv, History, ImportRestoresExport, Answered
<1>2. QED
  BY <1>1, HistoryHolds, PTL

-----------------------------------------------------------------------------
(***************************************************************************)
(* What holds of the project manager while no write fails, no plugin is    *)
(* missing and the server does not stop inside a handler: models may still *)
(* fail to load and stores to close.  The labels written in the project    *)
(* files are then the names of the directories, which the guard of         *)
(* deleteProject relies on.                                                *)
(***************************************************************************)

(* n is the directory of a project whose files are being written.           *)
Building(n) ==
  task # NoTask /\ task.dst = n /\ task.pc \in {"info", "config"}

Whole ==
  \A n \in Names : disk[n] # NoDir =>
    /\ disk[n].saved # Partial
    /\ ~Building(n) => disk[n].files = Files

BuildFacts ==
  task # NoTask =>
    /\ task.pc = "info" => disk[task.dst].files = {"store"}
    /\ task.pc = "config" => disk[task.dst].files = {"store", "info"}
    /\ task.op = "importProject" /\ task.pc = "describe" => disk[task.dst] # NoDir

Clean ==
  /\ current # NoProject => current.mem # Partial
  /\ archive # NoArchive => archive.content # Partial

QInv == IInv /\ Whole /\ BuildFacts /\ Clean /\ LabelsMatch

ImportWindow == {"describe", "load", "confirm", "rename"}

-----------------------------------------------------------------------------
(* A handler step keeps QInv if it leaves its target whole, and labelled    *)
(* unless the target is about to be labelled.                               *)
LEMMA QuietStep ==
  ASSUME QInv, IInv', task # NoTask, NEW p \in Pcs, Goto(p),
         \A m \in Names \ {task.dst} : disk'[m] = disk[m],
         archive' = archive,
         disk'[task.dst] # NoDir =>
           /\ disk'[task.dst].saved # Partial
           /\ p \notin {"info", "config"} => disk'[task.dst].files = Files
           /\ \/ disk'[task.dst].label = task.dst
              \/ p = "label"
              \/ task.op = "importProject" /\ p \in ImportWindow,
         p = "info" => disk'[task.dst].files = {"store"},
         p = "config" => disk'[task.dst].files = {"store", "info"},
         task.op = "importProject" /\ p = "describe" => disk'[task.dst] # NoDir,
         current' # NoProject =>
           /\ current'.mem # Partial
           /\ p = "rename" \/ current'.label = current'.dir
  PROVE  QInv'
<1>1. /\ task' # NoTask /\ task'.pc = p
      /\ task'.op = task.op /\ task'.dst = task.dst
  BY TargetFacts, GotoFacts DEF QInv
<1>2. task.dst \in Names
  BY TargetFacts DEF QInv
<1>3. \A m \in Names \ {task.dst} :
        disk[m] # NoDir => /\ disk[m].saved # Partial
                           /\ disk[m].files = Files
                           /\ disk[m].label = m
  BY DEF QInv, Whole, Building, LabelsMatch, Relabelling
<1>4. Whole'
  BY <1>1, <1>2, <1>3 DEF Whole, Building
<1>5. BuildFacts'
  BY <1>1 DEF BuildFacts
<1>6. Clean'
  BY DEF QInv, Clean
<1>7. LabelsMatch'
  BY <1>1, <1>2, <1>3 DEF LabelsMatch, Relabelling, At, ImportWindow
<1>8. QED
  BY <1>4, <1>5, <1>6, <1>7 DEF QInv

(* What a handler finds in its target.                                      *)
LEMMA QuietTarget ==
  ASSUME QInv, task # NoTask
  PROVE  /\ IInv /\ task \in Tasks /\ task.dst \in Names
         /\ disk[task.dst] # NoDir =>
              /\ disk[task.dst] \in Dir
              /\ disk[task.dst].saved # Partial
              /\ task.pc \notin {"info", "config"} => disk[task.dst].files = Files
              /\ \/ disk[task.dst].label = task.dst
                 \/ task.pc = "label"
                 \/ task.op = "importProject" /\ task.pc \in ImportWindow
         /\ current # NoProject =>
              /\ current \in Loaded /\ current.mem # Partial
              /\ task.pc = "rename" \/ current.label = current.dir
BY TargetFacts
   DEF QInv, Whole, Building, Clean, LabelsMatch, Relabelling, At, ImportWindow, Currents

(* A step that ends or redirects a request and writes nothing.              *)
LEMMA QuietMove ==
  ASSUME QInv, task # NoTask,
         NEW p \in {"erase", "copy", "load", "confirm", "exc", "fail", "ok"}, Goto(p),
         UNCHANGED <<disk, archive>>, current' \in {current, NoProject},
         task.pc # "rename", task.pc # "label",
         task.pc \notin {"info", "config"},
         task.op = "importProject" /\ task.pc \in ImportWindow
           => p \in {"load", "confirm"},
         IInv'
  PROVE  QInv'
<1>1. p \in Pcs
  BY DEF Pcs, Answers
<1>2. QED
  BY <1>1, QuietTarget, QuietStep DEF ImportWindow

-----------------------------------------------------------------------------
(* Between requests nothing is being built, copied or unpacked.             *)
LEMMA QuietIdle ==
  ASSUME IInv', task' = NoTask,
         \A n \in Names : disk'[n] # NoDir =>
           /\ disk'[n].saved # Partial
           /\ disk'[n].files = Files
           /\ disk'[n].label = n,
         current' # NoProject => /\ current'.mem # Partial
                                 /\ current'.label = current'.dir,
         archive' # NoArchive => archive'.content # Partial
  PROVE  QInv'
BY DEF QInv, Whole, BuildFacts, Clean, LabelsMatch

LEMMA QuietIdleBefore ==
  ASSUME QInv, task = NoTask
  PROVE  /\ \A n \in Names : disk[n] # NoDir =>
              /\ disk[n] \in Dir
              /\ disk[n].saved # Partial
              /\ disk[n].files = Files
              /\ disk[n].label = n
         /\ current # NoProject => /\ current \in Loaded
                                   /\ current.mem # Partial
                                   /\ current.label = current.dir
         /\ archive # NoArchive => archive.content # Partial
BY DEF QInv, IInv, TypeOK, Disks, Currents, Whole, Building, Clean, LabelsMatch,
       Relabelling, At

(* Writing a complete content into the model leaves whole directories whole.*)
LEMMA QuietWrite ==
  ASSUME disk \in Disks, current \in Loaded, NEW c \in Contents, WriteModel(c)
  PROVE  \A n \in Names : disk'[n] # NoDir =>
           /\ disk[n] # NoDir
           /\ disk'[n].files = disk[n].files /\ disk'[n].label = disk[n].label
           /\ disk'[n].saved \in {disk[n].saved, c}
<1>1. current.dir \in Names
  BY DEF Loaded
<1>2. CASE UNCHANGED disk
  BY <1>2
<1>3. CASE /\ disk[current.dir] # NoDir
           /\ SetDir(current.dir, [disk[current.dir] EXCEPT !.saved = c])
  <2>1. disk[current.dir] \in Dir
    BY <1>1, <1>3 DEF Disks
  <2> DEFINE d == [disk[current.dir] EXCEPT !.saved = c]
  <2>2. /\ d \in Dir /\ d.saved = c
        /\ d.files = disk[current.dir].files /\ d.label = disk[current.dir].label
    BY <2>1 DEF Dir
  <2> HIDE DEF d
  <2>3. disk'[current.dir] = d
    BY <1>1, <1>3, <2>2, SetDirFacts DEF d
  <2>4. \A m \in Names \ {current.dir} : disk'[m] = disk[m]
    BY <1>1, <1>3, <2>2, SetDirFacts DEF d
  <2>5. QED
    BY <1>3, <2>2, <2>3, <2>4
<1>4. QED
  BY <1>2, <1>3 DEF WriteModel

LEMMA RequestQuiet ==
  ASSUME QInv, Request, IInv'
  PROVE  QInv'
<1> DEFINE First(o, s, d, p) == Begin(o, s, d, p) /\ (p = "describe" => o = "openProject")
<1> DEFINE Steps == {"prepare", "describe", "erase", "unpack", "close", "copy",
                     "write", "property"}
<1>a. \E o, s, d : \E p \in Steps : First(o, s, d, p)
  <2>1. ASSUME NEW o, NEW s, NEW d, NEW p \in Steps, Begin(o, s, d, p),
               p = "describe" => o = "openProject"
        PROVE  \E oo, ss, dd : \E pp \in Steps : First(oo, ss, dd, pp)
    BY <2>1
  <2> HIDE DEF First
  <2>2. QED
    BY <2>1 DEF Request
<1>b. PICK o, s, d, p : p \in Steps /\ First(o, s, d, p)
  BY <1>a
<1>1. /\ task = NoTask /\ UNCHANGED <<disk, current, archive>>
      /\ task'.pc \in Steps
      /\ task'.pc = "describe" => task'.op = "openProject"
  <2>1. task' = [op |-> o, src |-> s, dst |-> d, pc |-> p,
                 pre |-> [disk |-> disk, current |-> current]]
    BY <1>b DEF Begin
  <2>2. QED
    BY <1>b, <2>1 DEF Begin
<1>2. Whole'
  BY <1>1, QuietIdleBefore DEF Whole
<1>3. BuildFacts'
  BY <1>1 DEF BuildFacts
<1>4. Clean'
  BY <1>1 DEF QInv, Clean
<1>5. LabelsMatch'
  BY <1>1, QuietIdleBefore DEF LabelsMatch
<1>6. QED
  BY <1>2, <1>3, <1>4, <1>5 DEF QInv

LEMMA AnswerQuiet ==
  ASSUME QInv, Answer, IInv'
  PROVE  QInv'
<1>1. /\ task # NoTask /\ task' = NoTask /\ UNCHANGED <<disk, current, archive>>
      /\ task.pc \in {"ok", "fail", "exc"}
  BY DEF Answer, Answers
<1>2. \A n \in Names : disk[n] # NoDir =>
        disk[n].saved # Partial /\ disk[n].files = Files /\ disk[n].label = n
  BY <1>1 DEF QInv, Whole, Building, LabelsMatch, Relabelling
<1>3. current # NoProject => current.mem # Partial /\ current.label = current.dir
  BY <1>1, QuietTarget
<1>4. QED
  BY <1>1, <1>2, <1>3, QuietIdle DEF QInv, Clean

LEMMA OneStepQuiet ==
  ASSUME QInv, Quiet, CloseProject \/ ExportProject \/ RepairProject \/ Edit, IInv'
  PROVE  QInv'
<1>1. task = NoTask /\ task' = NoTask
  BY DEF CloseProject, ExportProject, RepairProject, Edit
<1>2. CASE CloseProject
  BY <1>1, <1>2, QuietIdleBefore, QuietIdle DEF CloseProject
<1>3. CASE ExportProject
  <2>1. archive' # NoArchive => archive'.content = current.mem
    BY <1>3 DEF ExportProject
  <2>2. UNCHANGED <<disk, current>> /\ current # NoProject
    BY <1>3 DEF ExportProject
  <2>3. QED
    BY <1>1, <2>1, <2>2, QuietIdleBefore, QuietIdle
<1>4. CASE RepairProject
  <2>1. PICK n \in Names :
          /\ disk[n] # NoDir
          /\ SetDir(n, [disk[n] EXCEPT !.files = @ \cup {"config"}])
    BY <1>4 DEF RepairProject
  <2>2. disk[n] \in Dir /\ disk[n].files = Files
    BY <1>1, <2>1, QuietIdleBefore
  <2>3. [disk[n] EXCEPT !.files = @ \cup {"config"}] = disk[n]
    BY <2>2 DEF Dir, Files
  <2>4. disk' = disk
    BY <2>1, <2>3 DEF SetDir, QInv, IInv, TypeOK, Disks
  <2>5. QED
    BY <1>1, <1>4, <2>4, QuietIdleBefore, QuietIdle DEF RepairProject
<1>5. CASE Edit
  <2>1. PICK c \in Contents \ {Partial} : WriteModel(c)
    BY <1>5 DEF Edit
  <2>2. current \in Loaded /\ disk \in Disks
    BY <1>5 DEF Edit, QInv, IInv, TypeOK, Currents
  <2>3. \A n \in Names : disk'[n] # NoDir =>
          disk'[n].saved # Partial /\ disk'[n].files = Files /\ disk'[n].label = n
    BY <1>1, <2>1, <2>2, QuietIdleBefore, QuietWrite
  <2>4. current'.mem # Partial /\ current'.label = current'.dir
    BY <1>1, <1>5, <2>1, <2>2, QuietIdleBefore, WriteModelFacts DEF Edit
  <2>5. QED
    BY <1>1, <1>5, <2>3, <2>4, QuietIdleBefore, QuietIdle DEF Edit
<1>6. QED
  BY <1>2, <1>3, <1>4, <1>5

-----------------------------------------------------------------------------
(* The handlers, step by step.                                              *)

LEMMA QuietFaults ==
  ASSUME Quiet
  PROVE  "io" \notin Faults /\ "plugin" \notin Faults /\ "crash" \notin Faults
BY DEF Quiet

(* A step that writes the directory d over its target.                      *)
LEMMA QuietSetDir ==
  ASSUME QInv, IInv', task # NoTask,
         NEW p \in Pcs \ {"rename"}, Goto(p),
         NEW d \in Dir, SetDir(task.dst, d), archive' = archive,
         d.saved # Partial,
         p \notin {"info", "config"} => d.files = Files,
         \/ d.label = task.dst
         \/ p = "label"
         \/ task.op = "importProject" /\ p \in ImportWindow,
         p = "info" => d.files = {"store"},
         p = "config" => d.files = {"store", "info"},
         current' # NoProject => current'.mem # Partial /\ current'.label = current'.dir
  PROVE  QInv'
<1>1. /\ disk'[task.dst] = d /\ d # NoDir
      /\ \A m \in Names \ {task.dst} : disk'[m] = disk[m]
  BY QuietTarget, SetDirFacts, MarkersAssumption DEF IInv, TypeOK
<1>2. QED
  BY <1>1, QuietStep

LEMMA PrepareQuiet ==
  ASSUME QInv, Quiet, Prepare, IInv'
  PROVE  QInv'
<1>1. /\ task # NoTask /\ task.pc = "prepare" /\ archive' = archive
      /\ current' = current
  BY DEF Prepare, At
<1>2. ASSUME NEW k \in Kinds,
             SetDir(task.dst, [files |-> {"store"}, label |-> task.dst,
                               kind |-> k, saved |-> Empty]),
             Goto("info")
      PROVE  QInv'
  <2> DEFINE d == [files |-> {"store"}, label |-> task.dst, kind |-> k, saved |-> Empty]
  <2>1. /\ d \in Dir /\ d.files = {"store"} /\ d.label = task.dst
        /\ d.saved # Partial
    BY <1>1, QuietTarget, ContentsAssumption DEF Dir, Files
  <2>2. SetDir(task.dst, d) /\ "info" \in Pcs \ {"rename"}
    BY <1>2 DEF Pcs
  <2> HIDE DEF d
  <2>3. QED
    BY <1>1, <1>2, <2>1, <2>2, QuietTarget, QuietSetDir
<1>3. CASE Goto("erase") /\ UNCHANGED disk
  BY <1>1, <1>3, QuietMove DEF ImportWindow
<1>4. QED
  BY <1>2, <1>3 DEF Prepare

LEMMA WriteFileQuiet ==
  ASSUME QInv, Quiet, WriteInfo \/ WriteConfig, IInv'
  PROVE  QInv'
<1>1. /\ task # NoTask /\ archive' = archive /\ current' = current
      /\ task.pc \in {"info", "config"}
  BY DEF WriteInfo, WriteConfig, WriteFile, At
<1>2. /\ disk[task.dst] \in Dir /\ disk[task.dst].saved # Partial
      /\ disk[task.dst].label = task.dst
      /\ task.pc = "info" => disk[task.dst].files = {"store"}
      /\ task.pc = "config" => disk[task.dst].files = {"store", "info"}
  BY <1>1, QuietTarget DEF IInv, StepFacts, QInv, BuildFacts, ImportWindow
<1>3. CASE WriteInfo
  <2> DEFINE d == [disk[task.dst] EXCEPT !.files = @ \cup {"info"}]
  <2>1. SetDir(task.dst, d) /\ Goto("config") /\ task.pc = "info"
    BY <1>3, QuietFaults DEF WriteInfo, WriteFile, At
  <2>2. /\ d \in Dir /\ d.files = {"store", "info"}
        /\ d.label = task.dst /\ d.saved # Partial
    BY <1>2, <2>1 DEF Dir, Files
  <2> HIDE DEF d
  <2>3. QED
    BY <1>1, <2>1, <2>2, QuietTarget, QuietSetDir DEF Pcs
<1>4. CASE WriteConfig
  <2> DEFINE d == [disk[task.dst] EXCEPT !.files = @ \cup {"config"}]
  <2>1. SetDir(task.dst, d) /\ Goto("describe") /\ task.pc = "config"
    BY <1>4, QuietFaults DEF WriteConfig, WriteFile, At
  <2>2. /\ d \in Dir /\ d.files = Files
        /\ d.label = task.dst /\ d.saved # Partial
    BY <1>2, <2>1 DEF Dir, Files
  <2> HIDE DEF d
  <2>3. QED
    BY <1>1, <2>1, <2>2, QuietTarget, QuietSetDir DEF Pcs
<1>5. QED
  BY <1>3, <1>4

(* Writing into the model of the project a handler has loaded.              *)
LEMMA WriteModelQuiet ==
  ASSUME QInv, task # NoTask, current # NoProject, current.dir = task.dst,
         task.pc \in {"file", "data"},
         NEW c \in Contents \ {Partial}, WriteModel(c), Goto("ok"),
         archive' = archive, IInv'
  PROVE  QInv'
<1>1. current \in Loaded /\ disk \in Disks
  BY QuietTarget DEF IInv, TypeOK
<1>2. /\ current' \in Loaded /\ current'.mem # Partial
      /\ current'.label = current'.dir
      /\ \A m \in Names \ {task.dst} : disk'[m] = disk[m]
  BY <1>1, QuietTarget, WriteModelFacts
<1>3. disk'[task.dst] # NoDir =>
        /\ disk'[task.dst].saved # Partial
        /\ disk'[task.dst].files = Files
        /\ disk'[task.dst].label = task.dst
  BY <1>1, QuietTarget, QuietWrite DEF ImportWindow
<1>4. QED
  BY <1>2, <1>3, QuietStep DEF Pcs, Answers

LEMMA LoadFileQuiet ==
  ASSUME QInv, Quiet, LoadFile, IInv'
  PROVE  QInv'
<1>1. /\ task # NoTask /\ task.pc = "file" /\ archive' = archive
      /\ current # NoProject /\ current.dir = task.dst
  BY DEF LoadFile, At, QInv, IInv, StepFacts
<1>2. ASSUME NEW c \in Contents \ {Partial}, WriteModel(c), Goto("ok")
      PROVE  QInv'
  BY <1>1, <1>2, WriteModelQuiet
<1>3. CASE Goto("erase") /\ UNCHANGED <<disk, current>>
  BY <1>1, <1>3, QuietMove DEF ImportWindow
<1>4. QED
  BY <1>2, <1>3 DEF LoadFile

LEMMA DescribeQuiet ==
  ASSUME QInv, Quiet, Describe, IInv'
  PROVE  QInv'
<1>1. /\ task # NoTask /\ task.pc = "describe"
      /\ UNCHANGED <<disk, current, archive>>
  BY DEF Describe, At
<1>2. CASE Goto("load")
  BY <1>1, <1>2, QuietMove
<1>3. CASE /\ ~(/\ disk[task.dst] # NoDir
                /\ {"info", "config"} \subseteq disk[task.dst].files)
           /\ Goto(AfterFailure)
  <2>1. task.op # "importProject"
    BY <1>1, <1>3, QuietTarget DEF QInv, BuildFacts, Files
  <2>2. QED
    BY <1>1, <1>3, <2>1, QuietTarget, TargetFacts, QuietMove
<1>4. QED
  BY <1>2, <1>3, QuietFaults DEF Describe

LEMMA LoadFailsQuiet ==
  ASSUME QInv, Quiet, LoadFails, IInv'
  PROVE  QInv'
<1>1. /\ task # NoTask /\ task.pc = "load" /\ UNCHANGED <<current, archive>>
      /\ SetDir(task.dst, NoDir) /\ Goto(AfterFailure)
  BY QuietFaults DEF LoadFails, At, DeleteDir
<1>2. /\ disk'[task.dst] = NoDir
      /\ \A m \in Names \ {task.dst} : disk'[m] = disk[m]
  BY <1>1, QuietTarget, SetDirFacts DEF IInv, TypeOK
<1>3. AfterFailure \in {"erase", "exc"}
  BY <1>1, QuietTarget, TargetFacts
<1>4. QED
  BY <1>1, <1>2, <1>3, QuietTarget, QuietStep DEF Pcs, Answers

LEMMA LoadTriplesQuiet ==
  ASSUME QInv, Quiet, LoadTriples, IInv'
  PROVE  QInv'
BY QuietMove DEF LoadTriples, At

LEMMA ConfirmQuiet ==
  ASSUME QInv, Quiet, Confirm, IInv'
  PROVE  QInv'
<1>1. /\ task # NoTask /\ task.pc = "confirm" /\ UNCHANGED <<disk, archive>>
      /\ current' = [dir |-> task.dst, label |-> disk[task.dst].label,
                     kind |-> disk[task.dst].kind, mem |-> disk[task.dst].saved]
      /\ Goto(AfterConfirm)
  BY QuietFaults DEF Confirm, At
<1>2. /\ disk[task.dst] # NoDir /\ disk[task.dst].saved # Partial
      /\ disk[task.dst].files = Files
      /\ task.op # "importProject" => disk[task.dst].label = task.dst
  BY <1>1, QuietTarget DEF IInv, StepFacts
<1>3. /\ AfterConfirm \in {"file", "rename", "ok"}
      /\ AfterConfirm = "rename" <=> task.op = "importProject"
  BY DEF AfterConfirm
<1>4. /\ current'.mem # Partial
      /\ task.op # "importProject" => current'.label = current'.dir
  BY <1>1, <1>2
<1>5. AfterConfirm \in Pcs
  BY <1>3 DEF Pcs, Answers
<1>6. QED
  BY <1>1, <1>2, <1>3, <1>4, <1>5, QuietStep DEF ImportWindow

LEMMA EraseQuiet ==
  ASSUME QInv, Quiet, Erase, IInv'
  PROVE  QInv'
<1>1. task # NoTask /\ task.pc = "erase" /\ UNCHANGED <<current, archive>>
  BY DEF Erase, At
<1>2. CASE Goto("exc") /\ UNCHANGED disk
  BY <1>1, <1>2, QuietMove DEF ImportWindow
<1>3. CASE SetDir(task.dst, NoDir) /\ Goto(EraseAnswer)
  <2>1. /\ disk'[task.dst] = NoDir
        /\ \A m \in Names \ {task.dst} : disk'[m] = disk[m]
    BY <1>1, <1>3, QuietTarget, SetDirFacts DEF IInv, TypeOK
  <2>2. EraseAnswer \in {"ok", "exc"}
    BY DEF EraseAnswer
  <2>3. QED
    BY <1>1, <1>3, <2>1, <2>2, QuietTarget, QuietStep DEF Pcs, Answers
<1>4. QED
  BY <1>2, <1>3, QuietFaults DEF Erase

LEMMA SaveQuiet ==
  ASSUME QInv, Quiet, Save, IInv'
  PROVE  QInv'
<1>1. /\ task # NoTask /\ task.pc = "write" /\ UNCHANGED <<current, archive>>
      /\ current # NoProject
  BY DEF Save, At, QInv, IInv, StepFacts
<1>2. CASE /\ disk[task.dst] # NoDir
           /\ SetDir(task.dst, [disk[task.dst] EXCEPT !.saved = current.mem])
           /\ Goto("ok")
  <2> DEFINE d == [disk[task.dst] EXCEPT !.saved = current.mem]
  <2>1. /\ d \in Dir /\ d.saved # Partial /\ d.files = Files /\ d.label = task.dst
    BY <1>1, <1>2, QuietTarget DEF Dir, Loaded, ImportWindow
  <2>2. SetDir(task.dst, d)
    BY <1>2
  <2> HIDE DEF d
  <2>3. QED
    BY <1>1, <1>2, <2>1, <2>2, QuietTarget, QuietSetDir DEF Pcs, Answers
<1>3. CASE Goto("exc") /\ UNCHANGED disk
  BY <1>1, <1>3, QuietMove DEF ImportWindow
<1>4. QED
  BY <1>2, <1>3 DEF Save

LEMMA SetPropertyQuiet ==
  ASSUME QInv, Quiet, SetProperty, IInv'
  PROVE  QInv'
<1>1. /\ task # NoTask /\ task.pc = "property" /\ UNCHANGED <<current, archive>>
      /\ current # NoProject /\ current.dir = task.dst
  BY DEF SetProperty, At, QInv, IInv, StepFacts
<1>2. CASE /\ disk[task.dst] # NoDir
           /\ SetDir(task.dst, [disk[task.dst] EXCEPT !.files = @ \cup {"info"},
                                                      !.label = current.label])
           /\ Goto("ok")
  <2> DEFINE d == [disk[task.dst] EXCEPT !.files = @ \cup {"info"},
                                         !.label = current.label]
  <2>1. /\ d \in Dir /\ d.saved # Partial /\ d.files = Files /\ d.label = task.dst
    BY <1>1, <1>2, QuietTarget DEF Dir, Loaded, Files
  <2>2. SetDir(task.dst, d)
    BY <1>2
  <2> HIDE DEF d
  <2>3. QED
    BY <1>1, <1>2, <2>1, <2>2, QuietTarget, QuietSetDir DEF Pcs, Answers
<1>3. CASE Goto("exc") /\ UNCHANGED disk
  BY <1>1, <1>3, QuietMove DEF ImportWindow
<1>4. QED
  BY <1>2, <1>3 DEF SetProperty

LEMMA SaveAsCloseQuiet ==
  ASSUME QInv, Quiet, SaveAsClose, IInv'
  PROVE  QInv'
<1>1. task # NoTask /\ task.pc = "close" /\ UNCHANGED <<disk, archive>>
  BY DEF SaveAsClose, At
<1>2. \E p \in {"fail", "copy", "exc"} : Goto(p) /\ current' \in {current, NoProject}
  BY DEF SaveAsClose
<1>3. QED
  BY <1>1, <1>2, QuietMove DEF ImportWindow

LEMMA CopyQuiet ==
  ASSUME QInv, Quiet, Copy, IInv'
  PROVE  QInv'
<1>1. task # NoTask /\ task.pc = "copy" /\ UNCHANGED <<current, archive>>
  BY DEF Copy, At
<1>2. CASE CanCopy /\ SetDir(task.dst, disk[task.src]) /\ Goto("label")
  <2>1. /\ disk[task.src] \in Dir /\ disk[task.src].saved # Partial
        /\ disk[task.src].files = Files
    BY <1>1, <1>2, TargetFacts DEF CanCopy, QInv, Whole, Building
  <2>2. QED
    BY <1>1, <1>2, <2>1, QuietTarget, QuietSetDir DEF Pcs
<1>3. CASE Goto("exc") /\ UNCHANGED disk
  BY <1>1, <1>3, QuietMove DEF ImportWindow
<1>4. QED
  BY <1>2, <1>3 DEF Copy

(* The copy always has an info file, so the window closes with its label.   *)
LEMMA LabelQuiet ==
  ASSUME QInv, Quiet, Label, IInv'
  PROVE  QInv'
<1> DEFINE next == IF task.op = "saveProjectAs" THEN "describe" ELSE "ok"
<1> DEFINE d == [disk[task.dst] EXCEPT !.label = task.dst]
<1>1. /\ task # NoTask /\ task.pc = "label" /\ UNCHANGED <<current, archive>>
      /\ disk[task.dst] # NoDir
  BY DEF Label, At, QInv, IInv, StepFacts
<1>2. disk[task.dst].files = Files
  BY <1>1, QuietTarget
<1>3. SetDir(task.dst, d) /\ Goto(next)
  BY <1>2 DEF Label, Files
<1>4. /\ d \in Dir /\ d.saved # Partial /\ d.files = Files /\ d.label = task.dst
  BY <1>1, <1>2, QuietTarget DEF Dir
<1>5. next \in {"describe", "ok"} /\ next \in Pcs \ {"rename"}
  BY DEF Pcs, Answers
<1> HIDE DEF d, next
<1>6. QED
  BY <1>1, <1>3, <1>4, <1>5, QuietTarget, QuietSetDir

LEMMA UnpackQuiet ==
  ASSUME QInv, Quiet, Unpack, IInv'
  PROVE  QInv'
<1>1. /\ task # NoTask /\ task.pc = "unpack" /\ UNCHANGED <<current, archive>>
      /\ archive \in Archive /\ task.op = "importProject"
  BY DEF Unpack, At, QInv, IInv, StepFacts, TypeOK
<1>2. CASE Goto("fail") /\ UNCHANGED disk
  BY <1>1, <1>2, QuietMove DEF ImportWindow
<1>3. CASE SetDir(task.dst, Unpacked) /\ Goto("describe")
  <2>1. Unpacked \in Dir /\ Unpacked.saved # Partial /\ Unpacked.files = Files
    BY <1>1, ContentsAssumption DEF Unpacked, Archive, Dir, Files
  <2>2. QED
    BY <1>1, <1>3, <2>1, QuietTarget, QuietSetDir DEF Pcs, ImportWindow
<1>4. QED
  BY <1>2, <1>3 DEF Unpack

LEMMA RenameQuiet ==
  ASSUME QInv, Quiet, Rename, IInv'
  PROVE  QInv'
<1> DEFINE d == [disk[task.dst] EXCEPT !.label = task.dst]
<1>1. /\ task # NoTask /\ task.pc = "rename" /\ archive' = archive
      /\ disk[task.dst] # NoDir /\ current # NoProject /\ current.dir = task.dst
      /\ Goto("data") /\ SetDir(task.dst, d)
      /\ current' = [current EXCEPT !.label = task.dst]
  BY DEF Rename, At, QInv, IInv, StepFacts
<1>2. /\ d \in Dir /\ d.saved # Partial /\ d.files = Files /\ d.label = task.dst
  BY <1>1, QuietTarget DEF Dir
<1>3. current'.mem # Partial /\ current'.label = current'.dir
  BY <1>1, QuietTarget DEF Loaded
<1> HIDE DEF d
<1>4. QED
  BY <1>1, <1>2, <1>3, QuietSetDir, QuietTarget DEF Pcs

LEMMA LoadDataQuiet ==
  ASSUME QInv, Quiet, LoadData, IInv'
  PROVE  QInv'
<1>1. /\ task # NoTask /\ task.pc = "data" /\ archive' = archive
      /\ current # NoProject /\ current.dir = task.dst
      /\ archive \in Archive /\ archive.content # Partial
  BY DEF LoadData, At, QInv, IInv, StepFacts, TypeOK, Clean
<1>2. CASE WriteModel(archive.content) /\ Goto("ok")
  BY <1>1, <1>2, WriteModelQuiet DEF Archive
<1>3. CASE Goto("exc") /\ UNCHANGED <<disk, current>>
  BY <1>1, <1>3, QuietMove DEF ImportWindow
<1>4. QED
  BY <1>2, <1>3 DEF LoadData

-----------------------------------------------------------------------------
LEMMA QuietInitially ==
  ASSUME Init
  PROVE  QInv
BY Initially DEF Init, QInv, Whole, BuildFacts, Clean, LabelsMatch

LEMMA QuietInductive ==
  ASSUME QInv, Quiet, [Next]_vars
  PROVE  QInv'
<1>1. IInv'
  BY Inductive DEF QInv
<1>2. CASE UNCHANGED vars
  BY <1>1, <1>2 DEF vars, QInv, Whole, Building, BuildFacts, Clean, LabelsMatch,
                    Relabelling, At
<1>3. CASE Request \/ Answer \/ Prepare \/ WriteInfo \/ WriteConfig \/ LoadFile
  BY <1>1, <1>3, RequestQuiet, AnswerQuiet, PrepareQuiet, WriteFileQuiet,
     LoadFileQuiet
<1>4. CASE Describe \/ LoadFails \/ LoadTriples \/ Confirm \/ Erase \/ Save
  BY <1>1, <1>4, DescribeQuiet, LoadFailsQuiet, LoadTriplesQuiet, ConfirmQuiet,
     EraseQuiet, SaveQuiet
<1>5. CASE \/ SetProperty \/ SaveAsClose \/ Copy \/ Label \/ Unpack
           \/ Rename \/ LoadData
  BY <1>1, <1>5, SetPropertyQuiet, SaveAsCloseQuiet, CopyQuiet, LabelQuiet,
     UnpackQuiet, RenameQuiet, LoadDataQuiet
<1>6. CASE CloseProject \/ ExportProject \/ RepairProject \/ Edit
  BY <1>1, <1>6, OneStepQuiet
<1>7. CASE IOError \/ Crash
  BY <1>7, QuietFaults DEF IOError, Crash
<1>8. QED
  BY <1>2, <1>3, <1>4, <1>5, <1>6, <1>7 DEF Next

(* A deletion step, whoever asked for it, never hits the loaded project.    *)
LEMMA ErasingSparesLoaded ==
  ASSUME QInv, Quiet, [Next]_vars,
         task # NoTask, task.pc = "erase", current # NoProject, current' = current
  PROVE  disk'[current.dir] = disk[current.dir]
<1>1. CASE Erase
  <2>1. current.dir \in Names /\ current.label = current.dir
    BY QuietTarget DEF Loaded
  <2>2. CASE UNCHANGED disk
    BY <2>2
  <2>3. CASE ~IsLoadedName(task.dst) /\ SetDir(task.dst, NoDir)
    <3>1. current.dir # task.dst
      BY <2>1, <2>3 DEF IsLoadedName
    <3>2. QED
      BY <2>1, <2>3, <3>1, QuietTarget, SetDirFacts DEF IInv, TypeOK
  <2>4. QED
    BY <1>1, <2>2, <2>3, QuietFaults DEF Erase
<1>2. CASE ~Erase
  <2>1. UNCHANGED disk
    BY <1>2, QuietFaults
       DEF Next, vars, Request, Begin, Answer, Prepare, WriteInfo, WriteConfig,
           WriteFile, LoadFile, Describe, LoadFails, LoadTriples, Confirm, Save,
           SetProperty, SaveAsClose, Copy, Label, Unpack, Rename, LoadData,
           CloseProject, ExportProject, RepairProject, Edit, IOError, Crash, At
  <2>2. QED
    BY <2>1
<1>3. QED
  BY <1>1, <1>2

THEOREM QuietInvariantHolds ==
  ASSUME Quiet
  PROVE  Spec => []QInv
<1>1. Init => QInv
  BY QuietInitially
<1>2. QInv /\ [Next]_vars => QInv'
  BY QuietInductive
<1>3. QED
  BY <1>1, <1>2, PTL DEF Spec

(* Outside the relabelling window every directory bears its own name, and   *)
(* the loaded project the name of its directory.                            *)
THEOREM LabelsAreNames ==
  ASSUME Quiet
  PROVE  Spec => []LabelsMatch
<1>1. QInv => LabelsMatch
  BY DEF QInv
<1>2. QED
  BY <1>1, QuietInvariantHolds, PTL

(* Between requests every project directory is complete.                    *)
THEOREM NothingLeftHalfBuilt ==
  ASSUME Quiet
  PROVE  Spec => []NothingHalfBuilt
<1>1. QInv => NothingHalfBuilt
  BY QuietIdleBefore DEF NothingHalfBuilt
<1>2. QED
  BY <1>1, QuietInvariantHolds, PTL

(* The loaded project is never deleted, although deleteProject recognises   *)
(* it by a label in a file and not by its directory.                        *)
THEOREM LoadedIsNeverDeleted ==
  ASSUME Quiet
  PROVE  Spec => DeleteSparesLoaded
<1>1. QInv /\ [Next]_vars =>
        [(task # NoTask /\ task.pc = "erase" /\ current # NoProject /\ current' = current)
           => disk'[current.dir] = disk[current.dir]]_vars
  BY ErasingSparesLoaded
<1>2. QED
  BY <1>1, QuietInvariantHolds, PTL DEF Spec, DeleteSparesLoaded

-----------------------------------------------------------------------------
(* Refinement *)

(* The loads do not fail either.                                            *)
Calm == Faults \subseteq {"close"}

(* What the shelf sees of the directories and of the loaded project.        *)
ShelfOf == [n \in Names |-> IF disk[n] = NoDir THEN NoDir ELSE disk[n].saved]
LoadedOf == IF current = NoProject THEN NoDir
            ELSE [name |-> current.dir, mem |-> current.mem]

LEMMA Seen ==
  ASSUME IInv
  PROVE  /\ \A n \in Names : /\ disk[n] \in Dir \cup {NoDir}
                             /\ disk[n] = NoDir => ShelfOf[n] = NoDir
                             /\ disk[n] # NoDir => /\ ShelfOf[n] = disk[n].saved
                                                   /\ ShelfOf[n] # NoDir
                                                   /\ ShelfOf[n] \in Contents
         /\ current = NoProject => LoadedOf = NoDir
         /\ current # NoProject => /\ LoadedOf = [name |-> current.dir, mem |-> current.mem]
                                   /\ LoadedOf # NoDir
                                   /\ current \in Loaded
<1>1. disk \in Disks /\ current \in Currents
  BY DEF IInv, TypeOK
<1>2. ASSUME NEW n \in Names, disk[n] # NoDir
      PROVE  /\ ShelfOf[n] = disk[n].saved /\ ShelfOf[n] # NoDir
             /\ ShelfOf[n] \in Contents /\ disk[n] \in Dir
  BY <1>1, <1>2, ShelfAssumption DEF ShelfOf, Disks, Dir
<1>3. ASSUME current # NoProject
      PROVE  /\ LoadedOf = [name |-> current.dir, mem |-> current.mem] /\ LoadedOf # NoDir
             /\ current \in Loaded
  BY <1>1, <1>3, ShelfAssumption DEF LoadedOf, Currents, Loaded
<1>4. QED
  BY <1>2, <1>3 DEF ShelfOf, LoadedOf

LEMMA SeenDir ==
  ASSUME IInv, NEW n \in Names, disk[n] # NoDir
  PROVE  disk[n] \in Dir /\ ShelfOf[n] = disk[n].saved /\ ShelfOf[n] # NoDir
<1>1. disk \in Disks
  BY DEF IInv, TypeOK
<1>2. disk[n] \in Dir
  BY <1>1 DEF Disks
<1>3. QED
  BY <1>2, ShelfAssumption DEF ShelfOf, Dir

(* A step that changes no content is not seen.                              *)
LEMMA NotSeen ==
  ASSUME \A n \in Names : disk'[n] = disk[n] \/ /\ disk'[n] # NoDir /\ disk[n] # NoDir
                                                /\ disk'[n].saved = disk[n].saved,
         current' = current \/ /\ current # NoProject /\ current' # NoProject
                               /\ current'.dir = current.dir /\ current'.mem = current.mem
  PROVE  ShelfOf' = ShelfOf /\ LoadedOf' = LoadedOf
BY DEF ShelfOf, LoadedOf

(* A directory that is written is seen as its content.                      *)
LEMMA SeenAt ==
  ASSUME disk \in Disks, NEW n \in Names, NEW d \in Dir \cup {NoDir}, SetDir(n, d)
  PROVE  /\ d = NoDir => ShelfOf' = [ShelfOf EXCEPT ![n] = NoDir]
         /\ d # NoDir => ShelfOf' = [ShelfOf EXCEPT ![n] = d.saved]
BY DEF ShelfOf, SetDir, Disks

LEMMA MappedStep ==
  ASSUME \/ ShelfOf' = ShelfOf /\ LoadedOf' = LoadedOf
         \/ \E n \in Names :
              \/ /\ ShelfOf[n] = NoDir
                 /\ \E c \in {Empty} \cup {ShelfOf[m] : m \in Names} :
                      c # NoDir /\ ShelfOf' = [ShelfOf EXCEPT ![n] = c]
                 /\ LoadedOf' = LoadedOf
              \/ /\ ShelfOf[n] # NoDir
                 /\ LoadedOf = NoDir \/ LoadedOf.name # n
                 /\ ShelfOf' = [ShelfOf EXCEPT ![n] = NoDir]
                 /\ LoadedOf' = LoadedOf
              \/ /\ ShelfOf[n] # NoDir
                 /\ LoadedOf' = [name |-> n, mem |-> ShelfOf[n]]
                 /\ ShelfOf' = ShelfOf
         \/ LoadedOf # NoDir /\ LoadedOf' = NoDir /\ ShelfOf' = ShelfOf
         \/ /\ LoadedOf # NoDir
            /\ ShelfOf' = [ShelfOf EXCEPT ![LoadedOf.name] = LoadedOf.mem]
            /\ LoadedOf' = LoadedOf
         \/ \E c \in Contents :
              /\ LoadedOf # NoDir
              /\ LoadedOf' = [LoadedOf EXCEPT !.mem = c]
              /\ ShelfOf' \in {ShelfOf, [ShelfOf EXCEPT ![LoadedOf.name] = c]}
  PROVE  [Shelf!Next]_(Shelf!shelfVars)
BY DEF Shelf!Next, Shelf!Add, Shelf!Remove, Shelf!Load, Shelf!Unload, Shelf!Edit, Shelf!Save,
       Shelf!shelfVars, ShelfOf, LoadedOf

(* Named parts of MappedStep, for the steps that are seen.                  *)
LEMMA SeenEdit ==
  ASSUME IInv, current # NoProject, NEW c \in Contents, WriteModel(c)
  PROVE  [Shelf!Next]_(Shelf!shelfVars)
<1>1. disk \in Disks /\ current \in Loaded
  BY Seen DEF IInv, TypeOK
<1>2. current'.dir = current.dir /\ current'.mem = c /\ current' \in Loaded
  BY <1>1, WriteModelFacts
<1>3. LoadedOf # NoDir /\ LoadedOf = [name |-> current.dir, mem |-> current.mem]
  BY Seen
<1>4. LoadedOf' = [LoadedOf EXCEPT !.mem = c]
  BY <1>2, <1>3, MarkersAssumption DEF LoadedOf
<1>5. ShelfOf' \in {ShelfOf, [ShelfOf EXCEPT ![LoadedOf.name] = c]}
  <2>1. CASE UNCHANGED disk
    BY <2>1 DEF ShelfOf
  <2>2. CASE /\ disk[current.dir] # NoDir
             /\ SetDir(current.dir, [disk[current.dir] EXCEPT !.saved = c])
    <3>1. current.dir \in Names /\ LoadedOf.name = current.dir
      BY <1>1, <1>3 DEF Loaded
    <3> DEFINE d == [disk[current.dir] EXCEPT !.saved = c]
    <3>2. d \in Dir /\ d.saved = c
      BY <1>1, <2>2, <3>1 DEF Disks, Dir
    <3>3. d # NoDir
      BY <3>2, MarkersAssumption
    <3> HIDE DEF d
    <3>4. SetDir(current.dir, d)
      BY <2>2 DEF d
    <3>5. QED
      BY <1>1, <3>1, <3>2, <3>3, <3>4, SeenAt
  <2>3. QED
    BY <2>1, <2>2 DEF WriteModel
<1>6. QED
  BY <1>3, <1>4, <1>5, MappedStep

LEMMA SeenNothing ==
  ASSUME \A n \in Names : disk'[n] = disk[n] \/ /\ disk'[n] # NoDir /\ disk[n] # NoDir
                                                /\ disk'[n].saved = disk[n].saved,
         current' = current \/ /\ current # NoProject /\ current' # NoProject
                               /\ current'.dir = current.dir /\ current'.mem = current.mem
  PROVE  [Shelf!Next]_(Shelf!shelfVars)
BY NotSeen, MappedStep

LEMMA SeenAdd ==
  ASSUME IInv, NEW n \in Names, NEW d \in Dir, SetDir(n, d), disk[n] = NoDir, UNCHANGED current,
         d.saved = Empty \/ \E m \in Names : disk[m] # NoDir /\ d.saved = disk[m].saved
  PROVE  [Shelf!Next]_(Shelf!shelfVars)
<1>1. disk \in Disks /\ d # NoDir /\ d.saved # NoDir
  BY MarkersAssumption, ShelfAssumption DEF IInv, TypeOK, Dir
<1>2. ShelfOf' = [ShelfOf EXCEPT ![n] = d.saved] /\ LoadedOf' = LoadedOf /\ ShelfOf[n] = NoDir
  BY <1>1, SeenAt DEF LoadedOf, ShelfOf
<1>3. d.saved \in {Empty} \cup {ShelfOf[m] : m \in Names}
  BY DEF ShelfOf
<1>4. QED
  BY <1>1, <1>2, <1>3, MappedStep

LEMMA SeenSetDir ==
  ASSUME IInv, NEW n \in Names, disk[n] # NoDir, NEW d \in Dir, SetDir(n, d),
         d.saved = disk[n].saved,
         current' = current \/ /\ current # NoProject /\ current' # NoProject
                               /\ current'.dir = current.dir /\ current'.mem = current.mem
  PROVE  [Shelf!Next]_(Shelf!shelfVars)
<1>1. disk \in Disks /\ d # NoDir
  BY MarkersAssumption DEF IInv, TypeOK
<1>2. \A m \in Names : disk'[m] = IF m = n THEN d ELSE disk[m]
  BY <1>1 DEF SetDir, Disks
<1>3. QED
  BY <1>1, <1>2, SeenNothing

LEMMA CalmFaults ==
  ASSUME Calm
  PROVE  Quiet /\ "io" \notin Faults /\ "load" \notin Faults /\ "crash" \notin Faults
BY DEF Calm, Quiet

(* A creation or an import adds an empty project, a copy one that is like   *)
(* its source.                                                               *)
LEMMA SeenCreations ==
  ASSUME QInv, Calm, Prepare \/ Copy \/ Unpack
  PROVE  [Shelf!Next]_(Shelf!shelfVars)
<1>1. task # NoTask /\ IInv /\ task.dst \in Names /\ task.src \in Names /\ disk \in Disks
  BY TargetFacts DEF QInv, Prepare, Copy, Unpack, At
<1>2. CASE UNCHANGED <<disk, current>>
  BY <1>2, SeenNothing
<1>3. CASE Prepare /\ disk' # disk
  <2>1. PICK k \in Kinds :
          /\ disk[task.dst] = NoDir /\ UNCHANGED current
          /\ SetDir(task.dst, [files |-> {"store"}, label |-> task.dst, kind |-> k, saved |-> Empty])
    BY <1>3 DEF Prepare
  <2>2. [files |-> {"store"}, label |-> task.dst, kind |-> k, saved |-> Empty] \in Dir
    BY <1>1, ContentsAssumption, ParametersAssumption DEF Dir, Files
  <2>3. QED
    BY <1>1, <2>1, <2>2, SeenAdd
<1>4. CASE Copy /\ disk' # disk
  <2>1. CanCopy /\ SetDir(task.dst, disk[task.src]) /\ UNCHANGED current
    BY <1>4 DEF Copy
  <2>2. disk[task.src] \in Dir /\ disk[task.dst] = NoDir /\ disk[task.src] # NoDir
    BY <1>1, <2>1 DEF CanCopy, Disks
  <2>3. QED
    BY <1>1, <2>1, <2>2, SeenAdd
<1>5. CASE Unpack /\ disk' # disk
  <2>1. disk[task.dst] = NoDir /\ SetDir(task.dst, Unpacked) /\ UNCHANGED current
    BY <1>5 DEF Unpack
  <2>2. archive \in Archive
    BY <1>1, <1>5 DEF IInv, TypeOK, StepFacts, Unpack, At
  <2>3. Unpacked \in Dir /\ Unpacked.saved = Empty
    BY <2>2, ContentsAssumption DEF Unpacked, Dir, Archive
  <2>4. QED
    BY <1>1, <2>1, <2>3, SeenAdd
<1>6. QED
  BY <1>2, <1>3, <1>4, <1>5 DEF Prepare, Copy, Unpack

(* The files and the label of a project are not seen.                       *)
LEMMA SeenWritings ==
  ASSUME QInv, Calm, WriteInfo \/ WriteConfig \/ SetProperty \/ Label \/ Rename
  PROVE  [Shelf!Next]_(Shelf!shelfVars)
<1>1. task # NoTask /\ IInv /\ task.dst \in Names /\ disk \in Disks
  BY TargetFacts DEF QInv, WriteInfo, WriteConfig, WriteFile, SetProperty, Label, Rename, At
<1>2. CASE UNCHANGED <<disk, current>>
  BY <1>2, SeenNothing
<1>3. ASSUME NEW f \in {"info", "config"}, NEW next, WriteFile(f, next)
      PROVE  [Shelf!Next]_(Shelf!shelfVars)
  <2> DEFINE d == [disk[task.dst] EXCEPT !.files = @ \cup {f}]
  <2>1. SetDir(task.dst, d) /\ UNCHANGED current
    BY <1>3, CalmFaults DEF WriteFile
  <2>2. disk[task.dst] \in Dir /\ disk[task.dst] # NoDir
    BY <1>1, <1>3, MarkersAssumption DEF WriteFile, At, IInv, StepFacts, Disks
  <2>3. d \in Dir /\ d.saved = disk[task.dst].saved
    BY <2>2 DEF Dir, Files
  <2>4. QED
    BY <1>1, <2>1, <2>2, <2>3, SeenSetDir
<1>4. CASE SetProperty /\ disk' # disk
  <2> DEFINE d == [disk[task.dst] EXCEPT !.files = @ \cup {"info"}, !.label = current.label]
  <2>1. disk[task.dst] # NoDir /\ SetDir(task.dst, d) /\ UNCHANGED current
    BY <1>4 DEF SetProperty
  <2>2. disk[task.dst] \in Dir /\ current \in Loaded
    BY <1>1, <1>4, <2>1 DEF SetProperty, At, IInv, StepFacts, TypeOK, Disks, Currents
  <2>3. d \in Dir /\ d.saved = disk[task.dst].saved
    BY <2>2 DEF Dir, Files, Loaded
  <2>4. QED
    BY <1>1, <2>1, <2>2, <2>3, SeenSetDir
<1>5. CASE Label /\ disk' # disk
  <2> DEFINE d == [disk[task.dst] EXCEPT !.label = task.dst]
  <2>1. SetDir(task.dst, d) /\ UNCHANGED current /\ disk[task.dst] # NoDir
    BY <1>1, <1>5 DEF Label, At, IInv, StepFacts
  <2>2. disk[task.dst] \in Dir
    BY <1>1, <2>1 DEF Disks
  <2>3. d \in Dir /\ d.saved = disk[task.dst].saved
    BY <1>1, <2>2 DEF Dir
  <2>4. QED
    BY <1>1, <2>1, <2>2, <2>3, SeenSetDir
<1>6. CASE Rename
  <2> DEFINE d == [disk[task.dst] EXCEPT !.label = task.dst]
  <2>1. /\ SetDir(task.dst, d) /\ current' = [current EXCEPT !.label = task.dst]
        /\ disk[task.dst] # NoDir /\ current # NoProject
    BY <1>1, <1>6 DEF Rename, At, IInv, StepFacts
  <2>2. disk[task.dst] \in Dir /\ current \in Loaded
    BY <1>1, <2>1 DEF Disks, IInv, TypeOK, Currents
  <2>3. d \in Dir /\ d.saved = disk[task.dst].saved
    BY <1>1, <2>2 DEF Dir
  <2>4. current' # NoProject /\ current'.dir = current.dir /\ current'.mem = current.mem
    <3>1. current' \in Loaded /\ current'.dir = current.dir /\ current'.mem = current.mem
      BY <1>1, <2>1, <2>2 DEF Loaded
    <3>2. QED
      BY <3>1, MarkersAssumption
  <2>5. QED
    BY <1>1, <2>1, <2>2, <2>3, <2>4, SeenSetDir
<1>7. QED
  BY <1>2, <1>3, <1>4, <1>5, <1>6 DEF WriteInfo, WriteConfig, SetProperty, Label

(* Loading, saving and unloading.                                            *)
LEMMA SeenLoads ==
  ASSUME QInv, Calm, Confirm \/ Save \/ SaveAsClose \/ CloseProject
  PROVE  [Shelf!Next]_(Shelf!shelfVars)
<1>1. IInv /\ disk \in Disks
  BY DEF QInv, IInv, TypeOK
<1>2. CASE UNCHANGED <<disk, current>>
  BY <1>2, SeenNothing
<1>3. CASE Confirm /\ current' # current
  <2>1. /\ task # NoTask /\ task.dst \in Names /\ disk[task.dst] # NoDir /\ UNCHANGED disk
        /\ current' = [dir |-> task.dst, label |-> disk[task.dst].label,
                       kind |-> disk[task.dst].kind, mem |-> disk[task.dst].saved]
    BY <1>1, <1>3, TargetFacts DEF Confirm, At, IInv, StepFacts
  <2>2. current' # NoProject
    <3>1. current' \in Loaded
      BY <1>1, <2>1 DEF Disks, Dir, Loaded
    <3>2. QED
      BY <3>1, MarkersAssumption
  <2>3. ShelfOf[task.dst] # NoDir /\ ShelfOf[task.dst] = disk[task.dst].saved
    BY <1>1, <2>1, SeenDir
  <2>4. LoadedOf' = [name |-> task.dst, mem |-> ShelfOf[task.dst]] /\ ShelfOf' = ShelfOf
    BY <2>1, <2>2, <2>3 DEF LoadedOf, ShelfOf
  <2>5. QED
    BY <2>1, <2>3, <2>4, MappedStep
<1>4. CASE Save /\ disk' # disk
  <2> DEFINE d == [disk[task.dst] EXCEPT !.saved = current.mem]
  <2>1. /\ task # NoTask /\ task.dst \in Names /\ disk[task.dst] # NoDir /\ SetDir(task.dst, d)
        /\ UNCHANGED current /\ current # NoProject /\ current.dir = task.dst
    BY <1>1, <1>4, TargetFacts DEF Save, At, IInv, StepFacts
  <2>2. disk[task.dst] \in Dir /\ current \in Loaded
    BY <1>1, <2>1, Seen, SeenDir
  <2>3. d \in Dir /\ d.saved = current.mem
    BY <2>2 DEF Dir, Loaded
  <2>4. d # NoDir
    BY <2>3, MarkersAssumption
  <2> HIDE DEF d
  <2>5. ShelfOf' = [ShelfOf EXCEPT ![task.dst] = current.mem] /\ LoadedOf' = LoadedOf
    BY <1>1, <2>1, <2>3, <2>4, SeenAt DEF LoadedOf
  <2>6. LoadedOf # NoDir /\ LoadedOf.name = task.dst /\ LoadedOf.mem = current.mem
    BY <1>1, <2>1, Seen
  <2>7. QED
    BY <2>5, <2>6, MappedStep
<1>5. CASE (SaveAsClose \/ CloseProject) /\ current' # current
  <2>1. current' = NoProject /\ UNCHANGED disk /\ current # NoProject
    BY <1>5 DEF SaveAsClose, CloseProject
  <2>2. LoadedOf # NoDir /\ LoadedOf' = NoDir /\ ShelfOf' = ShelfOf
    BY <1>1, <2>1, Seen DEF LoadedOf, ShelfOf
  <2>3. QED
    BY <2>2, MappedStep
<1>6. QED
  BY <1>2, <1>3, <1>4, <1>5 DEF Confirm, Save, SaveAsClose, CloseProject

(* A deletion.  The loaded project is safe since its label is its name.     *)
LEMMA SeenErase ==
  ASSUME QInv, Calm, Erase
  PROVE  [Shelf!Next]_(Shelf!shelfVars)
<1>1. task # NoTask /\ IInv /\ task.dst \in Names /\ disk \in Disks
  BY TargetFacts DEF QInv, Erase, At
<1>2. CASE UNCHANGED <<disk, current>>
  BY <1>2, SeenNothing
<1>3. CASE disk[task.dst] # NoDir /\ ~IsLoadedName(task.dst) /\ SetDir(task.dst, NoDir) /\ UNCHANGED current
  <2>1. ShelfOf' = [ShelfOf EXCEPT ![task.dst] = NoDir] /\ LoadedOf' = LoadedOf
    BY <1>1, <1>3, SeenAt DEF LoadedOf
  <2>2. ShelfOf[task.dst] # NoDir
    BY <1>1, <1>3, SeenDir
  <2>3. LoadedOf = NoDir \/ LoadedOf.name # task.dst
    <3>1. task.pc # "rename"
      BY DEF Erase, At
    <3>2. QED
      BY <1>1, <1>3, <3>1, Seen, QuietTarget DEF IsLoadedName
  <2>4. QED
    BY <1>1, <2>1, <2>2, <2>3, MappedStep
<1>4. QED
  BY <1>2, <1>3, CalmFaults DEF Erase

LEMMA SeenSteps ==
  ASSUME QInv, Calm, [Next]_vars
  PROVE  [Shelf!Next]_(Shelf!shelfVars)
<1>1. IInv
  BY DEF QInv
<1>2. CASE UNCHANGED vars \/ Request \/ Answer \/ Describe \/ LoadTriples \/ ExportProject
  <2>1. UNCHANGED <<disk, current>>
    BY <1>2 DEF vars, Request, Begin, Answer, Describe, LoadTriples, ExportProject
  <2>2. QED
    BY <2>1, SeenNothing
<1>3. CASE LoadFails
  <2>1. task # NoTask /\ disk[task.dst] # NoDir /\ task.pc = "load"
    BY <1>1, <1>3 DEF LoadFails, At, IInv, StepFacts
  <2>2. "store" \in disk[task.dst].files /\ disk[task.dst].saved # Partial
    BY <2>1, QuietTarget DEF Files
  <2>3. QED
    BY <1>3, <2>2, CalmFaults DEF LoadFails, LoadMayFail
<1>4. CASE LoadFile
  <2>1. task # NoTask /\ current # NoProject
    BY <1>1, <1>4 DEF LoadFile, At, IInv, StepFacts
  <2>2. CASE UNCHANGED <<disk, current>>
    BY <2>2, SeenNothing
  <2>3. QED
    BY <1>1, <1>4, <2>1, <2>2, SeenEdit DEF LoadFile
<1>5. CASE LoadData
  <2>1. task # NoTask /\ current # NoProject /\ archive \in Archive
    BY <1>1, <1>5 DEF LoadData, At, IInv, StepFacts, TypeOK
  <2>2. archive.content \in Contents
    BY <2>1 DEF Archive
  <2>3. CASE UNCHANGED <<disk, current>>
    BY <2>3, SeenNothing
  <2>4. QED
    BY <1>1, <1>5, <2>1, <2>2, <2>3, SeenEdit DEF LoadData
<1>6. CASE Edit
  BY <1>1, <1>6, SeenEdit DEF Edit
<1>7. CASE RepairProject
  <2>1. PICK n \in Names : /\ disk[n] # NoDir
                           /\ SetDir(n, [disk[n] EXCEPT !.files = @ \cup {"config"}])
    BY <1>7 DEF RepairProject
  <2>2. disk[n] \in Dir
    BY <1>1, <2>1, SeenDir
  <2> DEFINE d == [disk[n] EXCEPT !.files = @ \cup {"config"}]
  <2>3. d \in Dir /\ d.saved = disk[n].saved
    BY <2>2 DEF Dir, Files
  <2>4. QED
    BY <1>1, <1>7, <2>1, <2>3, SeenSetDir DEF RepairProject
<1>8. CASE IOError \/ Crash
  BY <1>8, CalmFaults DEF IOError, Crash
<1>9. QED
  BY <1>2, <1>3, <1>4, <1>5, <1>6, <1>7, <1>8,
     SeenCreations, SeenWritings, SeenLoads, SeenErase DEF Next

(* While nothing fails but the closing of a store, the handlers, with all   *)
(* their steps between the writes, are the atomic operations of a shelf of  *)
(* projects, of which the loaded one is never taken away.                    *)
THEOREM HandlersAreAtomic ==
  ASSUME Calm
  PROVE  Spec => ImplementsShelf
<1>1. Init => Shelf!Init
  BY DEF Init, Shelf!Init
<1>2. QInv /\ [Next]_vars => [Shelf!Next]_(Shelf!shelfVars)
  BY SeenSteps
<1>3. Spec => []QInv
  BY CalmFaults, QuietInvariantHolds
<1>4. QED
  BY <1>1, <1>2, <1>3, PTL DEF Spec, ImplementsShelf, Shelf!Spec
==============================================================================
