------------------------ MODULE OntologyImports_proofs ------------------------
(***************************************************************************)
(* Proofs about OntologyImports, for any number of ontologies, documents   *)
(* and mirror files, whatever they import and whatever fails.              *)
(*                                                                         *)
(* The type invariant, and that opening a project replaces what is loaded  *)
(* again, hold in any world.  The other theorems need it to be well named: *)
(* locations other than those the user types serve the ontology they are   *)
(* named after, and users do not give two ontologies the same mirror file. *)
(* (Otherwise an import filed under one name may be brought back as        *)
(* another one.)                                                           *)
(***************************************************************************)
EXTENDS ImportHistory, SequenceTheorems, FiniteSetTheorems, TLAPS

(* The names whose location serves nothing but the ontology of that name.   *)
Proper == {o \in Onts : \A d \in Web[o] : Real[d] = o}

(* owner: the ontology that a mirror file is for.                           *)
WellNamed(owner) ==
  /\ owner \in [Files -> Onts]
  /\ \A b \in Onts : \A f \in FileOf[b], d \in Web[b] : Real[d] = owner[f]
  /\ \A d \in Docs : Real[d] \in Proper /\ Requires[d] \subseteq Proper
  /\ Loadable \subseteq Proper

Well(owner) ==
  /\ FiledUnderOwnName
  /\ declared \subseteq Proper /\ saved \subseteq Proper
  /\ refreshed \subseteq Proper
  /\ \A o \in Onts : status[o] # "NULL" => o \in Proper
  /\ agenda \in Seq(SUBSET Proper)
  /\ \A o \in Onts : entry[o] # NoFile => o \in Proper /\ owner[entry[o]] = o
  /\ \A f \in Files : file[f] # NoDoc => Real[file[f]] = owner[f]

NInv(owner) == TypeOK /\ Well(owner)

-----------------------------------------------------------------------------
(* Sequences of sets *)

LEMMA AgendaSteps ==
  ASSUME NEW S, NEW s \in Seq(SUBSET S), s # <<>>, NEW X, X \subseteq S
  PROVE  /\ Head(s) \subseteq S
         /\ Tail(s) \in Seq(SUBSET S)
         /\ \A o : <<Head(s) \ {o}>> \o Tail(s) \in Seq(SUBSET S)
         /\ \A o : <<X>> \o (<<Head(s) \ {o}>> \o Tail(s)) \in Seq(SUBSET S)
         /\ <<X>> \in Seq(SUBSET S)
<1>1. Head(s) \in SUBSET S /\ Tail(s) \in Seq(SUBSET S)
  BY HeadTailProperties
<1>2. \A Y \in SUBSET S : <<Y>> \in Seq(SUBSET S)
  OBVIOUS
<1>3. \A o : <<Head(s) \ {o}>> \o Tail(s) \in Seq(SUBSET S)
  BY <1>1, <1>2, ConcatProperties
<1>4. QED
  BY <1>1, <1>2, <1>3, ConcatProperties

LEMMA ImportsOfType ==
  ASSUME NEW owner, WellNamed(owner), NEW G \in [Onts -> SUBSET Docs], NEW o
  PROVE  ImportsOf(o, G) \subseteq Proper
BY DocumentsAssumption DEF WellNamed, ImportsOf

-----------------------------------------------------------------------------
(* Types: they need nothing of the names *)

(* Loading a document into a graph, and moving it, keep the graphs typed.   *)
LEMMA GraphTypes ==
  ASSUME NEW G \in [Onts -> SUBSET Docs], NEW o \in Onts, NEW d \in Docs \cup {NoDoc}
  PROVE  /\ Put(G, o, d) \in [Onts -> SUBSET Docs]
         /\ [G EXCEPT ![o] = {}] \in [Onts -> SUBSET Docs]
         /\ Names(G, o) \subseteq Onts
         /\ \A r \in Onts : Move(G, o, r) \in [Onts -> SUBSET Docs]
         /\ ImportsOf(o, G) \subseteq Onts
<1>1. Put(G, o, d) \in [Onts -> SUBSET Docs]
  BY DEF Put
<1>2. Names(G, o) \subseteq Onts
  BY DocumentsAssumption DEF Names, Declares
<1>3. \A r \in Onts : Move(G, o, r) \in [Onts -> SUBSET Docs]
  BY DEF Move
<1>4. ImportsOf(o, G) \subseteq Onts
  BY DocumentsAssumption DEF ImportsOf
<1>5. QED
  BY <1>1, <1>2, <1>3, <1>4

LEMMA RecoverTypes ==
  ASSUME TypeOK, Recover
  PROVE  TypeOK'
<1>1. PICK o \in Head(agenda) :
        \/ Skip(o) /\ UNCHANGED <<mode, graphs, status, refreshed>>
        \/ Keep(o) /\ UNCHANGED <<mode, graphs, refreshed>>
        \/ Reload(o)
  BY DEF Recover
<1>2. agenda \in Seq(SUBSET Onts) /\ agenda # <<>>
  BY DEF TypeOK, Recover
<1>3. o \in Onts
  BY <1>1, <1>2, AgendaSteps
<1>4. Advance(o) \in Seq(SUBSET Onts)
  BY <1>2, AgendaSteps DEF Advance
<1>5. CASE Skip(o) /\ UNCHANGED <<mode, graphs, status, refreshed>>
  BY <1>4, <1>5 DEF Skip, Recover, TypeOK, mirror
<1>6. CASE Keep(o) /\ UNCHANGED <<mode, graphs, refreshed>>
  BY <1>4, <1>6 DEF Keep, Recover, TypeOK, mirror, Statuses
<1>7. CASE Reload(o)
  <2> DEFINE emptied == Emptied(o)
             how == IF entry[o] # NoFile THEN "LOCAL" ELSE "WEB"
             loaded(d) == Put(emptied, o, d)
             noted(d) == [status EXCEPT ![o] = IF d = NoDoc THEN "FAILED" ELSE @]
  <2>1. PICK d \in Available(o) : \E r \in Names(loaded(d), o) :
          \/ /\ graphs' = emptied /\ status' = noted(d)
             /\ Abandon
             /\ UNCHANGED refreshed
          \/ /\ graphs' = Move(loaded(d), o, r)
             /\ status' = [noted(d) EXCEPT ![r] = how]
             /\ refreshed' = refreshed \cup {r}
             /\ agenda' = <<ImportsOf(r, Move(loaded(d), o, r))>> \o Advance(o)
             /\ UNCHANGED mode
    BY <1>7 DEF Reload
  <2>2. d \in Docs \cup {NoDoc}
    BY <1>3, <2>1, DocumentsAssumption DEF Available, TypeOK
  <2>3. emptied \in [Onts -> SUBSET Docs]
    BY <1>3, GraphTypes, <2>2 DEF Emptied, TypeOK
  <2>4. loaded(d) \in [Onts -> SUBSET Docs]
    BY <1>3, <2>2, <2>3, GraphTypes
  <2>5. Names(loaded(d), o) \subseteq Onts
    BY <1>3, <2>2, <2>4, GraphTypes
  <2>6. noted(d) \in [Onts -> Statuses]
    BY <1>3 DEF TypeOK, Statuses
  <2>7. CASE graphs' = emptied /\ status' = noted(d) /\ Abandon /\ UNCHANGED refreshed
    <3>1. mode' \in Modes /\ agenda' \in Seq(SUBSET Onts)
      BY <2>7 DEF Abandon, Modes, TypeOK
    <3>2. QED
      BY <2>3, <2>6, <2>7, <3>1 DEF Recover, TypeOK, mirror
  <2>8. ASSUME NEW r \in Names(loaded(d), o),
               graphs' = Move(loaded(d), o, r),
               status' = [noted(d) EXCEPT ![r] = how],
               refreshed' = refreshed \cup {r},
               agenda' = <<ImportsOf(r, Move(loaded(d), o, r))>> \o Advance(o),
               UNCHANGED mode
        PROVE  TypeOK'
    <3>1. r \in Onts
      BY <2>5, <2>8
    <3>2. graphs' \in [Onts -> SUBSET Docs]
      BY <1>3, <2>2, <2>4, <2>8, <3>1, GraphTypes
    <3>3. status' \in [Onts -> Statuses]
      BY <2>6, <2>8 DEF Statuses
    <3>4. agenda' \in Seq(SUBSET Onts)
      <4>1. ImportsOf(r, graphs') \subseteq Onts
        BY <2>2, <3>1, <3>2, GraphTypes
      <4>2. QED
        BY <1>2, <2>8, <4>1, AgendaSteps DEF Advance
    <3>5. QED
      BY <2>8, <3>1, <3>2, <3>3, <3>4 DEF Recover, TypeOK, mirror
  <2>9. QED
    BY <2>1, <2>7, <2>8
<1>8. QED
  BY <1>1, <1>5, <1>6, <1>7

LEMMA ArriveTypes ==
  ASSUME TypeOK, NEW b \in Onts, NEW d \in Docs, NEW r \in Onts,
         NEW how \in {"LOCAL", "WEB"}, Arrive(b, d, r, how)
  PROVE  /\ declared' \subseteq Onts /\ refreshed' \subseteq Onts
         /\ graphs' \in [Onts -> SUBSET Docs]
         /\ status' \in [Onts -> Statuses]
         /\ agenda' \in Seq(SUBSET Onts)
         /\ UNCHANGED project
<1>1. graphs' = Move(Put(graphs, b, d), b, r) /\ graphs' \in [Onts -> SUBSET Docs]
  <2>1. Put(graphs, b, d) \in [Onts -> SUBSET Docs]
    BY GraphTypes DEF TypeOK
  <2>2. QED
    BY <2>1, GraphTypes DEF Arrive
<1>2. ImportsOf(r, graphs') \subseteq Onts
  BY <1>1, GraphTypes
<1>3. agenda' = <<ImportsOf(r, graphs')>>
  BY <1>1 DEF Arrive
<1>4. agenda' \in Seq(SUBSET Onts)
  BY <1>2, <1>3
<1>5. status' \in [Onts -> Statuses]
  BY DEF Arrive, TypeOK, Statuses
<1>6. QED
  BY <1>1, <1>4, <1>5 DEF Arrive, Statement, TypeOK

LEMMA MirrorTypes ==
  ASSUME TypeOK, NEW f \in Files
  PROVE  /\ \A o \in Onts, e \in Docs : Mirrored(o, f, e) =>
              /\ entry' \in [Onts -> Files \cup {NoFile}]
              /\ file' \in [Files -> Docs \cup {NoDoc}]
              /\ newer' \subseteq Files
         /\ MirrorBreaks(f) =>
              /\ entry' \in [Onts -> Files \cup {NoFile}]
              /\ file' \in [Files -> Docs \cup {NoDoc}]
              /\ newer' \subseteq Files
BY DEF TypeOK, Mirrored, MirrorBreaks

LEMMA ImportTypes ==
  ASSUME TypeOK,
         ImportFromMirror \/ ImportFromWeb \/ ImportIntoMirror
           \/ ImportIntoMirrorFails \/ ImportClashes
  PROVE  TypeOK'
<1>1. CASE ImportFromMirror
  <2>1. PICK b \in Onts, r \in Onts :
          /\ entry[b] # NoFile /\ file[entry[b]] # NoDoc
          /\ Arrive(b, file[entry[b]], r, "LOCAL") /\ UNCHANGED mirror
    BY <1>1 DEF ImportFromMirror
  <2>2. file[entry[b]] \in Docs
    BY <2>1 DEF TypeOK
  <2>3. QED
    BY <2>1, <2>2, ArriveTypes DEF TypeOK, project, mirror
<1>2. CASE ImportFromWeb
  <2>1. PICK b \in Onts, r \in Onts : \E d \in Web[b] :
          Arrive(b, d, r, "WEB") /\ UNCHANGED mirror
    BY <1>2 DEF ImportFromWeb
  <2>2. Web[b] \subseteq Docs
    BY DocumentsAssumption
  <2>3. QED
    BY <2>1, <2>2, ArriveTypes DEF TypeOK, project, mirror
<1>3. CASE ImportIntoMirror
  <2>1. PICK b \in Onts, r \in Onts, d \in Docs, e \in Docs, f \in Files :
          Arrive(b, d, r, "LOCAL") /\ Mirrored(r, f, e)
    BY <1>3, DocumentsAssumption DEF ImportIntoMirror
  <2>3. /\ entry' \in [Onts -> Files \cup {NoFile}]
        /\ file' \in [Files -> Docs \cup {NoDoc}]
        /\ newer' \subseteq Files
    BY <2>1, MirrorTypes
  <2>4. QED
    BY <2>1, <2>3, ArriveTypes DEF TypeOK, project
<1>4. CASE ImportIntoMirrorFails
  <2>1. PICK b \in Onts, d \in Docs, f \in Files :
          /\ \E r \in Names(Put(graphs, b, d), b) : graphs' = Move(Put(graphs, b, d), b, r)
          /\ MirrorBreaks(f)
          /\ UNCHANGED <<declared, status, refreshed, agenda>> /\ UNCHANGED project
    BY <1>4, DocumentsAssumption DEF ImportIntoMirrorFails
  <2>3. Put(graphs, b, d) \in [Onts -> SUBSET Docs]
    BY GraphTypes DEF TypeOK
  <2>4. graphs' \in [Onts -> SUBSET Docs]
    BY <2>1, <2>3, GraphTypes
  <2>5. /\ entry' \in [Onts -> Files \cup {NoFile}]
        /\ file' \in [Files -> Docs \cup {NoDoc}]
        /\ newer' \subseteq Files
    BY <2>1, MirrorTypes
  <2>6. QED
    BY <2>1, <2>4, <2>5 DEF TypeOK, project
<1>5. CASE ImportClashes
  <2>1. PICK b \in Onts : graphs' = [graphs EXCEPT ![b] = {}]
    BY <1>5 DEF ImportClashes
  <2>2. QED
    BY <1>5, <2>1 DEF ImportClashes, TypeOK, project, mirror
<1>6. QED
  BY <1>1, <1>2, <1>3, <1>4, <1>5

LEMMA MirrorRequestTypes ==
  ASSUME TypeOK, MirrorOntology \/ UpdateMirrorEntry \/ DeleteMirrorEntry
  PROVE  TypeOK'
<1>1. CASE MirrorOntology
  <2>1. PICK b \in Onts, f \in Files :
          /\ \/ /\ \E e \in Web[b] : Mirrored(b, f, e)
                /\ status' = [status EXCEPT ![b] = "LOCAL"]
             \/ MirrorBreaks(f) /\ UNCHANGED status
          /\ UNCHANGED <<declared, graphs, refreshed, agenda>> /\ UNCHANGED project
    BY <1>1, DocumentsAssumption DEF MirrorOntology
  <2>2. Web[b] \subseteq Docs
    BY DocumentsAssumption
  <2>3. /\ entry' \in [Onts -> Files \cup {NoFile}]
        /\ file' \in [Files -> Docs \cup {NoDoc}]
        /\ newer' \subseteq Files
    BY <2>1, <2>2, MirrorTypes
  <2>4. status' \in [Onts -> Statuses]
    BY <2>1 DEF TypeOK, Statuses
  <2>5. QED
    BY <2>1, <2>3, <2>4 DEF TypeOK, project
<1>2. CASE UpdateMirrorEntry
  <2>1. PICK b \in Onts : \E e \in Web[b] : entry[b] # NoFile /\ Mirrored(b, entry[b], e)
    BY <1>2 DEF UpdateMirrorEntry
  <2>2. entry[b] \in Files /\ Web[b] \subseteq Docs
    BY <2>1, DocumentsAssumption DEF TypeOK
  <2>3. /\ entry' \in [Onts -> Files \cup {NoFile}]
        /\ file' \in [Files -> Docs \cup {NoDoc}]
        /\ newer' \subseteq Files
    BY <2>1, <2>2, MirrorTypes
  <2>4. QED
    BY <1>2, <2>3 DEF UpdateMirrorEntry, TypeOK, project
<1>3. CASE DeleteMirrorEntry
  BY <1>3 DEF DeleteMirrorEntry, TypeOK, project
<1>4. QED
  BY <1>1, <1>2, <1>3

LEMMA ProjectRequestTypes ==
  ASSUME TypeOK,
         NewProject \/ SaveProject \/ CloseProject \/ OpenProject \/ Opened
           \/ Return \/ RemoveImport \/ LoadRDF \/ ClearData
  PROVE  TypeOK'
<1>1. CASE NewProject
  BY <1>1, DocumentsAssumption DEF NewProject, TypeOK, Modes, Statuses, NoGraphs, NoStatus
<1>2. CASE SaveProject
  BY <1>2 DEF SaveProject, TypeOK, mirror
<1>3. CASE CloseProject
  BY <1>3 DEF CloseProject, TypeOK, mirror, Modes, Statuses, NoGraphs, NoStatus
<1>4. CASE OpenProject
  BY <1>4 DEF OpenProject, TypeOK, mirror, Modes
<1>5. CASE Opened
  BY <1>5 DEF Opened, TypeOK, Modes
<1>6. CASE Return
  <2>1. agenda' \in Seq(SUBSET Onts)
    BY <1>6, AgendaSteps DEF Return, TypeOK
  <2>2. QED
    BY <1>6, <2>1 DEF Return, TypeOK, project, mirror
<1>7. CASE RemoveImport
  <2>1. PICK b \in declared :
          /\ declared' = declared \ {b}
          /\ graphs' = [o \in Onts |-> IF o \in Unneeded(b) THEN {} ELSE graphs[o]]
          /\ Forget(Unneeded(b))
          /\ UNCHANGED agenda /\ UNCHANGED project /\ UNCHANGED mirror
    BY <1>7 DEF RemoveImport
  <2>2. graphs' \in [Onts -> SUBSET Docs] /\ declared' \subseteq Onts
    BY <2>1 DEF TypeOK
  <2>3. status' \in [Onts -> Statuses] /\ refreshed' \subseteq Onts
    BY <2>1 DEF TypeOK, Forget, Statuses
  <2>4. QED
    BY <2>1, <2>2, <2>3 DEF TypeOK, project, mirror
<1>8. CASE LoadRDF
  BY <1>8, DocumentsAssumption DEF LoadRDF, TypeOK, project, mirror
<1>9. CASE ClearData
  BY <1>9 DEF ClearData, TypeOK, project, mirror, NoGraphs
<1>10. QED
  BY <1>1, <1>2, <1>3, <1>4, <1>5, <1>6, <1>7, <1>8, <1>9

LEMMA InitTypes ==
  ASSUME Init
  PROVE  TypeOK
<1>1. graphs \in [Onts -> SUBSET Docs] /\ status \in [Onts -> Statuses]
  BY DEF Init, NoGraphs, NoStatus, Statuses
<1>2. /\ entry \in [Onts -> Files \cup {NoFile}]
      /\ file \in [Files -> Docs \cup {NoDoc}]
  BY DEF Init
<1>3. agenda \in Seq(SUBSET Onts)
  BY DEF Init
<1>4. QED
  BY <1>1, <1>2, <1>3 DEF Init, TypeOK, Modes

LEMMA NextTypes ==
  ASSUME TypeOK, [Next]_vars
  PROVE  TypeOK'
<1>1. CASE UNCHANGED vars
  BY <1>1 DEF vars, TypeOK
<1>2. CASE Next
  BY <1>2, ProjectRequestTypes, RecoverTypes, ImportTypes, MirrorRequestTypes DEF Next
<1>3. QED
  BY <1>1, <1>2

(* The type invariant: in particular the statuses stay those the code knows.*)
THEOREM ImportsTypeCorrect == Spec => []TypeOK
<1>1. Init => TypeOK
  BY InitTypes
<1>2. TypeOK /\ [Next]_vars => TypeOK'
  BY NextTypes
<1>3. QED
  BY <1>1, <1>2, PTL DEF Spec

-----------------------------------------------------------------------------
(* Loading a document *)

(* A document is filed under the name it declares.                          *)
LEMMA FiledByReal ==
  ASSUME NEW G \in [Onts -> SUBSET Docs], NEW b \in Onts, NEW d \in Docs,
         \A e \in G[b] : Real[e] = b,
         G[b] # {} => Real[d] = b
  PROVE  Names(Put(G, b, d), b) = {Real[d]}
<1>1. Put(G, b, d)[b] = G[b] \cup {d}
  BY DocumentsAssumption DEF Put
<1>2. Declares(Put(G, b, d), b) = {Real[d]}
  BY <1>1 DEF Declares
<1>3. QED
  BY <1>2 DEF Names

LEMMA MoveKeepsFiled ==
  ASSUME NEW G \in [Onts -> SUBSET Docs], NEW b \in Onts, NEW d \in Docs,
         \A g \in Onts : \A e \in G[g] : Real[e] = g,
         G[b] # {} => Real[d] = b,
         Real[d] \in Onts
  PROVE  /\ Move(Put(G, b, d), b, Real[d]) \in [Onts -> SUBSET Docs]
         /\ \A g \in Onts : \A e \in Move(Put(G, b, d), b, Real[d])[g] : Real[e] = g
<1>0. Put(G, b, d) = [G EXCEPT ![b] = @ \cup {d}]
  BY DocumentsAssumption DEF Put
<1>1. CASE Real[d] = b
  BY <1>0, <1>1 DEF Move
<1>2. CASE Real[d] # b
  <2>1. G[b] = {}
    BY <1>2
  <2>2. Move(Put(G, b, d), b, Real[d])
          = [g \in Onts |-> IF g = b THEN {} ELSE IF g = Real[d] THEN G[g] \cup {d} ELSE G[g]]
    BY <1>0, <1>2, <2>1 DEF Move
  <2>3. QED
    BY <1>2, <2>2
<1>3. QED
  BY <1>1, <1>2

-----------------------------------------------------------------------------
(* The steps *)

LEMMA InitWell ==
  ASSUME NEW owner, WellNamed(owner), Init
  PROVE  NInv(owner)
<1>1. TypeOK
  <2>1. graphs \in [Onts -> SUBSET Docs] /\ status \in [Onts -> Statuses]
    BY DEF Init, Statuses, NoGraphs, NoStatus
  <2>2. entry \in [Onts -> Files \cup {NoFile}] /\ file \in [Files -> Docs \cup {NoDoc}]
    BY DEF Init
  <2>3. agenda \in Seq(SUBSET Onts)
    BY DEF Init
  <2>4. QED
    BY <2>1, <2>2, <2>3 DEF Init, TypeOK, Modes
<1>2. agenda \in Seq(SUBSET Proper)
  BY DEF Init
<1>3. QED
  BY <1>1, <1>2 DEF Init, NInv, Well, FiledUnderOwnName, NoGraphs, NoStatus

(* What may be found for a proper name is the ontology of that name, and    *)
(* its data is filed there.                                                 *)
LEMMA ProperIsFound ==
  ASSUME NEW owner, WellNamed(owner), NInv(owner),
         NEW o \in Proper, NEW d \in Available(o), d # NoDoc
  PROVE  d \in Docs /\ Real[d] = o
<1>1. o \in Onts /\ Web[o] \subseteq Docs
  BY DocumentsAssumption DEF Proper
<1>2. CASE entry[o] # NoFile
  <2>1. d = file[entry[o]] /\ entry[o] \in Files
    BY <1>1, <1>2 DEF Available, NInv, TypeOK
  <2>2. QED
    BY <1>1, <1>2, <2>1 DEF NInv, Well, TypeOK
<1>3. CASE entry[o] = NoFile
  <2>1. d \in Web[o]
    BY <1>3 DEF Available
  <2>2. QED
    BY <1>1, <2>1 DEF Proper
<1>4. QED
  BY <1>2, <1>3

LEMMA ReloadFacts ==
  ASSUME NEW owner, WellNamed(owner), NInv(owner), NEW o \in Proper, agenda # <<>>,
         Reload(o)
  PROVE  \E d \in Available(o) :
           /\ graphs' = Put(Emptied(o), o, d)
           /\ \E how \in {"LOCAL", "WEB"} : status' = [status EXCEPT ![o] = how]
           /\ refreshed' = refreshed \cup {o}
           /\ agenda' = <<ImportsOf(o, graphs')>> \o Advance(o)
           /\ mode' = mode
           /\ graphs' \in [Onts -> SUBSET Docs]
           /\ \A g \in Onts : \A e \in graphs'[g] : Real[e] = g
<1>0. o \in Onts /\ graphs \in [Onts -> SUBSET Docs] /\ status \in [Onts -> Statuses]
  BY DEF Proper, NInv, TypeOK
<1>1. /\ Emptied(o) \in [Onts -> SUBSET Docs]
      /\ Emptied(o)[o] = {}
      /\ \A g \in Onts : \A e \in Emptied(o)[g] : Real[e] = g
  BY <1>0 DEF Emptied, NInv, Well, FiledUnderOwnName
<1>2. ASSUME NEW d \in Available(o)
      PROVE  /\ Names(Put(Emptied(o), o, d), o) = {o}
             /\ Put(Emptied(o), o, d) \in [Onts -> SUBSET Docs]
             /\ \A g \in Onts : \A e \in Put(Emptied(o), o, d)[g] : Real[e] = g
  <2>1. CASE d = NoDoc
    BY <1>0, <1>1, <2>1 DEF Put, Names, Declares
  <2>2. CASE d # NoDoc
    <3>1. d \in Docs /\ Real[d] = o
      BY <2>2, ProperIsFound
    <3>2. Names(Put(Emptied(o), o, d), o) = {o}
      BY <1>0, <1>1, <3>1, FiledByReal
    <3>3. Put(Emptied(o), o, d) = [Emptied(o) EXCEPT ![o] = @ \cup {d}]
      BY <2>2 DEF Put
    <3>4. QED
      BY <1>0, <1>1, <3>1, <3>2, <3>3
  <2>3. QED
    BY <2>1, <2>2
<1>3. \A G : ~Clash(G, o, o) /\ Move(G, o, o) = G
  BY DEF Clash, Move
<1>4. PICK d \in Available(o), how \in {"LOCAL", "WEB"} :
        /\ graphs' = Put(Emptied(o), o, d)
        /\ status' = [[status EXCEPT ![o] = IF d = NoDoc THEN "FAILED" ELSE @]
                        EXCEPT ![o] = how]
        /\ refreshed' = refreshed \cup {o}
        /\ agenda' = <<ImportsOf(o, Put(Emptied(o), o, d))>> \o Advance(o)
        /\ mode' = mode
  BY <1>2, <1>3 DEF Reload
<1>5. status' = [status EXCEPT ![o] = how]
  BY <1>0, <1>4
<1>6. QED
  BY <1>2, <1>4, <1>5

LEMMA RecoverWell ==
  ASSUME NEW owner, WellNamed(owner), NInv(owner), Recover
  PROVE  NInv(owner)' /\ mode' = mode
<1>1. PICK o \in Head(agenda) :
        \/ Skip(o) /\ UNCHANGED <<mode, graphs, status, refreshed>>
        \/ o \notin refreshed /\ Keep(o) /\ UNCHANGED <<mode, graphs, refreshed>>
        \/ o \notin refreshed /\ ~UpToDate(o) /\ Reload(o)
  BY DEF Recover
<1>2. agenda # <<>> /\ UNCHANGED <<persistent, declared, saved, entry, file, newer>>
  BY DEF Recover, mirror
<1>3. agenda \in Seq(SUBSET Proper) /\ Proper \subseteq Onts
  BY DEF NInv, Well, Proper
<1>4. o \in Proper /\ Advance(o) \in Seq(SUBSET Proper)
  BY <1>2, <1>3, AgendaSteps DEF Advance
<1>5. \A X : X \subseteq Proper => <<X>> \o Advance(o) \in Seq(SUBSET Proper)
  BY <1>2, <1>3, AgendaSteps DEF Advance
<1>6. \A x \in Seq(SUBSET Proper) : x \in Seq(SUBSET Onts)
  BY <1>3, SeqDef
<1>7. CASE Skip(o) /\ UNCHANGED <<mode, graphs, status, refreshed>>
  BY <1>2, <1>4, <1>6, <1>7 DEF Skip, NInv, TypeOK, Well, FiledUnderOwnName
<1>8. CASE Keep(o) /\ UNCHANGED <<mode, graphs, refreshed>>
  <2>1. status' = [status EXCEPT ![o] = "NG"] /\ agenda' = Advance(o)
    BY <1>8 DEF Keep
  <2>2. status' \in [Onts -> Statuses] /\ \A p \in Onts : status'[p] # "NULL" => p \in Proper
    BY <1>3, <1>4, <2>1 DEF NInv, TypeOK, Well, Statuses
  <2>3. QED
    BY <1>2, <1>4, <1>6, <1>8, <2>1, <2>2 DEF NInv, TypeOK, Well, FiledUnderOwnName
<1>9. CASE Reload(o)
  <2>1. PICK how \in {"LOCAL", "WEB"} :
          /\ status' = [status EXCEPT ![o] = how]
          /\ refreshed' = refreshed \cup {o}
          /\ agenda' = <<ImportsOf(o, graphs')>> \o Advance(o)
          /\ mode' = mode
          /\ graphs' \in [Onts -> SUBSET Docs]
          /\ \A g \in Onts : \A e \in graphs'[g] : Real[e] = g
    BY <1>2, <1>4, <1>9, ReloadFacts
  <2>2. status' \in [Onts -> Statuses] /\ \A p \in Onts : status'[p] # "NULL" => p \in Proper
    BY <1>3, <1>4, <2>1 DEF NInv, TypeOK, Well, Statuses
  <2>3. agenda' \in Seq(SUBSET Proper)
    BY <1>5, <2>1, ImportsOfType
  <2>4. refreshed' \subseteq Proper
    BY <1>4, <2>1 DEF NInv, Well
  <2>5. QED
    BY <1>2, <1>3, <1>6, <2>1, <2>2, <2>3, <2>4
       DEF NInv, TypeOK, Well, FiledUnderOwnName
<1>10. QED
  BY <1>1, <1>7, <1>8, <1>9

(* The two halves of the invariant: the mirror, and the project.            *)
MirrorHalf(owner) ==
  /\ entry \in [Onts -> Files \cup {NoFile}]
  /\ file \in [Files -> Docs \cup {NoDoc}]
  /\ newer \subseteq Files
  /\ \A o \in Onts : entry[o] # NoFile => o \in Proper /\ owner[entry[o]] = o
  /\ \A f \in Files : file[f] # NoDoc => Real[file[f]] = owner[f]

ProjectHalf ==
  /\ mode \in Modes /\ persistent \in BOOLEAN
  /\ declared \subseteq Proper /\ saved \subseteq Proper
  /\ refreshed \subseteq Proper
  /\ graphs \in [Onts -> SUBSET Docs] /\ FiledUnderOwnName
  /\ status \in [Onts -> Statuses]
  /\ \A o \in Onts : status[o] # "NULL" => o \in Proper
  /\ agenda \in Seq(SUBSET Proper)

LEMMA Halves ==
  ASSUME NEW owner
  PROVE  /\ NInv(owner) <=> MirrorHalf(owner) /\ ProjectHalf
         /\ NInv(owner)' <=> MirrorHalf(owner)' /\ ProjectHalf'
<1>1. Proper \subseteq Onts
  BY DEF Proper
<1>2. \A x \in Seq(SUBSET Proper) : x \in Seq(SUBSET Onts)
  BY <1>1, SeqDef
<1>3. QED
  BY <1>1, <1>2 DEF NInv, MirrorHalf, ProjectHalf, TypeOK, Well, FiledUnderOwnName

LEMMA MirrorUnchanged ==
  ASSUME NEW owner, MirrorHalf(owner), UNCHANGED mirror
  PROVE  MirrorHalf(owner)'
BY DEF MirrorHalf, mirror

LEMMA MirroredWell ==
  ASSUME NEW owner, WellNamed(owner), MirrorHalf(owner),
         NEW o \in Proper, NEW f \in Files, NEW e \in Docs,
         owner[f] = o, Real[e] = o, Mirrored(o, f, e)
  PROVE  MirrorHalf(owner)'
<1>1. o \in Onts
  BY DEF Proper
<1>2. entry' \in [Onts -> Files \cup {NoFile}] /\ file' \in [Files -> Docs \cup {NoDoc}]
  BY <1>1 DEF Mirrored, MirrorHalf
<1>3. newer' \subseteq Files
  BY DEF Mirrored, MirrorHalf
<1>4. \A p \in Onts : entry'[p] # NoFile => p \in Proper /\ owner[entry'[p]] = p
  BY <1>1 DEF Mirrored, MirrorHalf
<1>5. \A g \in Files : file'[g] # NoDoc => Real[file'[g]] = owner[g]
  BY DEF Mirrored, MirrorHalf
<1>6. QED
  BY <1>2, <1>3, <1>4, <1>5 DEF MirrorHalf

LEMMA MirrorBreaksWell ==
  ASSUME NEW owner, MirrorHalf(owner), NEW f \in Files, MirrorBreaks(f)
  PROVE  MirrorHalf(owner)'
<1>1. CASE UNCHANGED <<file, newer>>
  BY <1>1 DEF MirrorBreaks, MirrorHalf
<1>2. CASE file' = [file EXCEPT ![f] = NoDoc] /\ newer' = newer \cup {f}
  <2>1. file' \in [Files -> Docs \cup {NoDoc}] /\ newer' \subseteq Files
    BY <1>2 DEF MirrorHalf
  <2>2. \A g \in Files : file'[g] # NoDoc => Real[file'[g]] = owner[g]
    BY <1>2 DEF MirrorHalf
  <2>3. QED
    BY <2>1, <2>2 DEF MirrorBreaks, MirrorHalf
<1>3. QED
  BY <1>1, <1>2 DEF MirrorBreaks

(* What a user may get when importing b: if there already is data of b, b   *)
(* is a proper name, and more data of b is what is found.                   *)
LEMMA UserFinds ==
  ASSUME NEW owner, WellNamed(owner), NInv(owner), NEW b \in Onts, NEW d,
         \/ d \in Web[b]
         \/ entry[b] # NoFile /\ d = file[entry[b]] /\ d # NoDoc
  PROVE  /\ d \in Docs /\ Real[d] \in Proper /\ Real[d] \in Onts
         /\ graphs[b] # {} => Real[d] = b
         /\ Names(Put(graphs, b, d), b) = {Real[d]}
         /\ Move(Put(graphs, b, d), b, Real[d]) \in [Onts -> SUBSET Docs]
         /\ \A g \in Onts : \A e \in Move(Put(graphs, b, d), b, Real[d])[g] : Real[e] = g
<1>1. /\ graphs \in [Onts -> SUBSET Docs]
      /\ \A g \in Onts : \A e \in graphs[g] : Real[e] = g
  BY DEF NInv, TypeOK, Well, FiledUnderOwnName
<1>2. d \in Docs /\ (entry[b] # NoFile /\ d = file[entry[b]] => Real[d] = b)
  BY DocumentsAssumption DEF NInv, TypeOK, Well
<1>3. Real[d] \in Proper /\ Real[d] \in Onts
  BY <1>2, DocumentsAssumption DEF WellNamed
<1>4. ASSUME graphs[b] # {}
      PROVE  Real[d] = b
  <2>1. b \in Proper
    BY <1>1, <1>4 DEF WellNamed
  <2>2. QED
    BY <1>2, <2>1 DEF Proper
<1>5. Names(Put(graphs, b, d), b) = {Real[d]}
  BY <1>1, <1>2, <1>4, FiledByReal
<1>6. QED
  BY <1>1, <1>2, <1>3, <1>4, <1>5, MoveKeepsFiled

LEMMA ArriveWell ==
  ASSUME NEW owner, WellNamed(owner), NInv(owner), NEW b \in Onts, NEW d,
         NEW r \in Onts, NEW how \in {"LOCAL", "WEB"},
         \/ d \in Web[b]
         \/ entry[b] # NoFile /\ d = file[entry[b]] /\ d # NoDoc,
         Arrive(b, d, r, how)
  PROVE  r = Real[d] /\ r \in Proper /\ ProjectHalf'
<1>1. r = Real[d] /\ r \in Proper /\ d \in Docs
  BY UserFinds DEF Arrive
<1>2. /\ graphs' = Move(Put(graphs, b, d), b, r)
      /\ status' = [status EXCEPT ![r] = how]
      /\ declared' = declared \cup {r}
      /\ refreshed' = refreshed \cup {r}
      /\ agenda' = <<ImportsOf(r, graphs')>>
      /\ UNCHANGED <<mode, persistent, saved>>
  BY DEF Arrive, Statement, project
<1>3. graphs' \in [Onts -> SUBSET Docs] /\ FiledUnderOwnName'
  BY <1>1, <1>2, UserFinds DEF FiledUnderOwnName
<1>4. agenda' \in Seq(SUBSET Proper)
  <2>1. ImportsOf(r, graphs') \in SUBSET Proper
    BY <1>3, ImportsOfType
  <2>2. QED
    BY <1>2, <2>1
<1>5. status' \in [Onts -> Statuses] /\ \A p \in Onts : status'[p] # "NULL" => p \in Proper
  BY <1>1, <1>2 DEF NInv, TypeOK, Well, Statuses
<1>6. /\ declared' \subseteq Proper /\ refreshed' \subseteq Proper /\ saved' \subseteq Proper
      /\ mode' \in Modes /\ persistent' \in BOOLEAN
  BY <1>1, <1>2 DEF NInv, TypeOK, Well
<1>7. QED
  BY <1>1, <1>3, <1>4, <1>5, <1>6 DEF ProjectHalf

LEMMA ImportsWell ==
  ASSUME NEW owner, WellNamed(owner), NInv(owner),
         ImportFromMirror \/ ImportFromWeb \/ ImportIntoMirror
  PROVE  NInv(owner)'
<1>0. MirrorHalf(owner)
  BY Halves
<1>1. CASE ImportFromMirror
  <2>1. PICK b \in Onts, r \in Onts :
          /\ entry[b] # NoFile /\ file[entry[b]] # NoDoc
          /\ Arrive(b, file[entry[b]], r, "LOCAL")
          /\ UNCHANGED mirror
    BY <1>1 DEF ImportFromMirror
  <2>2. ProjectHalf'
    BY <2>1, ArriveWell
  <2>3. QED
    BY <1>0, <2>1, <2>2, MirrorUnchanged, Halves
<1>2. CASE ImportFromWeb
  <2>1. PICK b \in Onts, r \in Onts : \E d \in Web[b] :
          Arrive(b, d, r, "WEB") /\ UNCHANGED mirror
    BY <1>2 DEF ImportFromWeb
  <2>2. ProjectHalf'
    BY <2>1, ArriveWell
  <2>3. QED
    BY <1>0, <2>1, <2>2, MirrorUnchanged, Halves
<1>3. CASE ImportIntoMirror
  <2>1. PICK b \in Onts, r \in Onts : \E d, e \in Web[b], f \in FileOf[b] :
          Arrive(b, d, r, "LOCAL") /\ Mirrored(r, f, e)
    BY <1>3 DEF ImportIntoMirror
  <2>2. PICK d \in Web[b], e \in Web[b], f \in FileOf[b] :
          Arrive(b, d, r, "LOCAL") /\ Mirrored(r, f, e)
    BY <2>1
  <2>3. r = Real[d] /\ r \in Proper /\ ProjectHalf'
    BY <2>2, ArriveWell
  <2>4. f \in Files /\ e \in Docs /\ owner[f] = r /\ Real[e] = r
    BY <2>3, DocumentsAssumption DEF WellNamed
  <2>5. MirrorHalf(owner)'
    BY <1>0, <2>2, <2>3, <2>4, MirroredWell
  <2>6. QED
    BY <2>3, <2>5, Halves
<1>4. QED
  BY <1>1, <1>2, <1>3

LEMMA FailedImportsWell ==
  ASSUME NEW owner, WellNamed(owner), NInv(owner),
         ImportIntoMirrorFails \/ ImportClashes
  PROVE  NInv(owner)'
<1>0. MirrorHalf(owner) /\ ProjectHalf
  BY Halves
<1>1. CASE ImportIntoMirrorFails
  <2>1. PICK b \in Onts : \E d \in Web[b], f \in FileOf[b] :
          /\ \E r \in Names(Put(graphs, b, d), b) :
               graphs' = Move(Put(graphs, b, d), b, r)
          /\ MirrorBreaks(f)
          /\ UNCHANGED <<declared, status, refreshed, agenda, mode, persistent, saved>>
    BY <1>1 DEF ImportIntoMirrorFails, project
  <2>2. PICK d \in Web[b], f \in FileOf[b] :
          /\ \E r \in Names(Put(graphs, b, d), b) :
               graphs' = Move(Put(graphs, b, d), b, r)
          /\ MirrorBreaks(f)
    BY <2>1
  <2>3. graphs' = Move(Put(graphs, b, d), b, Real[d])
    BY <2>2, UserFinds
  <2>4. graphs' \in [Onts -> SUBSET Docs] /\ FiledUnderOwnName'
    BY <2>3, UserFinds DEF FiledUnderOwnName
  <2>5. f \in Files
    BY DocumentsAssumption
  <2>6. MirrorHalf(owner)'
    BY <1>0, <2>2, <2>5, MirrorBreaksWell
  <2>7. ProjectHalf'
    BY <1>0, <2>1, <2>4 DEF ProjectHalf
  <2>8. QED
    BY <2>6, <2>7, Halves
<1>2. CASE ImportClashes
  <2>2. PICK b \in Onts :
          /\ graphs' = [graphs EXCEPT ![b] = {}]
          /\ UNCHANGED <<declared, status, refreshed, agenda, mode, persistent, saved>>
          /\ UNCHANGED mirror
    BY <1>2 DEF ImportClashes, project
  <2>3. graphs' \in [Onts -> SUBSET Docs] /\ FiledUnderOwnName'
    BY <1>0, <2>2 DEF ProjectHalf, FiledUnderOwnName
  <2>4. ProjectHalf'
    BY <1>0, <2>2, <2>3 DEF ProjectHalf
  <2>5. QED
    BY <1>0, <2>2, <2>4, MirrorUnchanged, Halves
<1>3. QED
  BY <1>1, <1>2

LEMMA MirrorRequestsWell ==
  ASSUME NEW owner, WellNamed(owner), NInv(owner),
         MirrorOntology \/ UpdateMirrorEntry \/ DeleteMirrorEntry
  PROVE  NInv(owner)'
<1>0. MirrorHalf(owner) /\ ProjectHalf
  BY Halves
<1>1. CASE MirrorOntology
  <2>0. PICK b \in Onts : \E f \in FileOf[b] :
          /\ status[b] # "NULL"
          /\ \/ /\ \E e \in Web[b] : Mirrored(b, f, e)
                /\ status' = [status EXCEPT ![b] = "LOCAL"]
             \/ MirrorBreaks(f) /\ UNCHANGED status
          /\ UNCHANGED <<declared, graphs, refreshed, agenda, mode, persistent, saved>>
    BY <1>1 DEF MirrorOntology, project
  <2>1. PICK f \in FileOf[b] :
          /\ status[b] # "NULL"
          /\ \/ /\ \E e \in Web[b] : Mirrored(b, f, e)
                /\ status' = [status EXCEPT ![b] = "LOCAL"]
             \/ MirrorBreaks(f) /\ UNCHANGED status
          /\ UNCHANGED <<declared, graphs, refreshed, agenda, mode, persistent, saved>>
    BY <2>0
  <2>2. b \in Proper /\ f \in Files
    BY <1>0, <2>1, DocumentsAssumption DEF ProjectHalf
  <2>3. MirrorHalf(owner)'
    <3>1. ASSUME NEW e \in Web[b], Mirrored(b, f, e)
          PROVE  MirrorHalf(owner)'
      <4>1. e \in Docs /\ Real[e] = b /\ owner[f] = b
        BY <2>2, DocumentsAssumption DEF Proper, WellNamed
      <4>2. QED
        BY <1>0, <2>2, <3>1, <4>1, MirroredWell
    <3>2. QED
      BY <1>0, <2>1, <2>2, <3>1, MirrorBreaksWell
  <2>4. status' \in [Onts -> Statuses] /\ \A p \in Onts : status'[p] # "NULL" => p \in Proper
    BY <1>0, <2>1, <2>2 DEF ProjectHalf, Statuses
  <2>5. ProjectHalf'
    BY <1>0, <2>1, <2>4 DEF ProjectHalf, FiledUnderOwnName
  <2>6. QED
    BY <2>3, <2>5, Halves
<1>2. CASE UpdateMirrorEntry
  <2>0. PICK b \in Onts :
          /\ entry[b] # NoFile /\ \E e \in Web[b] : Mirrored(b, entry[b], e)
          /\ UNCHANGED <<declared, graphs, status, refreshed, agenda, mode, persistent, saved>>
    BY <1>2 DEF UpdateMirrorEntry, project
  <2>1. PICK e \in Web[b] : Mirrored(b, entry[b], e)
    BY <2>0
  <2>2. b \in Proper /\ entry[b] \in Files /\ owner[entry[b]] = b /\ e \in Docs /\ Real[e] = b
    BY <1>0, <2>0, <2>1, DocumentsAssumption DEF MirrorHalf, Proper
  <2>3. MirrorHalf(owner)'
    BY <1>0, <2>0, <2>1, <2>2, MirroredWell
  <2>4. ProjectHalf'
    BY <1>0, <2>0, <2>1 DEF ProjectHalf, FiledUnderOwnName
  <2>5. QED
    BY <2>3, <2>4, Halves
<1>3. CASE DeleteMirrorEntry
  <2>1. PICK b \in Onts :
          /\ entry[b] # NoFile
          /\ entry' = [entry EXCEPT ![b] = NoFile]
          /\ file' = [file EXCEPT ![entry[b]] = NoDoc]
          /\ newer' = newer \ {entry[b]}
          /\ UNCHANGED <<declared, graphs, status, refreshed, agenda, mode, persistent, saved>>
    BY <1>3 DEF DeleteMirrorEntry, project
  <2>2. /\ entry' \in [Onts -> Files \cup {NoFile}]
        /\ \A p \in Onts : entry'[p] # NoFile => p \in Proper /\ owner[entry'[p]] = p
    BY <1>0, <2>1 DEF MirrorHalf
  <2>3. /\ file' \in [Files -> Docs \cup {NoDoc}]
        /\ \A g \in Files : file'[g] # NoDoc => Real[file'[g]] = owner[g]
    BY <1>0, <2>1 DEF MirrorHalf
  <2>4. MirrorHalf(owner)'
    BY <1>0, <2>1, <2>2, <2>3 DEF MirrorHalf
  <2>5. ProjectHalf'
    BY <1>0, <2>1 DEF ProjectHalf, FiledUnderOwnName
  <2>6. QED
    BY <2>4, <2>5, Halves
<1>4. QED
  BY <1>1, <1>2, <1>3

LEMMA ProjectRequestsWell ==
  ASSUME NEW owner, WellNamed(owner), NInv(owner),
         \/ NewProject \/ SaveProject \/ CloseProject \/ OpenProject \/ Opened
         \/ Return \/ RemoveImport \/ LoadRDF \/ ClearData
  PROVE  NInv(owner)'
<1>0. MirrorHalf(owner) /\ ProjectHalf
  BY Halves
<1>a. /\ NoGraphs \in [Onts -> SUBSET Docs] /\ \A o \in Onts : NoGraphs[o] = {}
      /\ NoStatus \in [Onts -> Statuses] /\ \A o \in Onts : NoStatus[o] = "NULL"
  BY DEF NoGraphs, NoStatus, Statuses
<1>1. CASE NewProject
  <2>1. ProjectHalf'
    BY <1>0, <1>1, <1>a, DocumentsAssumption
       DEF NewProject, ProjectHalf, FiledUnderOwnName, Modes
  <2>2. MirrorHalf(owner)'
    BY <1>0, <1>1 DEF NewProject, MirrorHalf
  <2>3. QED
    BY <2>1, <2>2, Halves
<1>2. CASE SaveProject
  <2>1. ProjectHalf'
    BY <1>0, <1>2 DEF SaveProject, ProjectHalf, FiledUnderOwnName
  <2>2. QED
    BY <1>0, <1>2, <2>1, MirrorUnchanged, Halves DEF SaveProject
<1>3. CASE CloseProject
  <2>1. ProjectHalf'
    BY <1>0, <1>3, <1>a DEF CloseProject, ProjectHalf, FiledUnderOwnName, Modes
  <2>2. QED
    BY <1>0, <1>3, <2>1, MirrorUnchanged, Halves DEF CloseProject
<1>4. CASE OpenProject
  <2>1. <<declared>> \in Seq(SUBSET Proper)
    BY <1>0 DEF ProjectHalf
  <2>2. ProjectHalf'
    BY <1>0, <1>4, <2>1 DEF OpenProject, ProjectHalf, FiledUnderOwnName, Modes
  <2>3. QED
    BY <1>0, <1>4, <2>2, MirrorUnchanged, Halves DEF OpenProject
<1>5. CASE Opened
  <2>1. ProjectHalf'
    BY <1>0, <1>5 DEF Opened, ProjectHalf, FiledUnderOwnName, Modes
  <2>2. MirrorHalf(owner)'
    BY <1>0, <1>5 DEF Opened, MirrorHalf
  <2>3. QED
    BY <2>1, <2>2, Halves
<1>6. CASE Return
  <2>1. Tail(agenda) \in Seq(SUBSET Proper)
    BY <1>0, <1>6, AgendaSteps DEF Return, ProjectHalf
  <2>2. ProjectHalf'
    BY <1>0, <1>6, <2>1 DEF Return, project, ProjectHalf, FiledUnderOwnName
  <2>3. QED
    BY <1>0, <1>6, <2>2, MirrorUnchanged, Halves DEF Return
<1>7. CASE RemoveImport
  <2>1. PICK b \in declared :
          /\ declared' = declared \ {b}
          /\ graphs' = [o \in Onts |-> IF o \in Unneeded(b) THEN {} ELSE graphs[o]]
          /\ status' = [o \in Onts |-> IF o \in Unneeded(b) THEN "NULL" ELSE status[o]]
          /\ refreshed' = refreshed \ Unneeded(b)
          /\ UNCHANGED <<agenda, mode, persistent, saved>> /\ UNCHANGED mirror
    BY <1>7 DEF RemoveImport, Forget, project
  <2>2. graphs' \in [Onts -> SUBSET Docs] /\ FiledUnderOwnName'
    BY <1>0, <2>1 DEF ProjectHalf, FiledUnderOwnName
  <2>3. status' \in [Onts -> Statuses] /\ \A p \in Onts : status'[p] # "NULL" => p \in Proper
    BY <1>0, <2>1 DEF ProjectHalf, Statuses
  <2>4. ProjectHalf'
    BY <1>0, <2>1, <2>2, <2>3 DEF ProjectHalf
  <2>5. QED
    BY <1>0, <2>1, <2>4, MirrorUnchanged, Halves
<1>8. CASE LoadRDF
  <2>1. declared' \subseteq Proper
    BY <1>0, <1>8 DEF LoadRDF, ProjectHalf, WellNamed
  <2>2. <<declared'>> \in Seq(SUBSET Proper)
    BY <2>1
  <2>3. ProjectHalf'
    BY <1>0, <1>8, <2>1, <2>2 DEF LoadRDF, project, ProjectHalf, FiledUnderOwnName
  <2>4. QED
    BY <1>0, <1>8, <2>3, MirrorUnchanged, Halves DEF LoadRDF
<1>9. CASE ClearData
  <2>1. ProjectHalf'
    BY <1>0, <1>9, <1>a DEF ClearData, project, ProjectHalf, FiledUnderOwnName
  <2>2. QED
    BY <1>0, <1>9, <2>1, MirrorUnchanged, Halves DEF ClearData
<1>10. QED
  BY <1>1, <1>2, <1>3, <1>4, <1>5, <1>6, <1>7, <1>8, <1>9

LEMMA NextWell ==
  ASSUME NEW owner, WellNamed(owner), NInv(owner), [Next]_vars
  PROVE  NInv(owner)'
<1>1. CASE UNCHANGED vars
  BY <1>1 DEF vars, NInv, TypeOK, Well, FiledUnderOwnName
<1>2. CASE Next
  BY <1>2, ProjectRequestsWell, RecoverWell, ImportsWell, FailedImportsWell,
     MirrorRequestsWell DEF Next
<1>3. QED
  BY <1>1, <1>2

(* In a well named world the invariant holds, whatever fails.               *)
THEOREM WellNamedStays ==
  ASSUME NEW owner, WellNamed(owner)
  PROVE  Spec => []NInv(owner)
<1>1. Init => NInv(owner)
  BY InitWell
<1>2. NInv(owner) /\ [Next]_vars => NInv(owner)'
  BY NextWell
<1>3. QED
  BY <1>1, <1>2, PTL DEF Spec

(* Data is filed under the name it declares: notifiedAddedOntologyImport's  *)
(* renaming is enough even if downloads fail half way, files in the mirror  *)
(* are lost and the documents change between one download and the next.     *)
THEOREM FiledRight ==
  ASSUME NEW owner, WellNamed(owner)
  PROVE  Spec => []FiledUnderOwnName
<1>1. NInv(owner) => FiledUnderOwnName
  BY DEF NInv, Well
<1>2. QED
  BY <1>1, WellNamedStays, PTL

(* Opening a project does not delete it.                                    *)
THEOREM OpeningIsSafe ==
  ASSUME NEW owner, WellNamed(owner)
  PROVE  Spec => OpensAgain
<1>1. NInv(owner) /\ [Next]_vars => [mode = "opening" => mode' # "none"]_vars
  <2> SUFFICES ASSUME NInv(owner), Next, mode = "opening"
               PROVE  mode' # "none"
    BY DEF vars
  <2>1. CASE Recover
    BY <2>1, RecoverWell
  <2>2. CASE ~Recover
    BY <2>2 DEF Next, NewProject, SaveProject, CloseProject, OpenProject, Opened,
       Return, Idle, Importable, ImportFromMirror, ImportFromWeb, ImportIntoMirror,
       ImportIntoMirrorFails, ImportClashes, RemoveImport, MirrorOntology,
       UpdateMirrorEntry, DeleteMirrorEntry, LoadRDF, ClearData, project
  <2>3. QED
    BY <2>1, <2>2
<1>2. QED
  BY <1>1, WellNamedStays, PTL DEF Spec, OpensAgain

-----------------------------------------------------------------------------
(* What is loaded again *)

AtMostOne(S) == S = {} \/ \E d : S = {d}

(* A closed project has no statuses, so that those of a project being       *)
(* opened are of graphs that have just been loaded.                         *)
Reloaded ==
  /\ mode = "closed" => status = NoStatus /\ agenda = <<>>
  /\ mode = "opening" =>
       \A o \in Onts : status[o] \in {"WEB", "LOCAL"} => AtMostOne(graphs[o])

RInv == TypeOK /\ Reloaded

LEMMA RecoverReloads ==
  ASSUME RInv, Recover
  PROVE  Reloaded'
<1>0. TypeOK /\ agenda # <<>> /\ mode # "closed"
  BY DEF RInv, Reloaded, Recover
<1> SUFFICES ASSUME mode' = "opening", NEW p \in Onts, status'[p] \in {"WEB", "LOCAL"}
             PROVE  AtMostOne(graphs'[p])
  <2>1. mode' # "closed"
    BY <1>0 DEF Recover, Reload, Abandon
  <2>2. QED
    BY <2>1 DEF Reloaded
<1>1. mode = "opening"
  BY DEF Recover, Reload, Abandon
<1>2. \A o \in Onts : status[o] \in {"WEB", "LOCAL"} => AtMostOne(graphs[o])
  BY <1>1 DEF RInv, Reloaded
<1>3. PICK o \in Head(agenda) :
        \/ UNCHANGED <<graphs, status>>
        \/ Keep(o) /\ UNCHANGED graphs
        \/ Reload(o)
  BY DEF Recover
<1>4. o \in Onts
  BY <1>0, <1>3, AgendaSteps DEF TypeOK
<1>5. CASE UNCHANGED <<graphs, status>>
  BY <1>2, <1>5
<1>6. CASE Keep(o) /\ UNCHANGED graphs
  BY <1>0, <1>2, <1>4, <1>6 DEF Keep, TypeOK
<1>7. CASE Reload(o)
  <2> DEFINE loaded(d) == Put(Emptied(o), o, d)
             how == IF entry[o] # NoFile THEN "LOCAL" ELSE "WEB"
             noted(d) == [status EXCEPT ![o] = IF d = NoDoc THEN "FAILED" ELSE @]
  <2>0. PICK d \in Available(o) : \E r \in Names(loaded(d), o) :
          /\ ~Clash(loaded(d), o, r)
          /\ graphs' = Move(loaded(d), o, r)
          /\ status' = [noted(d) EXCEPT ![r] = how]
    BY <1>1, <1>7 DEF Reload, Abandon
  <2>1. PICK r \in Names(loaded(d), o) :
          /\ ~Clash(loaded(d), o, r)
          /\ graphs' = Move(loaded(d), o, r)
          /\ status' = [noted(d) EXCEPT ![r] = how]
    BY <2>0
  <2>2. d \in Docs \cup {NoDoc}
    <3>1. d \in Web[o] \cup {NoDoc} \/ (entry[o] # NoFile /\ d = file[entry[o]])
      BY <2>0 DEF Available
    <3>2. entry[o] # NoFile => file[entry[o]] \in Docs \cup {NoDoc}
      BY <1>0, <1>4 DEF TypeOK
    <3>3. QED
      BY <1>4, <3>1, <3>2, DocumentsAssumption
  <2>3. loaded(d) \in [Onts -> SUBSET Docs]
    BY <1>0, <1>4, <2>2, GraphTypes DEF Emptied, TypeOK
  <2>4. /\ AtMostOne(loaded(d)[o])
        /\ \A q \in Onts \ {o} : loaded(d)[q] = graphs[q]
    BY <1>0, <1>4, <2>2 DEF Put, Emptied, AtMostOne, TypeOK
  <2>5. r \in Onts
    BY <1>4, <2>1, <2>2, <2>3, GraphTypes
  <2>6. \A q \in Onts \ {o, r} : graphs'[q] = graphs[q] /\ status'[q] = status[q]
    BY <1>0, <1>4, <2>1, <2>3, <2>4, <2>5 DEF Move, TypeOK
  <2>7. AtMostOne(graphs'[r])
    BY <1>4, <2>1, <2>3, <2>4, <2>5 DEF Move, Clash
  <2>8. r # o => graphs'[o] = {}
    BY <1>4, <2>1, <2>3, <2>5 DEF Move
  <2>9. CASE p = r
    BY <2>7, <2>9
  <2>10. CASE p # r /\ p = o
    BY <2>8, <2>10 DEF AtMostOne
  <2>11. CASE p # r /\ p # o
    BY <1>2, <2>6, <2>11
  <2>12. QED
    BY <2>9, <2>10, <2>11
<1>8. QED
  BY <1>3, <1>5, <1>6, <1>7

LEMMA NextReloads ==
  ASSUME RInv, Next
  PROVE  Reloaded'
<1>1. CASE Recover
  BY <1>1, RecoverReloads
<1>2. CASE OpenProject
  BY <1>2 DEF OpenProject, RInv, Reloaded, NoStatus
<1>3. CASE NewProject \/ CloseProject \/ Opened
  BY <1>3 DEF NewProject, CloseProject, Opened, Idle, Reloaded
<1>4. CASE Return
  BY <1>4 DEF Return, RInv, Reloaded, project
<1>5. CASE UpdateMirrorEntry \/ DeleteMirrorEntry
  BY <1>5 DEF UpdateMirrorEntry, DeleteMirrorEntry, RInv, Reloaded, project
<1>6. CASE \/ SaveProject \/ ImportFromMirror \/ ImportFromWeb \/ ImportIntoMirror
           \/ ImportIntoMirrorFails \/ ImportClashes \/ RemoveImport
           \/ MirrorOntology \/ LoadRDF \/ ClearData
  <2>1. mode' = "open"
    BY <1>6 DEF SaveProject, ImportFromMirror, ImportFromWeb, ImportIntoMirror,
       ImportIntoMirrorFails, ImportClashes, RemoveImport, MirrorOntology,
       LoadRDF, ClearData, Arrive, Importable, Idle, project
  <2>2. QED
    BY <2>1 DEF Reloaded
<1>7. QED
  BY <1>1, <1>2, <1>3, <1>4, <1>5, <1>6 DEF Next

(* Opening a project never mixes what the store kept of an ontology with    *)
(* what is loaded again, even when the data that is loaded is moved to      *)
(* another name: recoverOntology clears the graph, and renaming is refused  *)
(* when there is data under the other name.                                 *)
THEOREM OpeningReplaces == Spec => ReloadReplaces
<1>1. Init => RInv
  <2>1. Init => TypeOK
    BY InitTypes
  <2>2. QED
    BY <2>1 DEF Init, RInv, Reloaded
<1>2. RInv /\ [Next]_vars => RInv'
  <2>1. RInv /\ Next => Reloaded'
    BY NextReloads
  <2>2. RInv /\ [Next]_vars => TypeOK'
    BY NextTypes DEF RInv
  <2>3. RInv /\ UNCHANGED vars => Reloaded'
    BY DEF RInv, Reloaded, vars, AtMostOne
  <2>4. QED
    BY <2>1, <2>2, <2>3 DEF RInv
<1>3. RInv /\ [Next]_vars =>
        [mode = "opening" /\ mode' = "open" =>
           \A o \in Onts : status[o] \in {"WEB", "LOCAL"} =>
                             Cardinality(graphs[o]) <= 1]_vars
  <2>1. \A S : AtMostOne(S) => Cardinality(S) <= 1
    BY FS_EmptySet, FS_Singleton DEF AtMostOne
  <2>2. QED
    BY <2>1 DEF RInv, Reloaded
<1>4. QED
  BY <1>1, <1>2, <1>3, PTL DEF Spec, ReloadReplaces

-----------------------------------------------------------------------------
(***************************************************************************)
(* The import tree of a project of type saveToStore and the bookkeeping    *)
(* about it agree, for any ontologies; and removing an import takes back   *)
(* what it did.                                                            *)
(***************************************************************************)

(* The imports that the stack has still to look at.                         *)
Pending(s) == {o \in Onts : \E i \in 1..Len(s) : o \in s[i]}

(* While imports are being recovered, what has been refreshed and what is   *)
(* pending, together, hold all the imports of the main graph and of every   *)
(* ontology refreshed, and nothing that is not an import of theirs.         *)
Tracked ==
  /\ refreshed = {o \in Onts : status[o] # "NULL"}
  /\ \A o \in Onts : status[o] \in {"NULL", "LOCAL", "WEB"}
  /\ \A o \in Onts : graphs[o] # {} => o \in refreshed
  /\ declared \subseteq refreshed \cup Pending(agenda)
  /\ \A o \in refreshed : ImportsOf(o, graphs) \subseteq refreshed \cup Pending(agenda)
  /\ refreshed \cup Pending(agenda) \subseteq Closure(declared, graphs)

Accounts ==
  /\ persistent = FALSE
  /\ mode \in {"none", "closed"} => agenda = <<>>
  /\ mode = "closed" => graphs = NoGraphs /\ status = NoStatus /\ refreshed = {}
  /\ mode \in {"open", "opening"} => Tracked

TInv(owner) == NInv(owner) /\ Accounts

-----------------------------------------------------------------------------
(* Closures *)

LEMMA ClosureFacts ==
  ASSUME NEW G \in [Onts -> SUBSET Docs], NEW S \in SUBSET Onts
  PROVE  /\ S \subseteq Closure(S, G) /\ Closure(S, G) \subseteq Onts
         /\ Closed(Closure(S, G), G)
         /\ \A T \in SUBSET Onts : S \subseteq T /\ Closed(T, G) => Closure(S, G) \subseteq T
<1>1. S \subseteq Closure(S, G) /\ Closure(S, G) \subseteq Onts
  BY DEF Closure
<1>2. \A T \in SUBSET Onts : S \subseteq T /\ Closed(T, G) => Closure(S, G) \subseteq T
  BY DEF Closure
<1>3. ASSUME NEW o \in Closure(S, G), NEW p \in ImportsOf(o, G)
      PROVE  p \in Closure(S, G)
  <2>1. p \in Onts
    BY DocumentsAssumption DEF ImportsOf
  <2>2. ASSUME NEW T \in SUBSET Onts, S \subseteq T, Closed(T, G)
        PROVE  p \in T
    <3>1. o \in T
      BY <1>2, <2>2
    <3>2. QED
      BY <2>2, <3>1 DEF Closed
  <2>3. QED
    BY <2>1, <2>2 DEF Closure
<1>4. QED
  BY <1>1, <1>2, <1>3 DEF Closed

LEMMA EmptyClosure ==
  ASSUME NEW G
  PROVE  Closure({}, G) = {}
<1>1. Closed({}, G)
  BY DEF Closed
<1>2. QED
  BY <1>1 DEF Closure

(* More imports declared and more data loaded: a larger closure.            *)
LEMMA ClosureGrows ==
  ASSUME NEW G \in [Onts -> SUBSET Docs], NEW H \in [Onts -> SUBSET Docs],
         NEW S \in SUBSET Onts, NEW T \in SUBSET Onts,
         S \subseteq T, \A o \in Onts : G[o] \subseteq H[o]
  PROVE  Closure(S, G) \subseteq Closure(T, H)
<1>1. T \subseteq Closure(T, H) /\ Closure(T, H) \in SUBSET Onts
      /\ Closed(Closure(T, H), H)
  BY ClosureFacts
<1>2. \A o : ImportsOf(o, G) \subseteq ImportsOf(o, H)
  BY DEF ImportsOf
<1>3. Closed(Closure(T, H), G)
  BY <1>1, <1>2 DEF Closed
<1>4. QED
  BY <1>1, <1>3, ClosureFacts

LEMMA ClosureOfUnion ==
  ASSUME NEW G \in [Onts -> SUBSET Docs],
         NEW S \in SUBSET Onts, NEW T \in SUBSET Onts
  PROVE  Closure(S \cup T, G) = Closure(S, G) \cup Closure(T, G)
<1>1. Closed(Closure(S, G) \cup Closure(T, G), G)
  BY ClosureFacts DEF Closed
<1>2. S \cup T \subseteq Closure(S, G) \cup Closure(T, G)
      /\ Closure(S, G) \cup Closure(T, G) \in SUBSET Onts
  BY ClosureFacts
<1>3. Closure(S \cup T, G) \subseteq Closure(S, G) \cup Closure(T, G)
  BY <1>1, <1>2, ClosureFacts
<1>4. Closure(S, G) \subseteq Closure(S \cup T, G) /\ Closure(T, G) \subseteq Closure(S \cup T, G)
  BY ClosureGrows
<1>5. QED
  BY <1>3, <1>4

(* An ontology's imports are in its own graph, if data is filed right.      *)
LEMMA OwnImports ==
  ASSUME NEW G \in [Onts -> SUBSET Docs], NEW o \in Onts,
         \A g \in Onts : \A e \in G[g] : Real[e] = g
  PROVE  ImportsOf(o, G) = UNION {Requires[d] : d \in G[o]}
BY DEF ImportsOf

-----------------------------------------------------------------------------
(* The stack *)

LEMMA PendingStart ==
  /\ Pending(<<>>) = {}
  /\ \A X \in SUBSET Onts : Pending(<<X>>) = X
BY DEF Pending

LEMMA PendingCons ==
  ASSUME NEW X \in SUBSET Onts, NEW s \in Seq(SUBSET Onts)
  PROVE  Pending(<<X>> \o s) = X \cup Pending(s)
<1>1. /\ Len(<<X>> \o s) = 1 + Len(s) /\ Len(s) \in Nat
      /\ \A i \in 1..Len(<<X>> \o s) :
           (<<X>> \o s)[i] = IF i = 1 THEN X ELSE s[i - 1]
  OBVIOUS
<1>2. \A j \in 1..Len(s) : j + 1 \in 1..Len(<<X>> \o s) /\ (<<X>> \o s)[j + 1] = s[j]
  BY <1>1
<1>3. \A i \in 1..Len(<<X>> \o s) : i # 1 => i - 1 \in 1..Len(s)
  BY <1>1
<1>4. 1 \in 1..Len(<<X>> \o s) /\ (<<X>> \o s)[1] = X
  BY <1>1
<1>5. ASSUME NEW o \in Pending(<<X>> \o s)
      PROVE  o \in X \cup Pending(s)
  BY <1>1, <1>3 DEF Pending
<1>6. ASSUME NEW o \in X \cup Pending(s)
      PROVE  o \in Pending(<<X>> \o s)
  BY <1>2, <1>4 DEF Pending
<1>7. QED
  BY <1>5, <1>6

LEMMA PendingSplit ==
  ASSUME NEW s \in Seq(SUBSET Onts), s # <<>>
  PROVE  /\ Head(s) \in SUBSET Onts /\ Tail(s) \in Seq(SUBSET Onts)
         /\ Pending(s) = Head(s) \cup Pending(Tail(s))
<1>1. Head(s) \in SUBSET Onts /\ Tail(s) \in Seq(SUBSET Onts) /\ s = <<Head(s)>> \o Tail(s)
  BY HeadTailProperties
<1>2. QED
  BY <1>1, PendingCons

LEMMA PendingAdvance ==
  ASSUME agenda \in Seq(SUBSET Onts), agenda # <<>>, NEW o \in Head(agenda)
  PROVE  /\ Advance(o) \in Seq(SUBSET Onts)
         /\ Pending(Advance(o)) \subseteq Pending(agenda)
         /\ Pending(agenda) \subseteq Pending(Advance(o)) \cup {o}
         /\ o \in Pending(agenda) /\ o \in Onts
<1>1. /\ Head(agenda) \in SUBSET Onts /\ Tail(agenda) \in Seq(SUBSET Onts)
      /\ Pending(agenda) = Head(agenda) \cup Pending(Tail(agenda))
  BY PendingSplit
<1>2. Pending(Advance(o)) = (Head(agenda) \ {o}) \cup Pending(Tail(agenda))
  BY <1>1, PendingCons DEF Advance
<1>3. Advance(o) \in Seq(SUBSET Onts)
  BY AgendaSteps DEF Advance
<1>4. QED
  BY <1>1, <1>2, <1>3

-----------------------------------------------------------------------------
(* The steps that load data *)

(* Ontology o, which had no data, has been loaded (or not been found).      *)
LEMMA LoadedTracked ==
  ASSUME NEW owner, WellNamed(owner), NInv(owner), NInv(owner)', Tracked,
         NEW o \in Onts, graphs[o] = {},
         NEW X \in SUBSET Docs, graphs' = [graphs EXCEPT ![o] = X],
         NEW how \in {"LOCAL", "WEB"}, status' = [status EXCEPT ![o] = how],
         refreshed' = refreshed \cup {o},
         declared \subseteq declared', declared' \subseteq declared \cup {o},
         o \in Pending(agenda) \cup declared',
         Pending(agenda) \subseteq Pending(agenda') \cup {o},
         Pending(agenda') \subseteq Pending(agenda) \cup ImportsOf(o, graphs'),
         ImportsOf(o, graphs') \subseteq Pending(agenda')
  PROVE  Tracked'
<1>0. /\ graphs \in [Onts -> SUBSET Docs] /\ graphs' \in [Onts -> SUBSET Docs]
      /\ status \in [Onts -> Statuses] /\ declared \in SUBSET Onts /\ declared' \in SUBSET Onts
      /\ \A g \in Onts : \A e \in graphs[g] : Real[e] = g
      /\ \A g \in Onts : \A e \in graphs'[g] : Real[e] = g
  BY DEF NInv, TypeOK, Well, FiledUnderOwnName
<1>1. refreshed' = {p \in Onts : status'[p] # "NULL"}
  BY <1>0 DEF Tracked
<1>2. \A p \in Onts : status'[p] \in {"NULL", "LOCAL", "WEB"}
  BY <1>0 DEF Tracked
<1>3. \A p \in Onts : graphs'[p] # {} => p \in refreshed'
  BY <1>0 DEF Tracked
<1>4. declared' \subseteq refreshed' \cup Pending(agenda')
  BY DEF Tracked
<1>5. \A p \in Onts : p # o => ImportsOf(p, graphs') = ImportsOf(p, graphs)
  BY <1>0, OwnImports
<1>6. ASSUME NEW p \in refreshed'
      PROVE  ImportsOf(p, graphs') \subseteq refreshed' \cup Pending(agenda')
  <2>1. CASE p = o
    BY <2>1
  <2>2. CASE p # o
    <3>1. p \in refreshed /\ p \in Onts
      BY <2>2 DEF Tracked
    <3>2. QED
      BY <1>5, <2>2, <3>1 DEF Tracked
  <2>3. QED
    BY <2>1, <2>2
<1>7. Closure(declared, graphs) \subseteq Closure(declared', graphs')
  <2>1. \A p \in Onts : graphs[p] \subseteq graphs'[p]
    BY <1>0
  <2>2. QED
    BY <1>0, <2>1, ClosureGrows
<1>8. o \in Closure(declared', graphs')
  BY <1>0, <1>7, ClosureFacts DEF Tracked
<1>9. ImportsOf(o, graphs') \subseteq Closure(declared', graphs')
  BY <1>0, <1>8, ClosureFacts DEF Closed
<1>10. refreshed' \cup Pending(agenda') \subseteq Closure(declared', graphs')
  BY <1>7, <1>8, <1>9 DEF Tracked
<1>11. QED
  BY <1>1, <1>2, <1>3, <1>4, <1>6, <1>10 DEF Tracked

(* Recovery goes on, and leaves what has been refreshed as it is.           *)
LEMMA RecoverTracked ==
  ASSUME NEW owner, WellNamed(owner), NInv(owner), Tracked, Recover
  PROVE  /\ Tracked'
         /\ refreshed \subseteq refreshed'
         /\ \A p \in refreshed : graphs'[p] = graphs[p] /\ status'[p] = status[p]
<1>0. agenda # <<>> /\ agenda \in Seq(SUBSET Onts) /\ agenda \in Seq(SUBSET Proper)
      /\ UNCHANGED <<declared>> /\ NInv(owner)'
  BY RecoverWell DEF Recover, NInv, TypeOK, Well
<1>1. PICK o \in Head(agenda) :
        \/ Skip(o) /\ UNCHANGED <<mode, graphs, status, refreshed>>
        \/ o \notin refreshed /\ Keep(o) /\ UNCHANGED <<mode, graphs, refreshed>>
        \/ o \notin refreshed /\ ~UpToDate(o) /\ Reload(o)
  BY DEF Recover
<1>2. /\ Advance(o) \in Seq(SUBSET Onts)
      /\ Pending(Advance(o)) \subseteq Pending(agenda)
      /\ Pending(agenda) \subseteq Pending(Advance(o)) \cup {o}
      /\ o \in Pending(agenda) /\ o \in Onts
  BY <1>0, PendingAdvance
<1>3. CASE Skip(o) /\ UNCHANGED <<mode, graphs, status, refreshed>>
  <2>1. agenda' = Advance(o) /\ o \in refreshed
    BY <1>3 DEF Skip
  <2>2. refreshed \cup Pending(agenda') = refreshed \cup Pending(agenda)
    BY <1>2, <2>1
  <2>3. QED
    BY <1>0, <1>3, <2>2 DEF Tracked
<1>4. ASSUME o \notin refreshed
      PROVE  graphs[o] = {} /\ ~Keep(o)
  BY <1>2, <1>4 DEF Tracked, Keep, UpToDate
<1>5. CASE o \notin refreshed /\ Reload(o)
  <2>1. o \in Proper
    BY <1>0, AgendaSteps
  <2>2. PICK d \in Available(o), how \in {"LOCAL", "WEB"} :
          /\ graphs' = Put(Emptied(o), o, d)
          /\ status' = [status EXCEPT ![o] = how]
          /\ refreshed' = refreshed \cup {o}
          /\ agenda' = <<ImportsOf(o, graphs')>> \o Advance(o)
          /\ graphs' \in [Onts -> SUBSET Docs]
    BY <1>0, <1>5, <2>1, ReloadFacts
  <2>3. Emptied(o) = graphs
    BY <1>2, <1>4, <1>5 DEF Emptied, NInv, TypeOK
  <2>4. graphs' = [graphs EXCEPT ![o] = graphs'[o]] /\ graphs'[o] \in SUBSET Docs
    BY <1>2, <2>2, <2>3 DEF Put, NInv, TypeOK
  <2>5. ImportsOf(o, graphs') \in SUBSET Onts
    BY <2>2, DocumentsAssumption DEF ImportsOf
  <2>6. Pending(agenda') = ImportsOf(o, graphs') \cup Pending(Advance(o))
    BY <1>2, <2>2, <2>5, PendingCons
  <2>7. Tracked'
    BY <1>0, <1>2, <1>4, <1>5, <2>2, <2>4, <2>6, LoadedTracked
  <2>8. refreshed \subseteq Onts /\ status \in [Onts -> Statuses]
        /\ graphs \in [Onts -> SUBSET Docs]
    BY DEF NInv, TypeOK
  <2>9. \A p \in refreshed : graphs'[p] = graphs[p] /\ status'[p] = status[p]
    BY <1>5, <2>2, <2>4, <2>8
  <2>10. QED
    BY <2>2, <2>7, <2>9
<1>6. QED
  BY <1>1, <1>3, <1>4, <1>5

(* What a user imports is filed where there was no data.                    *)
LEMMA ArriveFacts ==
  ASSUME NEW owner, WellNamed(owner), NInv(owner), Tracked,
         NEW b \in Onts, NEW d, NEW r \in Onts, NEW how \in {"LOCAL", "WEB"},
         status[b] \notin {"LOCAL", "WEB"},
         \/ d \in Web[b]
         \/ entry[b] # NoFile /\ d = file[entry[b]] /\ d # NoDoc,
         Arrive(b, d, r, how)
  PROVE  /\ d \in Docs /\ graphs[r] = {}
         /\ graphs' = [graphs EXCEPT ![r] = {d}]
         /\ status' = [status EXCEPT ![r] = how]
         /\ declared' = declared \cup {r}
         /\ refreshed' = refreshed \cup {r}
         /\ agenda' = <<ImportsOf(r, graphs')>>
<1>a. d \in Docs
  BY UserFinds
<1>b. r = Real[d]
  BY ArriveWell
<1>0. graphs \in [Onts -> SUBSET Docs] /\ d \in Docs /\ r = Real[d]
  BY <1>a, <1>b DEF NInv, TypeOK
<1>1. /\ graphs' = Move(Put(graphs, b, d), b, r)
      /\ status' = [status EXCEPT ![r] = how]
      /\ declared' = declared \cup {r}
      /\ refreshed' = refreshed \cup {r}
      /\ agenda' = <<ImportsOf(r, graphs')>>
      /\ ~Clash(Put(graphs, b, d), b, r)
  BY DEF Arrive, Statement
<1>2. graphs[b] = {}
  BY DEF Tracked
<1>3. Put(graphs, b, d) = [graphs EXCEPT ![b] = {d}]
  BY <1>0, <1>2, DocumentsAssumption DEF Put
<1>4. graphs[r] = {}
  BY <1>0, <1>1, <1>2, <1>3 DEF Clash
<1>5. graphs' = [graphs EXCEPT ![r] = {d}]
  <2>1. CASE r = b
    BY <1>1, <1>3, <2>1 DEF Move
  <2>2. CASE r # b
    <3>1. Move(Put(graphs, b, d), b, r)
            = [g \in Onts |-> IF g = b THEN {} ELSE IF g = r THEN {d} ELSE graphs[g]]
      BY <1>0, <1>3, <1>4, <2>2 DEF Move
    <3>2. QED
      BY <1>0, <1>1, <1>2, <2>2, <3>1
  <2>3. QED
    BY <2>1, <2>2
<1>6. QED
  BY <1>0, <1>1, <1>4, <1>5

LEMMA ArriveTracked ==
  ASSUME NEW owner, WellNamed(owner), NInv(owner), NInv(owner)', Tracked, Idle,
         NEW b \in Onts, NEW d, NEW r \in Onts, NEW how \in {"LOCAL", "WEB"},
         status[b] \notin {"LOCAL", "WEB"},
         \/ d \in Web[b]
         \/ entry[b] # NoFile /\ d = file[entry[b]] /\ d # NoDoc,
         Arrive(b, d, r, how)
  PROVE  Tracked'
<1>1. /\ d \in Docs /\ graphs[r] = {}
      /\ graphs' = [graphs EXCEPT ![r] = {d}]
      /\ status' = [status EXCEPT ![r] = how]
      /\ declared' = declared \cup {r}
      /\ refreshed' = refreshed \cup {r}
      /\ agenda' = <<ImportsOf(r, graphs')>>
  BY ArriveFacts
<1>6. ImportsOf(r, graphs') \in SUBSET Onts
  <2>1. graphs' \in [Onts -> SUBSET Docs]
    BY DEF NInv, TypeOK
  <2>2. QED
    BY <2>1, DocumentsAssumption DEF ImportsOf
<1>7. Pending(agenda') = ImportsOf(r, graphs') /\ Pending(agenda) = {}
  BY <1>1, <1>6, PendingStart DEF Idle
<1>8. {d} \in SUBSET Docs
  BY <1>1
<1>9. /\ r \in Pending(agenda) \cup declared'
      /\ declared \subseteq declared' /\ declared' \subseteq declared \cup {r}
  BY <1>1
<1>10. /\ Pending(agenda) \subseteq Pending(agenda') \cup {r}
       /\ Pending(agenda') \subseteq Pending(agenda) \cup ImportsOf(r, graphs')
       /\ ImportsOf(r, graphs') \subseteq Pending(agenda')
  BY <1>7
<1>11. QED
  BY <1>1, <1>8, <1>9, <1>10, LoadedTracked

-----------------------------------------------------------------------------
(* The other steps *)

(* Removing an import leaves what the others reach, and no more.            *)
LEMMA RemovalLeaves ==
  ASSUME NEW owner, NInv(owner), Tracked, RemoveImport
  PROVE  /\ agenda = <<>> /\ agenda' = <<>>
         /\ declared' \subseteq declared /\ declared' # declared
         /\ refreshed' = Closure(declared', graphs)
         /\ graphs' = [p \in Onts |-> IF p \in refreshed' THEN graphs[p] ELSE {}]
         /\ status' = [p \in Onts |-> IF p \in refreshed' THEN status[p] ELSE "NULL"]
<1>1. PICK b \in declared :
        /\ agenda = <<>> /\ agenda' = <<>>
        /\ declared' = declared \ {b}
        /\ graphs' = [p \in Onts |-> IF p \in Unneeded(b) THEN {} ELSE graphs[p]]
        /\ status' = [p \in Onts |-> IF p \in Unneeded(b) THEN "NULL" ELSE status[p]]
        /\ refreshed' = refreshed \ Unneeded(b)
  BY DEF RemoveImport, Forget, Idle
<1>2. /\ graphs \in [Onts -> SUBSET Docs] /\ status \in [Onts -> Statuses]
      /\ declared \in SUBSET Onts /\ refreshed \in SUBSET Onts
  BY DEF NInv, TypeOK
<1> DEFINE C == Closure(declared', graphs)
<1>3. Pending(agenda) = {}
  BY <1>1, PendingStart
<1>4. refreshed = Closure(declared, graphs)
  <2>1. declared \subseteq refreshed /\ Closed(refreshed, graphs)
        /\ refreshed \subseteq Closure(declared, graphs)
    BY <1>3 DEF Tracked, Closed
  <2>2. Closure(declared, graphs) \subseteq refreshed
    BY <1>2, <2>1, ClosureFacts
  <2>3. QED
    BY <2>1, <2>2
<1>5. refreshed = Closure({b}, graphs) \cup C
  <2>1. declared = {b} \cup declared' /\ {b} \in SUBSET Onts /\ declared' \in SUBSET Onts
    BY <1>1, <1>2
  <2>2. QED
    BY <1>2, <1>4, <2>1, ClosureOfUnion
<1>6. Unneeded(b) = Closure({b}, graphs) \ C
  BY <1>1 DEF Unneeded
<1>7. refreshed' = C
  BY <1>1, <1>5, <1>6
<1>8. \A p \in Onts : p \notin refreshed => graphs[p] = {} /\ status[p] = "NULL"
  BY DEF Tracked
<1>9. \A p \in Onts : p \in Unneeded(b) <=> p \in refreshed /\ p \notin refreshed'
  BY <1>1, <1>5, <1>6, <1>7
<1>10. /\ graphs' = [p \in Onts |-> IF p \in refreshed' THEN graphs[p] ELSE {}]
       /\ status' = [p \in Onts |-> IF p \in refreshed' THEN status[p] ELSE "NULL"]
  <2>1. refreshed' \subseteq refreshed
    BY <1>1
  <2>2. \A p \in Onts :
          /\ (IF p \in Unneeded(b) THEN {} ELSE graphs[p])
               = (IF p \in refreshed' THEN graphs[p] ELSE {})
          /\ (IF p \in Unneeded(b) THEN "NULL" ELSE status[p])
               = (IF p \in refreshed' THEN status[p] ELSE "NULL")
    BY <1>8, <1>9, <2>1
  <2>3. QED
    BY <1>1, <2>2
<1>11. QED
  BY <1>1, <1>7, <1>10

LEMMA RemoveTracked ==
  ASSUME NEW owner, NInv(owner), NInv(owner)', Tracked, RemoveImport
  PROVE  Tracked'
<1> DEFINE C == Closure(declared', graphs)
<1>1. /\ agenda' = <<>> /\ refreshed' = C
      /\ graphs' = [p \in Onts |-> IF p \in refreshed' THEN graphs[p] ELSE {}]
      /\ status' = [p \in Onts |-> IF p \in refreshed' THEN status[p] ELSE "NULL"]
  BY RemovalLeaves
<1>2. /\ graphs \in [Onts -> SUBSET Docs] /\ graphs' \in [Onts -> SUBSET Docs]
      /\ declared' \in SUBSET Onts
      /\ \A g \in Onts : \A e \in graphs[g] : Real[e] = g
      /\ \A g \in Onts : \A e \in graphs'[g] : Real[e] = g
  BY DEF NInv, TypeOK, Well, FiledUnderOwnName
<1>3. Pending(agenda') = {}
  BY <1>1, PendingStart
<1>4. C \in SUBSET Onts /\ declared' \subseteq C /\ Closed(C, graphs)
  BY <1>2, ClosureFacts
<1>5. refreshed' \subseteq refreshed
  BY DEF RemoveImport, Forget
<1> HIDE DEF C
<1>6. \A p \in C : ImportsOf(p, graphs') = ImportsOf(p, graphs)
  BY <1>1, <1>2, <1>4, OwnImports
<1>7. C \subseteq Closure(declared', graphs')
  <2>1. ASSUME NEW T \in SUBSET Onts, declared' \subseteq T, Closed(T, graphs')
        PROVE  C \subseteq T
    <3>1. Closed(T \cap C, graphs)
      BY <1>4, <1>6, <2>1 DEF Closed
    <3>2. declared' \subseteq T \cap C /\ T \cap C \in SUBSET Onts
      BY <1>4, <2>1
    <3>3. Closure(declared', graphs) \subseteq T \cap C
      BY <1>2, <3>1, <3>2, ClosureFacts
    <3>4. QED
      BY <3>3 DEF C
  <2>2. QED
    BY <1>4, <2>1 DEF Closure
<1>8. refreshed' = {p \in Onts : status'[p] # "NULL"}
  BY <1>1, <1>4, <1>5 DEF Tracked
<1>9. \A p \in Onts : status'[p] \in {"NULL", "LOCAL", "WEB"}
  BY <1>1 DEF Tracked
<1>10. \A p \in Onts : graphs'[p] # {} => p \in refreshed'
  BY <1>1
<1>11. \A p \in refreshed' : ImportsOf(p, graphs') \subseteq refreshed'
  BY <1>1, <1>4, <1>6 DEF Closed
<1>12. QED
  BY <1>1, <1>3, <1>4, <1>7, <1>8, <1>9, <1>10, <1>11 DEF Tracked

LEMMA LoadRDFTracked ==
  ASSUME NEW owner, NInv(owner), NInv(owner)', Tracked, LoadRDF
  PROVE  Tracked'
<1>1. /\ agenda = <<>> /\ agenda' = <<declared'>>
      /\ declared \subseteq declared' /\ UNCHANGED <<graphs, status, refreshed>>
  BY DEF LoadRDF, Idle
<1>2. graphs \in [Onts -> SUBSET Docs] /\ declared \in SUBSET Onts /\ declared' \in SUBSET Onts
  BY DEF NInv, TypeOK
<1>3. Pending(agenda) = {} /\ Pending(agenda') = declared'
  BY <1>1, <1>2, PendingStart
<1>4. /\ Closure(declared, graphs) \subseteq Closure(declared', graphs)
      /\ declared' \subseteq Closure(declared', graphs)
  BY <1>1, <1>2, ClosureGrows, ClosureFacts
<1>5. QED
  BY <1>1, <1>3, <1>4 DEF Tracked

(* A mirror copy changes the status of an ontology that has one.            *)
LEMMA MirrorOntologyTracked ==
  ASSUME NEW owner, NInv(owner), Tracked, MirrorOntology
  PROVE  Tracked'
<1>1. PICK b \in Onts :
        /\ status[b] # "NULL"
        /\ status' = [status EXCEPT ![b] = "LOCAL"] \/ UNCHANGED status
        /\ UNCHANGED <<declared, graphs, refreshed, agenda>>
  BY DEF MirrorOntology
<1>2. /\ refreshed' = {p \in Onts : status'[p] # "NULL"}
      /\ \A p \in Onts : status'[p] \in {"NULL", "LOCAL", "WEB"}
  BY <1>1 DEF Tracked, NInv, TypeOK
<1>3. QED
  BY <1>1, <1>2 DEF Tracked

LEMMA FreshTracked ==
  ASSUME declared \in SUBSET Onts, graphs = NoGraphs, status = NoStatus, refreshed = {},
         agenda = <<declared>> \/ (agenda = <<>> /\ declared = {})
  PROVE  Tracked
<1>1. Pending(agenda) = declared
  BY PendingStart
<1>2. declared \subseteq Closure(declared, graphs)
  BY ClosureFacts DEF NoGraphs
<1>3. QED
  BY <1>1, <1>2 DEF Tracked, NoGraphs, NoStatus

LEMMA ReturnTracked ==
  ASSUME NEW owner, NInv(owner), Tracked, Return
  PROVE  Tracked'
<1>1. Pending(agenda') = Pending(agenda)
  BY PendingSplit DEF Return, NInv, TypeOK
<1>2. QED
  BY <1>1 DEF Return, Tracked

LEMMA AccountsStep ==
  ASSUME NEW owner, WellNamed(owner), Stores \subseteq {FALSE}, Faults[FALSE] \subseteq {"load"},
         NInv(owner), NInv(owner)', Accounts, [Next]_vars
  PROVE  Accounts'
<1>0. ~persistent /\ declared \in SUBSET Onts /\ saved \in SUBSET Onts
      /\ declared' \in SUBSET Onts
  BY DEF Accounts, NInv, TypeOK
<1>1. CASE NewProject
  <2>1. Tracked'
    <3>1. /\ declared' = {} /\ graphs' = NoGraphs /\ status' = NoStatus
          /\ refreshed' = {} /\ agenda' = <<>>
      BY <1>1 DEF NewProject, Accounts
    <3>2. QED
      BY <3>1, FreshTracked, PendingStart, EmptyClosure DEF Tracked, NoGraphs, NoStatus
  <2>2. QED
    BY <1>1, <2>1 DEF NewProject, Accounts
<1>2. CASE SaveProject
  BY <1>2 DEF SaveProject, Idle, Accounts, Tracked
<1>3. CASE CloseProject
  BY <1>0, <1>3 DEF CloseProject, Idle, Accounts
<1>4. CASE OpenProject
  <2>1. /\ graphs' = NoGraphs /\ status' = NoStatus /\ refreshed' = {}
        /\ agenda' = <<declared'>> /\ declared' = declared
        /\ mode' = "opening" /\ persistent' = persistent
    BY <1>4 DEF OpenProject, Accounts
  <2>2. Pending(agenda') = declared'
    BY <1>0, <2>1, PendingStart
  <2>3. declared' \subseteq Closure(declared', graphs')
    BY <1>0, <2>1, ClosureFacts DEF NoGraphs
  <2>4. Tracked'
    BY <2>1, <2>2, <2>3 DEF Tracked, NoGraphs, NoStatus
  <2>5. QED
    BY <2>1, <2>4 DEF Accounts
<1>5. CASE Opened
  BY <1>5 DEF Opened, Accounts, Tracked
<1>6. CASE Return
  <2>1. mode \in {"open", "opening"}
    BY <1>6 DEF Return, Accounts, NInv, TypeOK, Modes
  <2>2. Tracked'
    BY <1>6, <2>1, ReturnTracked DEF Accounts
  <2>3. QED
    BY <1>6, <2>1, <2>2 DEF Return, project, Accounts
<1>7. CASE Recover
  <2>1. mode \in {"open", "opening"}
    BY <1>7 DEF Recover, Accounts, NInv, TypeOK, Modes
  <2>2. Tracked'
    BY <1>7, <2>1, RecoverTracked DEF Accounts
  <2>3. mode' = mode /\ persistent' = persistent
    BY <1>7, RecoverWell DEF Recover
  <2>4. QED
    BY <2>1, <2>2, <2>3 DEF Accounts
<1>8. CASE ImportFromMirror \/ ImportFromWeb \/ ImportIntoMirror
  <2>1. \E b, r \in Onts, how \in {"LOCAL", "WEB"} : \E d :
          /\ Importable(b)
          /\ d \in Web[b] \/ (entry[b] # NoFile /\ d = file[entry[b]] /\ d # NoDoc)
          /\ Arrive(b, d, r, how)
    BY <1>8 DEF ImportFromMirror, ImportFromWeb, ImportIntoMirror
  <2>a. PICK b \in Onts, r \in Onts, how \in {"LOCAL", "WEB"} : \E d :
          /\ Importable(b)
          /\ d \in Web[b] \/ (entry[b] # NoFile /\ d = file[entry[b]] /\ d # NoDoc)
          /\ Arrive(b, d, r, how)
    BY <2>1
  <2>2. PICK d :
          /\ Importable(b)
          /\ d \in Web[b] \/ (entry[b] # NoFile /\ d = file[entry[b]] /\ d # NoDoc)
          /\ Arrive(b, d, r, how)
    BY <2>a
  <2>3. mode = "open" /\ Tracked /\ UNCHANGED <<mode, persistent>>
    BY <2>2 DEF Importable, Idle, Accounts, Arrive, project
  <2>4. Tracked'
    BY <2>2, <2>3, ArriveTracked DEF Importable
  <2>5. QED
    BY <2>3, <2>4 DEF Accounts
<1>9. CASE ImportIntoMirrorFails \/ ClearData
  <2>1. Faults[persistent] \subseteq {"load"}
    BY <1>0, DocumentsAssumption DEF Accounts, NInv, TypeOK
  <2>2. "mirror" \notin Faults[persistent] /\ "clear" \notin Faults[persistent]
    BY <2>1
  <2>3. QED
    BY <1>9, <2>2 DEF ImportIntoMirrorFails, MirrorBreaks, ClearData
<1>10. CASE ImportClashes
  <2>1. PICK b \in Onts :
          /\ Importable(b)
          /\ graphs' = [graphs EXCEPT ![b] = {}]
          /\ UNCHANGED <<declared, status, refreshed, agenda, mode, persistent>>
    BY <1>10 DEF ImportClashes, project
  <2>2. mode = "open" /\ Tracked
    BY <2>1 DEF Importable, Idle, Accounts
  <2>3. graphs[b] = {}
    BY <2>1, <2>2 DEF Importable, Tracked
  <2>4. graphs' = graphs
    BY <2>1, <2>3 DEF NInv, TypeOK
  <2>5. QED
    BY <2>1, <2>2, <2>4 DEF Accounts, Tracked
<1>11. CASE RemoveImport
  <2>1. mode = "open" /\ Tracked /\ UNCHANGED <<mode, persistent>>
    BY <1>11 DEF RemoveImport, Idle, Accounts, project
  <2>2. QED
    BY <1>11, <2>1, RemoveTracked DEF Accounts
<1>12. CASE MirrorOntology
  <2>1. mode = "open" /\ Tracked /\ UNCHANGED <<mode, persistent>>
    BY <1>12 DEF MirrorOntology, Idle, Accounts, project
  <2>2. QED
    BY <1>12, <2>1, MirrorOntologyTracked DEF Accounts
<1>13. CASE UpdateMirrorEntry \/ DeleteMirrorEntry \/ UNCHANGED vars
  <2>1. UNCHANGED <<mode, persistent, declared, graphs, status, refreshed, agenda>>
    BY <1>13 DEF UpdateMirrorEntry, DeleteMirrorEntry, vars, project
  <2>2. QED
    BY <2>1 DEF Accounts, Tracked
<1>14. CASE LoadRDF
  <2>1. mode = "open" /\ Tracked /\ UNCHANGED <<mode, persistent>>
    BY <1>14 DEF LoadRDF, Idle, Accounts, project
  <2>2. QED
    BY <1>14, <2>1, LoadRDFTracked DEF Accounts
<1>15. QED
  BY <1>1, <1>2, <1>3, <1>4, <1>5, <1>6, <1>7, <1>8, <1>9, <1>10, <1>11, <1>12,
     <1>13, <1>14 DEF Next

LEMMA TrackedIsAccounted ==
  ASSUME NEW owner, NInv(owner), Accounts
  PROVE  ImportsAccountedFor
<1> SUFFICES ASSUME Idle
             PROVE  LET tree == Closure(declared, graphs)
                    IN  /\ tree = {o \in Onts : status[o] # "NULL"}
                        /\ tree = refreshed
                        /\ \A o \in Onts \ tree : graphs[o] = {}
  BY DEF ImportsAccountedFor
<1>1. Tracked /\ Pending(agenda) = {}
  BY PendingStart DEF Idle, Accounts
<1>2. /\ graphs \in [Onts -> SUBSET Docs]
      /\ declared \in SUBSET Onts /\ refreshed \in SUBSET Onts
  BY DEF NInv, TypeOK
<1>3. declared \subseteq refreshed /\ Closed(refreshed, graphs)
      /\ refreshed \subseteq Closure(declared, graphs)
  BY <1>1 DEF Tracked, Closed
<1>4. Closure(declared, graphs) \subseteq refreshed
  BY <1>2, <1>3, ClosureFacts
<1>5. QED
  BY <1>1, <1>3, <1>4 DEF Tracked

(* In a project of type saveToStore, the ontologies that have a status are  *)
(* those of the import tree, and no other has data, whatever the ontologies *)
(* import, cycles included, and whatever locations fail to answer.          *)
THEOREM TreeIsAccountedFor ==
  ASSUME NEW owner, WellNamed(owner), Stores \subseteq {FALSE}, Faults[FALSE] \subseteq {"load"}
  PROVE  Spec => []ImportsAccountedFor
<1>1. Init => TInv(owner)
  BY InitWell DEF TInv, Init, Accounts
<1>2. TInv(owner) /\ [Next]_vars => TInv(owner)'
  BY NextWell, AccountsStep DEF TInv
<1>3. TInv(owner) => ImportsAccountedFor
  BY TrackedIsAccounted DEF TInv
<1>4. QED
  BY <1>1, <1>2, <1>3, PTL DEF Spec

-----------------------------------------------------------------------------
(***************************************************************************)
(* Removing an import takes back what it did.  What there was before the   *)
(* import is the tree of its import statements (Tracked, when no request   *)
(* is being handled); as long as the new statement is about an ontology    *)
(* outside of that tree, recovery leaves the tree alone, so that it is     *)
(* still what the old statements reach when the new one goes.              *)
(***************************************************************************)

WasTyped(was) ==
  was \in [declared : SUBSET Onts, graphs : [Onts -> SUBSET Docs],
           status : [Onts -> Statuses], refreshed : SUBSET Onts]

(* A state of the imports that is the tree of its import statements.        *)
WasTree(was) ==
  /\ WasTyped(was)
  /\ \A o \in Onts : \A d \in was.graphs[o] : Real[d] = o
  /\ was.refreshed = Closure(was.declared, was.graphs)
  /\ \A o \in Onts \ was.refreshed : was.graphs[o] = {} /\ was.status[o] = "NULL"

Outside(was) ==
  declared # was.declared /\ declared \cap was.refreshed = was.declared

(* The old tree is in place.                                                *)
InPlace(was) ==
  /\ was.refreshed \subseteq refreshed
  /\ \A o \in was.refreshed : graphs[o] = was.graphs[o] /\ status[o] = was.status[o]

HInv(owner) ==
  /\ TInv(owner)
  /\ \A was \in before :
       /\ mode = "open" /\ WasTree(was)
       /\ Outside(was) => InPlace(was)

LEMMA HistoryWatches ==
  ASSUME [HistoryNext]_historyVars
  PROVE  [Next]_vars
BY DEF HistoryNext, historyVars, ImportStep, FollowStep, OtherStep, Next

LEMMA ImportIsRecorded ==
  ASSUME NEW owner, WellNamed(owner), NInv(owner), Accounts, ImportStep,
         NEW was, was = Imports
  PROVE  /\ mode' = "open" /\ WasTree(was)
         /\ Outside(was)' => InPlace(was)'
<1>1. \E b, r \in Onts, how \in {"LOCAL", "WEB"} : \E d :
        /\ Importable(b)
        /\ d \in Web[b] \/ (entry[b] # NoFile /\ d = file[entry[b]] /\ d # NoDoc)
        /\ Arrive(b, d, r, how)
  BY DEF ImportStep, ImportFromMirror, ImportFromWeb, ImportIntoMirror
<1>a. PICK b \in Onts, r \in Onts, how \in {"LOCAL", "WEB"} : \E d :
        /\ Importable(b)
        /\ d \in Web[b] \/ (entry[b] # NoFile /\ d = file[entry[b]] /\ d # NoDoc)
        /\ Arrive(b, d, r, how)
  BY <1>1
<1>2. PICK d :
        /\ Importable(b)
        /\ d \in Web[b] \/ (entry[b] # NoFile /\ d = file[entry[b]] /\ d # NoDoc)
        /\ Arrive(b, d, r, how)
  BY <1>a
<1>3. mode = "open" /\ mode' = "open" /\ Idle /\ Tracked
  BY <1>2 DEF Importable, Idle, Accounts, Arrive, project
<1>4. /\ graphs' = [graphs EXCEPT ![r] = {d}]
      /\ status' = [status EXCEPT ![r] = how]
      /\ declared' = declared \cup {r}
      /\ refreshed' = refreshed \cup {r}
  BY <1>2, <1>3, ArriveFacts DEF Importable
<1>5. refreshed = Closure(declared, graphs)
  BY <1>3, TrackedIsAccounted DEF ImportsAccountedFor, Accounts
<1>6. /\ was.declared = declared /\ was.graphs = graphs
      /\ was.status = status /\ was.refreshed = refreshed
  BY DEF Imports
<1>7. WasTyped(was)
  BY DEF WasTyped, Imports, NInv, TypeOK
<1>8. /\ \A o \in Onts : \A e \in was.graphs[o] : Real[e] = o
      /\ \A o \in Onts \ was.refreshed : was.graphs[o] = {} /\ was.status[o] = "NULL"
  BY <1>3, <1>6 DEF Tracked, NInv, Well, FiledUnderOwnName
<1>9. WasTree(was)
  BY <1>5, <1>6, <1>7, <1>8 DEF WasTree
<1>10. ASSUME Outside(was)'
       PROVE  InPlace(was)'
  <2>1. r \notin refreshed
    BY <1>4, <1>6, <1>10 DEF Outside
  <2>2. /\ refreshed \subseteq Onts /\ graphs \in [Onts -> SUBSET Docs]
        /\ status \in [Onts -> Statuses]
    BY DEF NInv, TypeOK
  <2>3. \A o \in refreshed : graphs'[o] = graphs[o] /\ status'[o] = status[o]
    BY <1>4, <2>1, <2>2
  <2>4. QED
    BY <1>4, <1>6, <2>3 DEF InPlace
<1>11. QED
  BY <1>3, <1>9, <1>10

(* What follows an import leaves the old tree in place.                     *)
LEMMA FollowKeeps ==
  ASSUME NEW owner, WellNamed(owner), NInv(owner), Accounts, mode = "open", FollowStep,
         NEW was, Outside(was) => InPlace(was)
  PROVE  mode' = "open" /\ (Outside(was)' => InPlace(was)')
<1>1. Tracked
  BY DEF Accounts
<1>2. mode' = mode /\ declared' = declared
  BY RecoverWell DEF FollowStep, Return, Recover, SaveProject, UpdateMirrorEntry,
     DeleteMirrorEntry, project
<1>3. /\ refreshed \subseteq refreshed'
      /\ \A p \in refreshed : graphs'[p] = graphs[p] /\ status'[p] = status[p]
  <2>1. CASE Recover
    BY <1>1, <2>1, RecoverTracked
  <2>2. CASE ~Recover
    BY <2>2 DEF FollowStep, Return, SaveProject, UpdateMirrorEntry, DeleteMirrorEntry
  <2>3. QED
    BY <2>1, <2>2
<1>4. QED
  BY <1>2, <1>3 DEF Outside, InPlace

(* The statements there were before reach in the data of today what they    *)
(* reached before.                                                          *)
LEMMA OldTree ==
  ASSUME NEW owner, NInv(owner), NEW was, WasTree(was), InPlace(was)
  PROVE  Closure(was.declared, graphs) = was.refreshed
<1>1. /\ was.declared \in SUBSET Onts /\ was.refreshed \in SUBSET Onts
      /\ was.graphs \in [Onts -> SUBSET Docs] /\ graphs \in [Onts -> SUBSET Docs]
      /\ \A g \in Onts : \A e \in graphs[g] : Real[e] = g
      /\ \A g \in Onts : \A e \in was.graphs[g] : Real[e] = g
  BY DEF WasTree, WasTyped, NInv, TypeOK, Well, FiledUnderOwnName
<1>2. \A o \in was.refreshed : ImportsOf(o, graphs) = ImportsOf(o, was.graphs)
  BY <1>1, OwnImports DEF InPlace
<1>3. /\ was.declared \subseteq was.refreshed /\ Closed(was.refreshed, was.graphs)
      /\ \A T \in SUBSET Onts :
           was.declared \subseteq T /\ Closed(T, was.graphs) => was.refreshed \subseteq T
  BY <1>1, ClosureFacts DEF WasTree
<1>4. Closed(was.refreshed, graphs)
  BY <1>2, <1>3 DEF Closed
<1> DEFINE C == Closure(was.declared, graphs)
<1>5. C \subseteq was.refreshed
  BY <1>1, <1>3, <1>4, ClosureFacts
<1>6. was.declared \subseteq C /\ C \in SUBSET Onts /\ Closed(C, graphs)
  BY <1>1, ClosureFacts
<1> HIDE DEF C
<1>7. Closed(C, was.graphs)
  BY <1>2, <1>5, <1>6 DEF Closed
<1>8. was.refreshed \subseteq C
  BY <1>3, <1>6, <1>7
<1>9. QED
  BY <1>5, <1>8 DEF C

LEMMA RemovalIsBack ==
  ASSUME NEW owner, NInv(owner), Tracked, RemoveImport,
         NEW was, WasTree(was), Outside(was) => InPlace(was),
         declared' = was.declared,
         declared \cap Closure(was.declared, was.graphs) = was.declared
  PROVE  Imports' = was
<1>1. /\ declared' # declared
      /\ refreshed' = Closure(was.declared, graphs)
      /\ graphs' = [p \in Onts |-> IF p \in refreshed' THEN graphs[p] ELSE {}]
      /\ status' = [p \in Onts |-> IF p \in refreshed' THEN status[p] ELSE "NULL"]
  BY RemovalLeaves
<1>2. InPlace(was)
  BY <1>1 DEF Outside, WasTree
<1>3. refreshed' = was.refreshed
  BY <1>1, <1>2, OldTree
<1>4. was.graphs \in [Onts -> SUBSET Docs] /\ was.status \in [Onts -> Statuses]
  BY DEF WasTree, WasTyped
<1>5. \A p \in Onts :
        /\ was.graphs[p] = IF p \in refreshed' THEN graphs[p] ELSE {}
        /\ was.status[p] = IF p \in refreshed' THEN status[p] ELSE "NULL"
  BY <1>2, <1>3 DEF WasTree, InPlace
<1>6. graphs' = was.graphs
  BY <1>1, <1>4, <1>5
<1>7. status' = was.status
  BY <1>1, <1>4, <1>5
<1>8. was = [declared |-> was.declared, graphs |-> was.graphs, status |-> was.status,
             refreshed |-> was.refreshed]
  BY DEF WasTree, WasTyped
<1>9. QED
  BY <1>3, <1>6, <1>7, <1>8 DEF Imports

LEMMA HistoryStep ==
  ASSUME NEW owner, WellNamed(owner), Stores \subseteq {FALSE}, Faults[FALSE] \subseteq {"load"},
         HInv(owner), [HistoryNext]_historyVars
  PROVE  HInv(owner)'
<1>1. TInv(owner)'
  BY HistoryWatches, NextWell, AccountsStep DEF HInv, TInv
<1>2. NInv(owner) /\ Accounts /\ ~persistent
  BY DEF HInv, TInv, Accounts
<1>3. CASE ImportStep /\ before' = IF persistent THEN {} ELSE {Imports}
  <2>1. ASSUME NEW was \in before'
        PROVE  mode' = "open" /\ WasTree(was) /\ (Outside(was)' => InPlace(was)')
    BY <1>2, <1>3, <2>1, ImportIsRecorded
  <2>2. QED
    BY <1>1, <2>1 DEF HInv
<1>4. CASE FollowStep /\ UNCHANGED before
  <2>1. ASSUME NEW was \in before'
        PROVE  mode' = "open" /\ WasTree(was) /\ (Outside(was)' => InPlace(was)')
    <3>1. mode = "open" /\ WasTree(was) /\ (Outside(was) => InPlace(was))
      BY <1>4, <2>1 DEF HInv
    <3>2. QED
      BY <1>2, <1>4, <3>1, FollowKeeps
  <2>2. QED
    BY <1>1, <2>1 DEF HInv
<1>5. CASE before' = {}
  BY <1>1, <1>5 DEF HInv
<1>6. CASE UNCHANGED historyVars
  BY <1>1, <1>6 DEF HInv, historyVars, vars, Outside, InPlace
<1>7. QED
  BY <1>3, <1>4, <1>5, <1>6 DEF HistoryNext

(* In a project of type saveToStore, the removal of an import of a new      *)
(* ontology, whatever recovery it started and whatever that did not find,   *)
(* brings back the import statements, the graphs, the status map and the    *)
(* refresh list there were before (removeOntologyImport).                   *)
THEOREM RemovalIsUndone ==
  ASSUME NEW owner, WellNamed(owner), Stores \subseteq {FALSE}, Faults[FALSE] \subseteq {"load"}
  PROVE  HistorySpec => RemovalUndoesImport
<1>1. HistoryInit => HInv(owner)
  BY InitWell DEF HistoryInit, HInv, TInv, Init, Accounts
<1>2. HInv(owner) /\ [HistoryNext]_historyVars => HInv(owner)'
  BY HistoryStep
<1>3. HInv(owner) /\ [HistoryNext]_historyVars =>
        [\A was \in before :
           /\ declared' = was.declared /\ RemoveImport
           /\ declared \cap Closure(was.declared, was.graphs) = was.declared
           => Imports' = was]_historyVars
  <2> SUFFICES ASSUME HInv(owner), RemoveImport, NEW was \in before,
                      declared' = was.declared,
                      declared \cap Closure(was.declared, was.graphs) = was.declared
               PROVE  Imports' = was
    OBVIOUS
  <2>1. /\ NInv(owner) /\ Tracked
        /\ WasTree(was) /\ (Outside(was) => InPlace(was))
    BY DEF HInv, TInv, Accounts
  <2>2. QED
    BY <2>1, RemovalIsBack
<1>4. QED
  BY <1>1, <1>2, <1>3, PTL DEF HistorySpec, RemovalUndoesImport
==============================================================================
