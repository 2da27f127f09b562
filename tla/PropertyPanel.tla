--------------------------- MODULE PropertyPanel ---------------------------
(***************************************************************************)
(* The property tab of the sidebar: a XUL tree that is filled once, with   *)
(* all properties of the project, and patched by its own commands only.    *)
(* It registers for nothing but projectOpened, and for that only if there  *)
(* was no project when it was loaded: the class tab in the same sidebar    *)
(* has the sidebar closed when a project is closed, loaded or cleared.     *)
(*                                                                         *)
(* The rows are the treeitem elements in document order, the order of      *)
(* getElementsByTagName, which is a live list.  Searching never finds a    *)
(* row (it compares an attribute this tree does not have), changing the    *)
(* name is not implemented, and neither changes anything here.             *)
(***************************************************************************)
EXTENDS Integers, Sequences, FiniteSets, SequencesExt

CONSTANTS
  Property,  (* names of properties                                         *)
  Imported,  (* those of imported ontologies: deleteForbidden               *)
  Start,     (* what projects hold when they are opened                     *)
  NoModel,   (* no project                                                  *)
  MaxRows    (* bound on the rows of the tree                               *)

(* supers are the superproperties that statements give a property.  Every  *)
(* property has one type: it is listed once among those without            *)
(* superproperties, which the server lists type by type.                   *)
Model == [live : SUBSET Property, supers : [Property -> SUBSET Property]]

(* What the superproperties of p, theirs, and so on have in common with    *)
(* every set that is closed.                                               *)
UpwardClosed(m, S) == \A q \in S : m.supers[q] \subseteq S
Ancestors(m, p) ==
  {q \in Property : \A S \in SUBSET Property : m.supers[p] \subseteq S /\ UpwardClosed(m, S) => q \in S}

\* Superproperties are properties of the project, without cycles.
Sound(m) == \A p \in Property : /\ m.supers[p] \subseteq m.live
                                /\ m.supers[p] # {} => p \in m.live
                                /\ p \notin Ancestors(m, p)

ASSUME PropertyAssumption ==
  /\ IsFiniteSet(Property) /\ Start \subseteq Model /\ NoModel \notin Model
  /\ \A m \in Start : Sound(m) /\ Imported # {} /\ Imported \subseteq m.live

VARIABLES
  model,    (* the ontology of the project loaded by the server             *)
  current,  (* CurrentProject is not null                                   *)
  started,  (* ST_started                                                   *)
  panel,    (* the tab: not loaded, loaded and listening, or loaded         *)
  rows,     (* the items of propertiesTree                                  *)
  behind,   (* history: the hierarchy was changed elsewhere since the fill  *)
  lost      (* history: what was below a property removed since the fill, or*)
            (* has been created after the last row had gone                 *)

vars == <<model, current, started, panel, rows, behind, lost>>

Row == [prop : Property, depth : Nat, locked : BOOLEAN, container : BOOLEAN]

TypeOK ==
  /\ model \in Model \cup {NoModel}
  /\ current \in BOOLEAN /\ started \in BOOLEAN /\ behind \in BOOLEAN
  /\ panel \in {"unloaded", "listening", "loaded"}
  /\ rows \in Seq(Row)
  /\ lost \subseteq Property

(* What the store answers to listDirectSubProperties: a subproperty of a   *)
(* subproperty is not direct, even if a statement says so.                 *)
DirectSubs(m, p) ==
  {q \in m.live : p \in m.supers[q] /\ \A r \in m.supers[q] : p \notin Ancestors(m, r)}

Roots(m) == {p \in m.live : m.supers[p] = {}}

(***************************************************************************)
(* The tree.                                                               *)
(***************************************************************************)
LastBelow(t, i) ==
  CHOOSE j \in i..Len(t) : /\ \A k \in (i + 1)..j : t[k].depth > t[i].depth
                           /\ j < Len(t) => t[j + 1].depth <= t[i].depth

ParentOf(t, i) ==
  IF t[i].depth = 0 THEN 0
  ELSE CHOOSE j \in 1..(i - 1) : /\ t[j].depth = t[i].depth - 1
                                 /\ \A k \in (j + 1)..(i - 1) : t[k].depth >= t[i].depth

HasChildren(t, i) == LastBelow(t, i) > i

(* parsingProperties: the item of p and, below it, of all its subproperties*)
(* in the order the store lists them.                                      *)
Item(m, p, depth) == [prop |-> p, depth |-> depth, locked |-> p \in Imported,
                      container |-> DirectSubs(m, p) # {}]

\* No property has as many levels below it as there are properties.
ParsingProperties(m, p) ==
  LET N == Cardinality(Property)
      parsed[n \in 0..N] ==
        [q \in Property |->
           IF n = 0 THEN <<>>
           ELSE LET subs == SetToSeq(DirectSubs(m, q))
                IN <<Item(m, q, N - n)>>
                     \o FlattenSeq([k \in DOMAIN subs |-> parsed[n - 1][subs[k]]])]
  IN parsed[N][p]

PropertyTree(m) ==
  LET roots == SetToSeq(Roots(m))
  IN FlattenSeq([k \in DOMAIN roots |-> ParsingProperties(m, roots[k])])

(* checkAndRemoveProp: the item goes with all below it; a parent without   *)
(* children loses its treechildren, and is no container any longer.  The   *)
(* tree itself is such a parent: see Topless.                              *)
CheckAndRemoveProp(t, i) ==
  LET u == SubSeq(t, 1, i - 1) \o SubSeq(t, LastBelow(t, i) + 1, Len(t))
      p == ParentOf(t, i)
  IN IF p # 0 /\ ~HasChildren(u, p) THEN [u EXCEPT ![p].container = FALSE] ELSE u

(* removeProperty_RESPONSE: the loop over the live list does not look at   *)
(* the item that moves into the place of a removed one; that it finds all  *)
(* copies rests on the store listing direct subproperties only.            *)
\* One turn of that loop.
Looked(t, i, p) == IF i <= Len(t) /\ t[i].prop = p THEN CheckAndRemoveProp(t, i) ELSE t

RemovedProperty(t, p) ==
  LET looked[i \in 0..Len(t)] == IF i = 0 THEN t ELSE Looked(looked[i - 1], i, p)
  IN looked[Len(t)]

NewRow(p, depth) == [prop |-> p, depth |-> depth, locked |-> FALSE, container |-> FALSE]

(* addProperty_RESPONSE: a subproperty is put below the first item that    *)
(* has the name of its superproperty, and only there.                      *)
FirstOf(t, s) == CHOOSE i \in DOMAIN t : t[i].prop = s /\ \A j \in 1..(i - 1) : t[j].prop # s

AddedSubProperty(t, p, s) ==
  LET i == FirstOf(t, s)
      u == [t EXCEPT ![i].container = TRUE]
  IN SubSeq(u, 1, LastBelow(t, i)) \o <<NewRow(p, t[i].depth + 1)>>
       \o SubSeq(u, LastBelow(t, i) + 1, Len(t))

-----------------------------------------------------------------------------
(***************************************************************************)
(* The sidebar and the project.                                            *)
(***************************************************************************)
Init ==
  /\ model \in Start \cup {NoModel}
  /\ current = FALSE /\ started = FALSE
  /\ panel = "unloaded" /\ rows = <<>>
  /\ behind = FALSE /\ lost = {}

(* getPropertiesTree_RESPONSE appends; it never empties the tree.          *)
PopulatePropertyTree(m) ==
  /\ rows' = rows \o PropertyTree(m)
  /\ behind' = FALSE /\ lost' = {}

(* The commands of the menu are disabled without a project; before the     *)
(* extension is started, Firefox may have brought the sidebar back.        *)
OnLoad ==
  /\ panel = "unloaded" /\ (current \/ ~started)
  /\ IF current
     THEN panel' = "loaded" /\ PopulatePropertyTree(model)
     ELSE panel' = "listening" /\ UNCHANGED <<rows, behind, lost>>
  /\ UNCHANGED <<model, current, started>>

Unloaded == panel' = "unloaded" /\ rows' = <<>> /\ behind' = FALSE /\ lost' = {}

OnUnload ==
  /\ panel # "unloaded"
  /\ Unloaded
  /\ UNCHANGED <<model, current, started>>

(* A project the server has loaded already is announced without closing    *)
(* anything.                                                               *)
StartST ==
  /\ ~started /\ started' = TRUE
  /\ current' = (model # NoModel)
  /\ IF panel = "listening" /\ model # NoModel THEN PopulatePropertyTree(model)
                                               ELSE UNCHANGED <<rows, behind, lost>>
  /\ UNCHANGED <<model, panel>>

(* Definitions named Mut... are plausible mistakes.  No action uses them:  *)
(* each stands in for the definition that follows it when a run is         *)
(* repeated to see that its property can fail.                             *)
MutCloseSidebar == UNCHANGED <<panel, rows, behind, lost>>

(* The listener of the class tab: toggleSidebar.                           *)
CloseSidebar == Unloaded

(* Every command that opens a project closes the current one first, and    *)
(* the event is fired even when there is none.                             *)
OpenProject ==
  /\ started
  /\ CloseSidebar
  /\ \E m \in Start \cup {NoModel} : model' = m /\ current' = (m # NoModel)
  /\ UNCHANGED started

(* rdfLoaded and clearedData.                                              *)
ReplaceData ==
  /\ current /\ CloseSidebar
  /\ \E m \in Start : model' = m
  /\ UNCHANGED <<current, started>>

-----------------------------------------------------------------------------
(***************************************************************************)
(* The commands.  The row selected says which property is meant; an        *)
(* exception of the server leaves everything as it is.                     *)
(***************************************************************************)
Usable == panel # "unloaded" /\ current

(* The dialog of a new property, whose kind is that of the row selected or *)
(* of the button; the server refuses a name in use.                        *)
Accepted(p, supers) ==
  /\ Usable /\ Len(rows) < MaxRows
  /\ p \notin model.live
  /\ model' = [model EXCEPT !.live = @ \cup {p}, !.supers[p] = supers]

(* rootPropertyTreeChildren has gone with the last of the rows the tree was*)
(* filled with, and nothing but a new sidebar brings it back.              *)
Topless == rows = <<>>

(* The server has created the property when addProperty_RESPONSE finds no  *)
(* element to append the new item to, and ends in an exception.            *)
CreateProperty(p) ==
  /\ Accepted(p, {})
  /\ IF Topless THEN UNCHANGED rows /\ lost' = lost \cup {p}
                ELSE rows' = Append(rows, NewRow(p, 0)) /\ UNCHANGED lost
  /\ UNCHANGED <<current, started, panel, behind>>

CreateSubProperty(i, p) ==
  /\ Accepted(p, {rows[i].prop})
  /\ rows' = AddedSubProperty(rows, p, rows[i].prop)
  /\ UNCHANGED <<current, started, panel, behind, lost>>

(* The server refuses a property that occurs as a predicate, but neither   *)
(* it nor the tab looks at its subproperties.                              *)
Without(m, p) ==
  [m EXCEPT !.live = @ \ {p},
            !.supers = [q \in Property |-> IF q = p THEN {} ELSE m.supers[q] \ {p}]]

RemoveProperty(i) ==
  LET p == rows[i].prop IN
  /\ Usable /\ ~rows[i].locked
  /\ p \in model.live
  /\ model' = Without(model, p)
  /\ rows' = RemovedProperty(rows, p)
  /\ lost' = lost \cup {q \in model.live : p \in Ancestors(model, q)}
  /\ UNCHANGED <<current, started, panel, behind>>

(* The editor of a property adds or removes a superproperty; the tab hears *)
(* nothing of it.  No cycles are made, and one change is enough (a bound). *)
EditSuperProperty(i, s) ==
  LET p == rows[i].prop IN
  /\ Usable /\ ~behind /\ {p, s} \subseteq model.live /\ p # s
  /\ \/ /\ s \notin model.supers[p] /\ p \notin Ancestors(model, s)
        /\ model' = [model EXCEPT !.supers[p] = @ \cup {s}]
     \/ /\ s \in model.supers[p]
        /\ model' = [model EXCEPT !.supers[p] = @ \ {s}]
  /\ behind' = TRUE
  /\ UNCHANGED <<current, started, panel, rows, lost>>

Commands ==
  \/ OnLoad \/ OnUnload \/ ReplaceData
  \/ \E p \in Property : CreateProperty(p)
  \/ \E i \in DOMAIN rows :
       \/ RemoveProperty(i)
       \/ \E p \in Property : CreateSubProperty(i, p) \/ EditSuperProperty(i, p)

Next == StartST \/ OpenProject \/ Commands

Spec == Init /\ [][Next]_vars

-----------------------------------------------------------------------------
(***************************************************************************)
(* Properties.                                                             *)
(***************************************************************************)
Below(i) == {k \in (i + 1)..LastBelow(rows, i) : rows[k].depth = rows[i].depth + 1}

(* A row names a property of the project, and stands right below one of    *)
(* its direct superproperties, or at the top if it has none.               *)
RowsAreRight ==
  \A i \in DOMAIN rows :
    LET p == ParentOf(rows, i) IN
    /\ rows[i].prop \in model.live
    /\ IF p = 0 THEN rows[i].prop \in Roots(model)
                ELSE rows[i].prop \in DirectSubs(model, rows[p].prop)

Shown == {rows[i].prop : i \in DOMAIN rows}

(* A row has a twisty exactly when something is below it, and nothing is   *)
(* below it twice.                                                         *)
ContainersTell ==
  \A i \in DOMAIN rows :
    /\ rows[i].container <=> HasChildren(rows, i)
    /\ Cardinality({rows[k].prop : k \in Below(i)}) = Cardinality(Below(i))

(* The tree is filled once and only patched, by a loop that skips rows and *)
(* a command that looks at the first copy alone; and it is never emptied.  *)
(* Still its twisties are right whatever was created, removed and changed  *)
(* elsewhere; and it shows the properties of the loaded project and no     *)
(* other, each in a place where it belongs, as long as superproperties are *)
(* not changed in the editor.  Only what was below a removed property, or  *)
(* was created when no row was left, may be missing (property.js,          *)
(* propertyEvents.js).                                                     *)
TreeIsTheHierarchy ==
  /\ TypeOK /\ ContainersTell
  /\ panel # "unloaded" /\ current /\ ~behind => RowsAreRight /\ model.live \ lost \subseteq Shown
=============================================================================
