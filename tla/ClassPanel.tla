----------------------------- MODULE ClassPanel -----------------------------
(***************************************************************************)
(* The class sidebar of the Firefox extension: a XUL tree of classes, which *)
(* is filled level by level from the server, and the list of the instances *)
(* of the class last clicked.  Every request is synchronous, so that a     *)
(* gesture, the requests it makes, the event it fires and the listeners of *)
(* the sidebar are one step.  What the sidebar shows is not asked again    *)
(* from the server when something changes: the listeners patch the tree.   *)
(*                                                                         *)
(* The tree is the sequence of its treeitem elements in document order,    *)
(* which is what getElementsByTagName("treeitem") lists; the list is live, *)
(* so that removing an item in the middle of a loop shifts the rest.       *)
(***************************************************************************)
EXTENDS Integers, Sequences, FiniteSets, SequencesExt

CONSTANTS
  Class,       (* the names a class can have, owl:Thing among them          *)
  Thing,       (* owl:Thing                                                 *)
  ImportedClass, (* the classes of imported ontologies: deleteForbidden     *)
  Given,       (* the initial subclass statements: superclasses of a class  *)
  Individual,  (* the names an individual can have                          *)
  Gestures,    (* what the user does beside opening, closing and clicking   *)
  Mixed,       (* bound: how many kinds of gestures but the plain ones mix  *)
  MaxItems,    (* bound: the items a search or a new class leaves in a tree *)
  NoClass

Kinds == {"create", "remove", "rename", "populate", "hierarchy", "types", "search"}

ASSUME ClassAssumption ==
  /\ IsFiniteSet(Class) /\ IsFiniteSet(Individual) /\ Thing \in ImportedClass /\ ImportedClass \subseteq Class
  /\ Given \in [ImportedClass -> SUBSET ImportedClass] /\ Given[Thing] = {}
  /\ Gestures \subseteq Kinds
  /\ Mixed \in Nat /\ MaxItems \in Nat /\ NoClass \notin Class

VARIABLES
  ont,    (* the ontology in the server                                     *)
  tree,   (* the items of classesTree                                       *)
  list,   (* IndividualsList: the class of its header and its items         *)
  done    (* history: the kinds of gestures made so far                     *)

classVars == <<ont, tree, list, done>>

(* kids: the item has a treechildren element, and is a container; open and *)
(* picked (the current row) are the state of the widget; count is numInst, *)
(* locked is deleteForbidden.                                              *)
TreeItem == [cls : Class, depth : Nat, kids : BOOLEAN, open : BOOLEAN,
         count : Int, locked : BOOLEAN, picked : BOOLEAN]

ClassTypeOK ==
  /\ ont \in [live : SUBSET Class, supers : [Class -> SUBSET Class],
              types : [Individual -> SUBSET Class]]
  /\ tree \in Seq(TreeItem)
  /\ list \in [cls : Class \cup {NoClass}, insts : SUBSET Individual]
  /\ done \subseteq Gestures

(***************************************************************************)
(* What the server answers.  Its store reasons on the direct superclasses  *)
(* and the direct types: a statement implied by two others is not direct.  *)
(***************************************************************************)
ClosedUpward(o, S) == \A d \in S : o.supers[d] \subseteq S

\* What the superclasses of c, theirs, and so on have in common with every
\* set that is closed.
SuperClasses(o, c) ==
  {d \in Class : \A S \in SUBSET Class : o.supers[c] \subseteq S /\ ClosedUpward(o, S) => d \in S}

Lowest(o, S) == {c \in S : \A d \in S : c \notin SuperClasses(o, d)}

(* A class without a superclass is shown below owl:Thing.                  *)
DirectSupers(o, c) ==
  IF c = Thing THEN {} ELSE IF o.supers[c] = {} THEN {Thing} ELSE Lowest(o, o.supers[c])

DirectSubClasses(o, c) == {d \in o.live : c \in DirectSupers(o, d)}

Instances(o, c) == {i \in Individual : c \in Lowest(o, o.types[i])}

NumInst(o, c) == Cardinality(Instances(o, c))

(***************************************************************************)
(* The tree as a sequence.                                                 *)
(***************************************************************************)
LastUnder(t, i) ==
  CHOOSE j \in i..Len(t) : /\ \A k \in (i + 1)..j : t[k].depth > t[i].depth
                           /\ j < Len(t) => t[j + 1].depth <= t[i].depth

ItemAbove(t, i) ==
  IF t[i].depth = 0 THEN 0
  ELSE CHOOSE j \in 1..(i - 1) : /\ t[j].depth = t[i].depth - 1
                                 /\ \A k \in (j + 1)..(i - 1) : t[k].depth >= t[i].depth

Children(t, i) == {j \in (i + 1)..LastUnder(t, i) : t[j].depth = t[i].depth + 1}

(* An item is on screen when the items above it are open.                  *)
Visible(t, i) == \A j \in 1..(i - 1) : LastUnder(t, j) >= i => t[j].open

Picked(t) == {i \in DOMAIN t : t[i].picked}

(* Without the items below i.                                              *)
Emptied(t, i) == SubSeq(t, 1, i) \o SubSeq(t, LastUnder(t, i) + 1, Len(t))

(* With items appended to the treechildren of i.                           *)
Appended(t, i, items) ==
  SubSeq(t, 1, LastUnder(t, i)) \o items \o SubSeq(t, LastUnder(t, i) + 1, Len(t))

Pick(t, i) == [k \in DOMAIN t |-> [t[k] EXCEPT !.picked = (k = i)]]

(***************************************************************************)
(* Filling the tree and the list.                                          *)
(***************************************************************************)
NewItem(o, c, depth) ==
  [cls |-> c, depth |-> depth, kids |-> DirectSubClasses(o, c) # {}, open |-> FALSE,
   count |-> NumInst(o, c), locked |-> c \in ImportedClass, picked |-> FALSE]

SubClassItems(o, p, depth) == SetToSeq({NewItem(o, c, depth) : c \in DirectSubClasses(o, p)})

SubClassesTree(o, t, i) == Appended(t, i, SubClassItems(o, t[i].cls, t[i].depth + 1))

(* Definitions named Mut... are plausible mistakes.  No action uses them:  *)
(* each stands in for the definition that follows it when a run is         *)
(* repeated to see that its property can fail.                             *)
MutLoadSubTree(o, t, i) == SubClassesTree(o, t, i)

(* The first child of a loaded level is the one the store lists first: the *)
(* loop of parsingSubClass keeps the order of the answer.                  *)
LoadSubTree(o, t, i) == SubClassesTree(o, Emptied(t, i), i)

(* getClassAndInstancesInfo sends its request twice and reads the second   *)
(* answer, which does not say whether the class has subclasses: "more" is  *)
(* null, and only the number of instances of the items is brought up to    *)
(* date.  The server answers with an exception for a class it does not have.*)
InstancesShown(o, t, c) ==
  [k \in DOMAIN t |-> IF t[k].cls = c /\ c \in o.live
                      THEN [t[k] EXCEPT !.count = NumInst(o, c)] ELSE t[k]]

ListOf(o, c) ==
  IF c \in o.live THEN [cls |-> c, insts |-> Instances(o, c)] ELSE list

(* loadInstanceList, for the current row of the tree t.                    *)
LoadInstanceList(o, t) ==
  IF Picked(t) = {} THEN tree' = t /\ list' = list
  ELSE LET c == t[CHOOSE i \in Picked(t) : TRUE].cls
       IN tree' = InstancesShown(o, t, c) /\ list' = ListOf(o, c)

MutCheckAndRemove(t, i) ==
  LET p == ItemAbove(t, i)
      u == SubSeq(t, 1, i - 1) \o SubSeq(t, LastUnder(t, i) + 1, Len(t))
  IN IF p # 0 THEN [u EXCEPT ![p].kids = FALSE] ELSE u

(***************************************************************************)
(* The listeners of the sidebar (classEventsFired.js).                     *)
(***************************************************************************)
(* The item goes with everything below it; a parent left without children  *)
(* loses its treechildren element and is no longer a container.            *)
CheckAndRemove(t, i) ==
  LET p == ItemAbove(t, i)
      u == SubSeq(t, 1, i - 1) \o SubSeq(t, LastUnder(t, i) + 1, Len(t))
  IN IF p # 0 /\ Children(u, p) = {}
     THEN [u EXCEPT ![p].kids = FALSE, ![p].open = FALSE] ELSE u

(* removedClass.  The loop goes on with the next index of the live list:   *)
(* the item that moves into the place of a removed one is not looked at.   *)
RemovingTurn(t, i, c) == IF i <= Len(t) /\ t[i].cls = c THEN CheckAndRemove(t, i) ELSE t

RemovedClass(t, c) ==
  LET turn[n \in 0..Len(t)] == IF n = 0 THEN t ELSE RemovingTurn(turn[n - 1], n, c)
  IN turn[Len(t)]

(* The other loops add items, below items they were given: no more to each *)
(* than there are classes.  A turn after the end of the list does nothing. *)
Turns(t) == Len(t) * (Cardinality(Class) + 1)

(* createdSubClass: a new item for the class under every item of its       *)
(* superclass; an item that was a leaf becomes an open container.          *)
CreatingTurn(t, i, c, s) ==
  IF i <= Len(t) /\ t[i].cls = s
  THEN Appended([t EXCEPT ![i].kids = TRUE, ![i].open = @ \/ ~t[i].kids], i,
         <<[cls |-> c, depth |-> t[i].depth + 1, kids |-> FALSE, open |-> FALSE,
            count |-> 0, locked |-> FALSE, picked |-> FALSE]>>)
  ELSE t

CreatedSubClass(t, c, s) ==
  LET turn[n \in 0..Turns(t)] == IF n = 0 THEN t ELSE CreatingTurn(turn[n - 1], n, c, s)
  IN turn[Turns(t)]

(* A place for c under an item of one of its superclasses.  The answer the *)
(* item is made from says neither "more" nor explicit = true: the item is  *)
(* always a container, and always forbidden to delete.                     *)
Adopt(o, t, i, c) ==
  IF ~t[i].kids THEN [t EXCEPT ![i].kids = TRUE, ![i].open = FALSE]
  ELSE IF \E k \in Children(t, i) : t[k].cls = c THEN t
  ELSE Appended(t, i, <<[cls |-> c, depth |-> t[i].depth + 1, kids |-> TRUE,
                         open |-> FALSE, count |-> NumInst(o, c), locked |-> TRUE,
                         picked |-> FALSE]>>)

(* subClsOfAddedClass and subClsOfRemovedClass: checkAndRefreshTree asks   *)
(* the server for the superclasses of c, and goes through the live list.   *)
RefreshingTurn(o, t, i, c) ==
  LET above == DirectSupers(o, c)
      misplaced == t[i].cls = c /\ (ItemAbove(t, i) = 0 \/ t[ItemAbove(t, i)].cls \notin above)
  IN IF i > Len(t) THEN t
     ELSE IF t[i].cls \in above THEN Adopt(o, t, i, c)
     ELSE IF misplaced THEN CheckAndRemove(t, i) ELSE t

RefreshTree(o, t, c) ==
  LET turn[n \in 0..Turns(t)] == IF n = 0 THEN t ELSE RefreshingTurn(o, turn[n - 1], n, c)
  IN turn[Turns(t)]

(***************************************************************************)
(* Opening, closing and looking.                                           *)
(***************************************************************************)
GivenOnt == [live |-> ImportedClass,
             supers |-> [c \in Class |-> IF c \in ImportedClass THEN Given[c] ELSE {}],
             types |-> [i \in Individual |-> {}]]

\* What the store makes of a cycle is not in the repository.
ASSUME HierarchyAssumption == \A c \in Class : c \notin SuperClasses(GivenOnt, c)

ClassInit ==
  /\ ont = GivenOnt
  /\ tree = <<>>
  /\ list = [cls |-> NoClass, insts |-> {}]
  /\ done = {}

SidebarShown == tree # <<>>

PlainGestures == {"create", "remove", "populate"}

May(kind) ==
  /\ SidebarShown /\ kind \in Gestures
  /\ done' = done \cup {kind}
  /\ Cardinality(done' \ PlainGestures) <= Mixed

(* The sidebar is loaded: owl:Thing is the only root, it is opened, its    *)
(* row is made the current one and its instances are listed.               *)
Show ==
  LET root == <<[NewItem(ont, Thing, 0) EXCEPT !.picked = TRUE]>>
      t == SubClassesTree(ont, root, 1)
  IN /\ ~SidebarShown
     /\ tree' = [t EXCEPT ![1].open = t[1].kids]
     /\ list' = ListOf(ont, Thing)
     /\ UNCHANGED <<ont, done>>

(* The user closes the sidebar, or projectClosed, visLevelChanged,         *)
(* rdfLoaded or clearedData calls toggleSidebar.                           *)
Hide ==
  /\ SidebarShown
  /\ tree' = <<>> /\ list' = [cls |-> NoClass, insts |-> {}]
  /\ UNCHANGED <<ont, done>>

(* A click outside the twisty makes the row current and lists its class.   *)
ClassesTreeClick(i) ==
  /\ Visible(tree, i)
  /\ LoadInstanceList(ont, Pick(tree, i))
  /\ UNCHANGED <<ont, done>>

(* A click on the twisty, or Return, Right or Left on the current row:     *)
(* opening loads the level again, closing empties it; then the list of the *)
(* current row is loaded.  Loading the subclasses of a class the server    *)
(* does not have ends in an exception, with the level emptied.             *)
OpenSubClassesList(i) ==
  LET shut == [Emptied(tree, i) EXCEPT ![i].open = FALSE]
      opened == [LoadSubTree(ont, tree, i) EXCEPT ![i].open = TRUE]
  IN /\ Visible(tree, i) /\ tree[i].kids
     /\ \/ /\ tree[i].open
           /\ LoadInstanceList(ont, shut)
        \/ /\ ~tree[i].open /\ tree[i].cls \in ont.live
           /\ LoadInstanceList(ont, opened)
        \/ /\ ~tree[i].open /\ tree[i].cls \notin ont.live
           /\ tree' = [shut EXCEPT ![i].open = TRUE]
           /\ UNCHANGED list
     /\ UNCHANGED <<ont, done>>

(***************************************************************************)
(* Searching (ontologySearch.js): a class the server found, or the first   *)
(* type of an individual, is looked up in the tree.                        *)
(***************************************************************************)
InTree(t, c) == \E i \in DOMAIN t : t[i].cls = c

(* The nearest superclasses in the tree, climbing by the superclass the    *)
(* server happens to name first.                                           *)
Nearest(o, t, c) ==
  LET climbed[n \in 0..Cardinality(Class)] ==
        [d \in Class |->
           UNION {IF InTree(t, s) THEN {s} ELSE IF n = 0 THEN {} ELSE climbed[n - 1][s] :
                    s \in DirectSupers(o, d)}]
  IN climbed[Cardinality(Class)][c]

(* Every item of p is opened and the subclasses of p are appended to it,   *)
(* whether or not it shows some already.  For an item without treechildren *)
(* getSubClassesTree_RESPONSE takes those of the tree: the subclasses      *)
(* become further roots.                                                   *)
UnfoldingTurn(o, t, i, p) ==
  IF i > Len(t) THEN t
  ELSE IF t[i].cls # p THEN t
  ELSE LET v == [t EXCEPT ![i].open = TRUE]
       IN IF t[i].kids THEN SubClassesTree(o, v, i) ELSE v \o SubClassItems(o, p, 0)

Unfolded(o, t, p) ==
  LET turn[n \in 0..Turns(t)] == IF n = 0 THEN t ELSE UnfoldingTurn(o, turn[n - 1], n, p)
  IN turn[Turns(t)]

(* Each round brings a class into the tree, until c is there.              *)
LocatingRound(o, U, c) ==
  UNION {IF InTree(t, c) THEN {t} ELSE {Unfolded(o, t, p) : p \in Nearest(o, t, c)} : t \in U}

Located(o, t, c) ==
  LET round[n \in 0..Cardinality(Class)] ==
        IF n = 0 THEN {t} ELSE LocatingRound(o, round[n - 1], c)
  IN round[Cardinality(Class)]

FirstItemOf(t, c) == CHOOSE i \in DOMAIN t : t[i].cls = c /\ \A j \in 1..(i - 1) : t[j].cls # c

(* The first item of c is shown, by opening every item above it.           *)
Revealed(t, i) ==
  [j \in DOMAIN t |-> IF j < i /\ LastUnder(t, j) >= i THEN [t[j] EXCEPT !.open = TRUE] ELSE t[j]]

(* The row that becomes the current one: that of item i, if there are items*)
(* above it; but a root is looked for in the row that has its position     *)
(* among all items, those on screen or not.                                *)
FocusedRow(t, i) ==
  LET row(k) == Cardinality({j \in 1..k : Visible(t, j)})
      there == {k \in DOMAIN t : Visible(t, k) /\ row(k) = i}
  IN IF t[i].depth > 0 THEN i
     ELSE IF there = {} THEN 0 ELSE CHOOSE k \in there : TRUE

Focused(t, i) == Pick(Revealed(t, i), FocusedRow(t, i))

(* What a search may find: a class, or an individual by its first type.    *)
Found == ont.live \cup UNION {Lowest(ont, ont.types[x]) : x \in Individual}

(* The list that is loaded is that of the class looked for, whatever row   *)
(* is the current one.                                                     *)
SearchFocus(c) ==
  /\ May("search")
  /\ c \in Found
  /\ \E t \in Located(ont, tree, c) :
       tree' = InstancesShown(ont, Focused(t, FirstItemOf(t, c)), c)
  /\ list' = ListOf(ont, c)
  /\ Len(tree') <= MaxItems
  /\ UNCHANGED ont

(***************************************************************************)
(* Editing.  The current row says which class is meant.                    *)
(***************************************************************************)
(* createRootClass, createSubClass and createSiblingClass: the new class   *)
(* goes below owl:Thing, the current row, or the parent of the current row.*)
SuperOfNew ==
  {Thing} \cup {tree[i].cls : i \in Picked(tree)}
          \cup {tree[ItemAbove(tree, i)].cls : i \in {j \in Picked(tree) : ItemAbove(tree, j) # 0}}

(* The server refuses a name that exists and a superclass that does not.   *)
CreateClass(c, s) ==
  /\ May("create")
  /\ s \in SuperOfNew \cap ont.live /\ c \notin ont.live
  /\ ont' = [ont EXCEPT !.live = @ \cup {c}, !.supers[c] = {s}]
  /\ tree' = CreatedSubClass(tree, c, s) /\ Len(tree') <= MaxItems
  /\ UNCHANGED list

MutRemovable(item) == ~item.locked /\ ~item.kids

(* What the sidebar looks at before it asks for a deletion.                *)
Removable(item) == ~item.locked /\ item.count = 0 /\ ~item.kids

Deleted(o, c) ==
  [live |-> o.live \ {c},
   supers |-> [d \in Class |-> IF d = c THEN {} ELSE o.supers[d] \ {c}],
   types |-> [i \in Individual |-> o.types[i] \ {c}]]

(* The server deletes every triple the class is in.                        *)
RemoveClass(i) ==
  /\ May("remove")
  /\ i \in Picked(tree) /\ Removable(tree[i]) /\ tree[i].cls \in ont.live
  /\ ont' = Deleted(ont, tree[i].cls)
  /\ tree' = RemovedClass(tree, tree[i].cls)
  /\ UNCHANGED list

(* The event carries the names of the dialog and of the answer, which are  *)
(* qualified names; the items carry URIs, so that checkAndRename finds no  *)
(* item to rename.                                                         *)
RenameClass(i, n) ==
  LET c == tree[i].cls
      renamed(S) == IF c \in S THEN (S \ {c}) \cup {n} ELSE S
  IN /\ May("rename")
     /\ i \in Picked(tree) /\ ~tree[i].locked
     /\ c \in ont.live /\ n \notin ont.live
     /\ ont' = [live |-> renamed(ont.live),
                supers |-> [d \in Class |-> IF d = n THEN renamed(ont.supers[c])
                                            ELSE IF d = c THEN {} ELSE renamed(ont.supers[d])],
                types |-> [x \in Individual |-> renamed(ont.types[x])]]
     /\ UNCHANGED <<tree, list>>

(* createIndividual: classesTreeClick("") then loads the list of the row.  *)
CreateIndividual(i, x) ==
  /\ May("populate")
  /\ i \in Picked(tree) /\ tree[i].cls \in ont.live /\ ont.types[x] = {}
  /\ ont' = [ont EXCEPT !.types[x] = {tree[i].cls}]
  /\ LoadInstanceList(ont', tree)

(* A text selection dropped on a row: annotation.commons creates the       *)
(* instance and classDragDrop_RESPONSE makes the row the current one.      *)
ClassDragDrop(i, x) ==
  /\ May("populate")
  /\ Visible(tree, i) /\ tree[i].cls \in ont.live /\ ont.types[x] = {}
  /\ ont' = [ont EXCEPT !.types[x] = {tree[i].cls}]
  /\ LoadInstanceList(ont', Pick(InstancesShown(ont', tree, tree[i].cls), i))

MutRemoveIndividual(x) ==
  /\ May("populate")
  /\ x \in list.insts /\ ont.types[x] # {}
  /\ ont' = [ont EXCEPT !.types[x] = {}]
  /\ list' = [list EXCEPT !.insts = @ \ {x}]
  /\ UNCHANGED tree

(* The count of the class of the list goes down by one, wherever it shows. *)
RemoveIndividual(x) ==
  /\ May("populate")
  /\ x \in list.insts /\ ont.types[x] # {}
  /\ ont' = [ont EXCEPT !.types[x] = {}]
  /\ list' = [list EXCEPT !.insts = @ \ {x}]
  /\ tree' = [k \in DOMAIN tree |->
                IF tree[k].cls = list.cls THEN [tree[k] EXCEPT !.count = @ - 1] ELSE tree[k]]

(* The items of the list carry the qualified name, so that, unlike that of *)
(* a class, the renaming of an individual reaches the sidebar.             *)
RenameIndividual(x, y) ==
  /\ May("rename")
  /\ x \in list.insts /\ ont.types[x] # {} /\ ont.types[y] = {}
  /\ ont' = [ont EXCEPT !.types[x] = {}, !.types[y] = ont.types[x]]
  /\ list' = [list EXCEPT !.insts = (@ \ {x}) \cup {y}]
  /\ UNCHANGED tree

(* The editor of an individual, opened from the list or from the editor of *)
(* another resource, adds or removes a type; the listeners look after the  *)
(* list and leave the tree alone.  An individual without a type becomes    *)
(* one of owl:Thing.                                                       *)
AddType(x, c) ==
  /\ May("types")
  /\ ont.types[x] # {}
  /\ c \in ont.live \ Lowest(ont, ont.types[x])
  /\ ont' = [ont EXCEPT !.types[x] = @ \cup {c}]
  /\ list' = [list EXCEPT !.insts = IF list.cls = c THEN @ \cup {x} ELSE @]
  /\ UNCHANGED tree

RemoveType(x, c) ==
  /\ May("types")
  /\ c \in Lowest(ont, ont.types[x])
  /\ ont' = [ont EXCEPT !.types[x] = IF @ = {c} THEN {Thing} ELSE @ \ {c}]
  /\ list' = [list EXCEPT !.insts = IF list.cls = c THEN @ \ {x} ELSE @]
  /\ UNCHANGED tree

(* The editor of a class on screen, or of a type shown in the editor of an *)
(* individual of the list, adds or removes a superclass.  What the store   *)
(* makes of a cycle, or of a class left without a superclass, is not in    *)
(* the repository: neither is done.                                        *)
Editable(c) == \/ \E i \in DOMAIN tree : tree[i].cls = c /\ Visible(tree, i)
               \/ \E x \in list.insts : c \in Lowest(ont, ont.types[x])

AddSuperClass(c, s) ==
  /\ May("hierarchy")
  /\ c # Thing /\ Editable(c) /\ {c, s} \subseteq ont.live
  /\ s \notin DirectSupers(ont, c) /\ s # c /\ c \notin SuperClasses(ont, s)
  /\ ont' = [ont EXCEPT !.supers[c] = @ \cup {s}]
  /\ tree' = RefreshTree(ont', tree, c)
  /\ UNCHANGED list

RemoveSuperClass(c, s) ==
  /\ May("hierarchy")
  /\ c \in ont.live \ ImportedClass /\ Editable(c)
  /\ s \in DirectSupers(ont, c) \cap ont.supers[c] /\ ont.supers[c] # {s}
  /\ ont' = [ont EXCEPT !.supers[c] = @ \ {s}]
  /\ tree' = RefreshTree(ont', tree, c)
  /\ UNCHANGED list

ClassNext ==
  \/ Show \/ Hide
  \/ \E i \in DOMAIN tree :
       \/ ClassesTreeClick(i) \/ OpenSubClassesList(i) \/ RemoveClass(i)
       \/ \E n \in Class : RenameClass(i, n)
       \/ \E x \in Individual : CreateIndividual(i, x) \/ ClassDragDrop(i, x)
  \/ \E c \in Class : SearchFocus(c)
  \/ \E c, s \in Class : CreateClass(c, s) \/ AddSuperClass(c, s) \/ RemoveSuperClass(c, s)
  \/ \E x \in Individual :
       \/ RemoveIndividual(x) \/ \E y \in Individual : RenameIndividual(x, y)
       \/ \E c \in Class : AddType(x, c) \/ RemoveType(x, c)

ClassSpec == ClassInit /\ [][ClassNext]_classVars

(***************************************************************************)
(* Properties.  What the listeners patch and what the server would answer  *)
(* agree only while the user keeps to some kinds of gestures; each         *)
(* property says to which.                                                 *)
(***************************************************************************)
Only(kinds) == done \subseteq kinds

(* No class is shown in two places.  Where one is, a class created below it*)
(* becomes the only child of a place that is closed; when it is removed in *)
(* the other place, the closed one is taken for a leaf, and a class with   *)
(* subclasses can be deleted there.                                        *)
OnePlace == \A c \in ont.live : Cardinality(DirectSupers(ont, c)) <= 1

(* An open item shows exactly the direct subclasses of its class, each     *)
(* once, although levels are patched by the listeners and not asked for    *)
(* again.  Not so after a search (the level a new class was put in while   *)
(* it was closed is filled a second time), a renaming or a move.           *)
OpenLevelsMatch ==
  Only(PlainGestures \cup {"types"}) /\ OnePlace =>
    \A i \in DOMAIN tree : tree[i].open /\ tree[i].kids =>
      /\ {tree[k].cls : k \in Children(tree, i)} = DirectSubClasses(ont, tree[i].cls)
      /\ Cardinality(Children(tree, i)) = Cardinality(DirectSubClasses(ont, tree[i].cls))

TreeIsCurrent == ClassTypeOK /\ OpenLevelsMatch

(* An item without a twisty stands for a class without subclasses: what    *)
(* checkAndRemove takes away and checkAndCreate adds keeps track of it.    *)
LeavesAreLeaves ==
  Only(PlainGestures \cup {"types"}) /\ OnePlace =>
    \A i \in DOMAIN tree : tree[i].kids \/ DirectSubClasses(ont, tree[i].cls) = {}

(* The list of instances is the one of the class in its header, after any  *)
(* creation, deletion or move made elsewhere in the sidebar; and the number*)
(* kept in an item, which guards the deletion of its class, is the number  *)
(* of instances the class has, in every place the class shows.             *)
ListIsCurrent == list.cls # NoClass => list.insts = Instances(ont, list.cls)

CountsAreCurrent == \A i \in DOMAIN tree : tree[i].count = NumInst(ont, tree[i].cls)

InstancesAreCurrent ==
  Only(PlainGestures \cup {"hierarchy", "search"}) => ListIsCurrent /\ CountsAreCurrent

BareClass(o, c) == DirectSubClasses(o, c) = {} /\ Instances(o, c) = {}

(* A renaming takes a class away and puts another in its place.            *)
Deletion == ont'.live \subseteq ont.live

(* Delete.deleteClass relies on it that "the application has already       *)
(* checked that the class has no subclasses nor instances": the sidebar    *)
(* asks for the deletion of no other class.                                *)
OnlyBareClassesAreDeleted ==
  [][Deletion => \A c \in ont.live \ ont'.live : BareClass(ont, c)]_classVars

(* The same, as long as the user neither searches, renames, moves classes  *)
(* nor changes types: what the check in removeClass looks at is up to date.*)
OnlyBareClassesAreDeletedPlainly ==
  [][Deletion /\ done' \subseteq PlainGestures /\ OnePlace => \A c \in ont.live \ ont'.live : BareClass(ont, c)]_classVars
=============================================================================
