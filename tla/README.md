# Semantic Turkey: specifications, checks and proofs

Semantic Turkey is an ontology editor: a Firefox extension that sends HTTP
requests to a Java server, whose services edit the RDF *project* that is loaded.
This directory holds TLA+ models of the two halves: the part of the server that keeps
state across requests, and the windows, panels and dialogs of the extension, which
keep a copy of what the server has and patch it by events. Paths below are relative to
the repository; `CF` is `st-core-framework/src/main/java/it/uniroma2/art/semanticturkey`,
`CS` is `st-core-services/src/main/java/it/uniroma2/art/semanticturkey/servlet/main`,
`FX` is `st-firefox-ext/src/main/firefox` and `ST` is `FX/chrome/semantic-turkey/content`.
`PROJECT.json` maps every definition that models code to its lines.

## 1. Inventory

Server:

| Part | State | Operations | What makes it correct |
|---|---|---|---|
| `CF/project/ProjectManager`, `Project`, `SaveToStoreProject`; `CS/Projects` | one directory per project (`project.info`, `model.config`, the store, `.nt` file); the static `_currentProject` | create, activate, open, close, save, clone, export, import, delete, write a property, recover from failures | a request harms no other project; an "ok" is true; the loaded project keeps its directory |
| `CF/utilities/Utilities`, `CF/resources/UpdateRoutines` | the disk | copy, delete, unzip, download; repair | effects when cut short |
| `CF/ontology/STOntologyManager`; `CS/Metadata`, `CS/InputOutput` | imports in the main graph, named graphs, `importsStatusMap`, `refreshedOntologies` | import (4 ways), recover, remove, mirror, load, clear | graphs, statuses and the tree of `owl:imports` agree; recovery ends |
| `CF/resources/OntologiesMirror`, `CS/Administration` | registry and directory of local copies, shared by projects | add, update, delete an entry | old and new versions are not mixed |
| `CF/ontology/NSPrefixMappings` | two maps, a file, the store's own table | set, remove, clear, guess | they agree |
| RDF services (`Cls`, `Property`, `SKOS`, `Delete`, ...), annotation services | none of their own | calls of the OWLART library | what the panels rely on when they ask for a deletion |
| `CF/plugin` (dispatch, bundles, start-up) | one object per service, whose fields hold the request being served | | not modelled, section 8 |

Extension:

| Part | State | Operations | What makes it correct |
|---|---|---|---|
| Projects and session (`ST/projects`, `browser-overlay.js`, `FX/modules/ProjectST.jsm`) | the current project, menu and tool bar, selected scheme, the list of projects | the dialogs of projects, start-up, leaving Firefox | extension and server hold the same project to be open; unsaved work is asked about |
| Class panel (`ST/class`) | a tree filled level by level, the list of instances | create, delete, rename, types, superclasses, search | what is shown, and what deletions look at, is current |
| Property panel (`ST/property`) | a tree filled once | create, delete | the tree is the hierarchy of the loaded project |
| Resource editor (`ST/editors/editorPanel.js`, `ST/enrichProperty`) | a stack of windows, each with a name and rows | add and remove every kind of statement, rename | every window is current and speaks of a resource that exists |
| Metadata panel (`ST/metadata`) | prefix table, import tree, two boxes | prefixes, imports, base URI | the panel agrees with the server; unsaved text is marked |
| Range annotations (`FX/modules/annotation/AnnotationCommons.jsm`, `FX/components/nsXPointerService.js`, rangy's class applier) | the DOM of every tab, annotations on the server | annotate, show, delete | a pointer comes back to the text it was made for |
| Annotation families, preconditions, bookmarks | handlers with a formula each, the options dialog, topics of pages | drop a text, refine, choose, bookmark | the two readers of a formula agree; a drop does what its handler says |
| SPARQL tab (`ST/sparql`) | the text and what the tokenizer has read of it, results | type, complete, submit, show | the editor knows the grammar; results are those of the last answer |
| Events (`FX/modules/stEvtMgr.jsm`) | listeners | fire, register, drop a listener that throws | in the modules of the listeners |

Interaction. The extension sends one synchronous request after another. A
servlet thread hands the request to a service object; the service
calls `ProjectManager`'s static methods and, through the loaded project, its
`STOntologyManager`. Opening a project (`ProjectManager.activateProject`) runs
`Project.activate`, which starts the ontology manager, which recovers every import from
the mirror or the web. Failures travel back as exceptions along the same
path, and on that path `activateProject` and `Projects` *delete directories*.
In the extension an answer leads to an event, and every window that registered
for it patches what it shows; hardly anything is asked again.

Hard behaviours, each listed with its line under `hazards` in `PROJECT.json`:
handlers of several disk writes that fail or are cut short in between; recovery
code that deletes; a project known by two names (its directory, its `name`
property); edits that exist only in memory; recursion over cyclic imports in which
any download may fail; documents served under another name than they declare;
copies of three ages (named graph, mirror, web); panels patched in another order than
they were filled; deletions guarded by what a panel shows; loops over live DOM lists;
a name edited in a box while other windows use it; modal dialogs answered after the world
has changed; pointers into a page that highlighting itself changes; half-done sequences of
requests; listeners that throw and are lost; static and shared fields under several threads.

## 2. Modules

| Module | Models | Run |
|---|---|---|
| `ProjectShelf` | what the project services promise: named contents and one loaded content; abstract, no code of its own | `ProjectManager_quiet` |
| `ProjectManager` | project life cycle and the Projects service | `ProjectManager_*` |
| `OntologyImports` | imports, named graphs, mirror | `OntologyImports_tree` |
| `ImportHistory` | `OntologyImports` with what there was before the last import; no code of its own | `OntologyImports_tree` |
| `NSPrefixMappings` | prefixes on the server | `MetadataPanel_panel` |
| `MetadataPanel` | the metadata panel, over `NSPrefixMappings` | `MetadataPanel_panel` |
| `Session` | projects and session of the extension | `Session_commands` |
| `ClassPanel` | class tree and list of instances | `ClassPanel_*` |
| `Editor` | resource editor and its dialogs | `Editor_windows` |
| `XPointer` | creating, writing, reading and resolving pointers (functions only) | `PageAnnotations_page` |
| `PageAnnotations` | annotations on pages, over `XPointer` | `PageAnnotations_page` |
| `Preconditions` | formulas of handlers, the two readers, the options dialog | `Annotating` |
| `Bookmarks` | topics of pages | `Annotating` |
| `Annotating` | dropping texts and languages, over `Preconditions` and `Bookmarks` | `Annotating` |
| `PropertyPanel` | property tree | `Tabs_sidebar` |
| `QueryTab` | SPARQL editor and results | `Tabs_sidebar` |
| `Tabs` | `PropertyPanel` and `QueryTab` over the events of projects | `Tabs_sidebar` |
| `MC...` | values of the constants for TLC | |
| `ProjectManager_proofs`, `OntologyImports_proofs`, `MetadataPanel_proofs`, `Session_proofs`, `Editor_proofs`, `Annotating_proofs`, `Sidebar_proofs` | theorems | section 6 |
| `Induction` | induction on naturals, and what it gives about loops, as lemmas the proofs cite | |

Definitions named `Mut...` are plausible mistakes. No action uses them; each
can be put in place of the definition it precedes to see that a property fails.

### 2.1 ProjectManager

*State.* `disk` maps a name to its directory: which of its parts exist (`info`,
`config`, `store`), the label (the `name` property), the type and the saved content.
`current` is `_currentProject`, with the directory its `File` fields name, its own
copy of the label and the content in memory. `archive` is the last exported
file. `task` is the request being served, with the point (`pc`) its handler has
reached; `task.pre` is a copy of the state the request found, which only
properties read.

*Steps.* Handlers run in the steps at which they touch the disk:

| Request | Steps |
|---|---|
| `newProject` | `Prepare`, `WriteInfo`, `WriteConfig`, activation |
| `newProjectFromFile` | the same, then `LoadFile` |
| activation (`activateProject`) | `Describe`, `LoadTriples` or `LoadFails`, `Confirm` |
| `openProject` | activation |
| failed creation, `deleteProject` | `Erase` |
| `saveProject`, `setProperty` (and `setBaseURI`, `setName`, ...) | `Save`, `SetProperty` |
| `saveProjectAs` | `SaveAsClose`, `Copy`, `Label`, activation |
| `cloneProject` | `Copy`, `Label` |
| `importProject` | `Unpack`, activation, `Rename`, `LoadData` |
| close, export, repair, any edit | one step each |

`IOError` cuts a writing step short with what it may leave (`Torn`); `Crash` stops
the server between or inside steps. `Faults` chooses among five kinds: `crash`,
`io` (a failing write), `load` (a model that does not come up), `plugin` (a missing
OntologyManager bundle or a refused update), `close` (a store that does not close).

*Abstractions.* A directory whose `project.info` is missing and one whose file is
blank are one case. A `continuosEditing` store is assumed to have every edit
at once: that is the contract of the external triple store. Requests that are refused
without a step (illegal names, no project loaded) and requests that only
read are not actions. One request is served at a time.

### 2.2 OntologyImports

*State.* `declared` is the set of `owl:imports` of the main graph, `graphs` the
documents loaded in each named graph, `status` and `refreshed` the two tables of
`STOntologyManager`, `entry`/`file` the mirror's registry and directory, and
`newer` the mirror files younger than the project's time stamp. A document has a
name it declares itself under (`Real`) and names it imports (`Requires`); `Web` says
which documents a location may serve, today or later, possibly under another name.
`persistent` distinguishes stores that keep their graphs from `saveToStore` projects,
which keep only the main graph (`saved`).

*Steps.* The recursion `notifiedAddedOntologyImport` / `refreshImportsForOntology` /
`recoverOntology` is the stack `agenda`: each level is the set of imports of one
ontology still to look at. `Recover` looks at one (`Skip`, `Keep`, `Reload`: the
four cases of `recoverOntology`), `Return` ends a level. The web answers anew in
every step. The order within a level is left open, as the iteration over the
triple store leaves it. User requests: `ImportFromMirror`, `ImportFromWeb`,
`ImportIntoMirror` and their failures, `RemoveImport`, `MirrorOntology`,
`UpdateMirrorEntry`, `DeleteMirrorEntry`, `LoadRDF`, `ClearData`, and the life of
the project around them.

*Abstractions.* Only imports of modality USER: APPLICATION and SUPPORT
ontologies are declared by namespace and have no named graph in this code. The cache
file recorded in a status is left out. Adding an RDF document is assumed
to be all or nothing (it is one call of the external OWLART library). A user's import that cannot
be loaded changes nothing and is no step. Recovering a FAILED import is
always refused (`checkImportFailed` looks a string up in a map with resources as keys),
so it is no step. Loading data and notifying it are one step, since nothing can be
observed between them.

`ImportHistory` adds `before`, the four structures as they were when the last import was requested, kept
through recovery, saving and changes of the mirror and given up at any other request. It restricts no step.

### 2.3 The extension

Requests are synchronous and dialogs are modal to their window, so that a *gesture* of
the user, the requests it makes, the events it fires and what all listeners do with them
are one step. The steps that do interleave are those the code leaves to others: a second
window, a restart of the server, a modal picker that is answered later, a timer.

- `Session`. `srv` is the server's loaded project, `ui` the extension's `CurrentProject`, `bar` the
  controls, `ears` the events the browser window still listens to (a listener that throws
  is dropped for good), `skos` the selected scheme, `rows` the list of projects. A command that
  closes the current project first is a `task` in up to three steps; the server may fail or
  restart between them.
- `ClassPanel`. `tree` is the list of `treeitem` elements in document order, with depth, twisty,
  open state and the instance count kept in the item; `ont` the ontology. Listeners
  are the loops of `classEventsFired.js`, which walk a live list by position: a function over the turns of the loop.
  A search that opens an item without treechildren puts its subclasses among the roots
  (`getSubClassesTree_RESPONSE` falls back to `rootClassTreeChildren`), and goes on (`UnfoldingTurn`).
- `Editor`. `editors` is the stack of windows; each has the name in its attribute (`actual`),
  the text in its box (`typed`), and what it drew (`of`, `shown`). `own` and `Imported` are facts about
  resources. A command names, as the code does, the attribute or the text.
- `MetadataPanel`. `prefixRows`, `importRows`, `boxes` against `store`, `imports`, `uris`. A behaviour uses either
  the trees or the boxes (`part`), which share nothing but the project they were filled for.
- `XPointer`. Pages are trees of records, a node is its path, a pointer its sequence of lexemes.
  `CreateXPointerFromRange` and `ResolveXPointerToRange` are compared with each other on every
  page and highlight that `PageAnnotations` reaches.
- `Preconditions`. A text is a sequence of words; the transitions of the editor's tokenizer and the two
  stacks of the manager's parser are both run over it.
- `Annotating`. `pending` holds a picker or annotator open in a window, with the event it was opened
  for; handlers are sequences of requests of which a later one may fail.
- `PropertyPanel`, `QueryTab`. `rows` as in `ClassPanel`, empty once the last row, and with it the element `rootPropertyTreeChildren`,
  is gone (`Topless`): properties created then exist and are not shown (`lost`); `read` is the state of the tokenizer (stack, what may
  follow, error) after each word.

What is abstracted: labels and icons, layout, the XML of answers (its parsing is direct), the
server's side beyond the checks its services make (a set of statements), white space as CSS renders
it, cycles in hierarchies of classes and properties where the store's answer is not in
the repository. A property has one type in the model; one of two types would be listed twice at the top
(`Property.java:441-508` lists them type by type). Names of `Object.prototype` without a dot
(`toString`) are no words of preconditions in the model: the editor marks them, while `parsePrecondition` finds them in its tables and
takes them for binary operators (`AnnotationManager.jsm:408-426`).

## 3. Runs

All runs that pass check deadlock too.

| Run | Instance | Shows |
|---|---|---|
| `ProjectManager_quiet` | 3 names, 3 contents, both types; stores that do not close | labels are directory names; nothing is half built between requests; the loaded directory is never deleted on request; `ProjectManager` implements `ProjectShelf` |
| `ProjectManager_faults` | 2 names, type saveToStore; all five faults | damage stays in the directory a request is about; what answers say is true; copies and imports are faithful |
| `OntologyImports_tree` | cyclic imports a -> b -> a, c and an alias w of a, a in two versions; both types | data is under its own name; tables, graphs and tree agree; removing an import that was new takes back all that it and the recovery after it did; opening does not mix versions; projects open again; recovery ends |
| `Session_commands` | 2 projects, one of each sort, 1 scheme; 7 faults | extension and server stay in step; the selected scheme is the project's; unsaved edits are asked about |
| `ClassPanel_patches` | 3 classes, 2 individuals, trees of 5 items | tree, twisties, counts and list are current for the kinds of gestures each property names |
| `Editor_windows` | 2 windows, eight vocabularies of 2-3 names | every window is current, whichever edits; no step takes a name from under an editor, and a name of nothing is first spoken of in axioms of properties |
| `MetadataPanel_panel` | 2 namespaces, 2 prefixes, 2 projects, failing writes | prefix maps and file agree; rows and imports are current; unsaved text is marked |
| `PageAnnotations_page` | 2 documents, 2 tabs, 2 annotations, all selections | a pointer comes back to its text on every decoration; all forms of pointers agree |
| `Annotating` | 1 class, 1 concept, 4 handlers, 2 texts, texts of up to 5 words | the two readers agree; refinements hold where their text says; drops and dialogs are faithful |
| `Tabs_sidebar` | 4 properties, trees of 6 rows, queries of up to 7 words | tree is the hierarchy; the tokenizer accepts what the grammar allows; results are those of the answer |
| `ProjectManager_duplicate`, `ClassPanel_search` | | violations, section 7 |

*Bounds.*
Projects: requests interact through one name being source, target or loaded at once;
two names give every coincidence except a source, a target and a loaded
project that are all different, which three give. Three contents are an empty one, a torn one and one
other: a copy that mixed up two contents would show with these. `ProjectManager_faults` fixes the type,
because what a `continuosEditing` project adds (edits reach the disk at once) makes its saves
trivial. `ProjectManager_quiet` has no failing loads: with them the implementation of `ProjectShelf` fails,
since opening the *loaded* project again with a load that fails deletes its directory; the theorems
about that run allow them.
Imports: cycles, sharing, an alias, and a document that changes its own imports need four names;
deeper chains only repeat `Recover`. `Faults` is given for each type of project: all kinds for stores that
keep their graphs, a web that fails for the others, whose bookkeeping is what the run looks at.
`Loadable` bounds which names RDF files may import.
Class panel: `Mixed` bounds how many of the kinds of gestures beyond opening, closing, clicking, creating and removing one
behaviour mixes; with one kind each property can say for which it holds. `MaxItems` bounds
the items that a search or a new class leaves. Editor: `Vocabularies` restricts one behaviour to a few names and facts, chosen so that
each section of the editor occurs with what can disturb it; `RowLimit` is 1 so that a section of two is "long".
Metadata: `OneProjectPerPart` uses the trees with the project that writes every change and the boxes with the other.
Annotations: the documents have no spans of their own; two annotations give nested, overlapping and disjoint highlights.
Annotating: `Bounds` keeps parts that share few variables from being varied together, as its comment says.
Tabs: `OneAtATime` keeps the property tree still while the SPARQL tab is used; the grammar is the slice of `ll1_table` with prologues, SELECT, ASK, data
sets, one group of triples of variables, limit and offset (without brackets and literals).

*Fairness.* `OntologyImports` assumes weak fairness of `Return`, `Recover` and `Opened`: a
request is handled by one thread that runs until it is answered, no step of it
waits for another request, and a connection that does not answer ends with a
time-out, which is the failure of a load. Nothing is assumed of the users: every
request is optional. The other modules claim safety only: there is nothing in the extension that must happen
without the user, since its requests are synchronous.

## 4. Properties worth reading

- `OthersUntouched`, `AnswersAreTrue`: compare the state at any point of a
  handler with the one it found, under all faults. `AnswersAreTrue` has what an "ok" means for
  opening, saving and editing, and that a "fail" had no effect.
- `CopiesAreFaithful`, `ImportRestoresExport`; `LabelsMatch` and `DeleteSparesLoaded`: the label is only
  checked against the request's name, yet stands for the directory.
- `ImportsAccountedFor`: three structures (statements and graphs, status, refreshed)
  describe one tree through additions, removals, aliases, cycles and failures. `OpensAgain`: an
  exception while recovering imports deletes the project.
- `RemovalUndoesImport`: importing walks the web and fills four structures; removing computes a difference of two
  closures. That the second takes back the first, and no more, needs both to see the same tree.
- `SessionIsSound`, `SchemeIsTheProjects`: which failures part the extension from the server, and for how long.
- `OnlyBareClassesAreDeletedPlainly` and the violated `OnlyBareClassesAreDeleted`: the server's promise to the
  user rests on what a panel shows.
- `EditorsAreSound`, `NamesAreHonoured`: windows on top of each other, under renaming.
- `PointersResolve`, `FormsAgree`: two thousand lines of pointer arithmetic against each other.
- `ReadersAgree`: the tokenizer accepts a text only if the parser understands it.
- `EditorKnowsTheGrammar`: a table-driven parser fed word by word, against the grammar the table is of.
- `UnsavedIsMarked`: holds until the lock between the boxes is used.

## 5. How the code limits them

Some properties carry a condition that is a fact about the code, found by checking without it:

- *Prefixes.* Replacing a prefix removes the old one whatever it stands for by then
  (`NSPrefixMappings.java:97-99`), clearing empties one map (131): the maps agree in one direction only.
- *Session.* `changeProjectObj` may throw and its listener is lost (`browser-overlay.js:409`); clone closes and opens again
  without the event that enables the controls; a command forgets the current project before the server is asked to close it.
- *Class panel.* Counts are not updated by type events; a level filled by a listener is filled again by a search; rename events
  carry names in another form than items have. Where a class is shown in two places, a class created below it becomes the only child
  of a closed place; when it is removed in the other place the closed one is taken for a leaf (`classEventsFired.js:197`), and a class with
  subclasses can be deleted there. The properties of the tree therefore suppose `OnePlace`: no class has two direct superclasses.
  *Property panel.* What is below a removed property is lost from the tree
  (`Delete.java:123-127`); removing the last row takes away the element that rows are put in, so that what is created then
  is not shown (`property.js:59-61`, 89); superproperties changed in the editor are not heard of; searching never finds a row.
- *Editor.* A refresh takes the text in the name box, not the name (`editorPanel.js:2877`); domains are added to it (2192);
  an unticked characteristic is not drawn; a long list of typed literals is not either. A name that is only typed, and denotes nothing,
  can get a domain, then be chosen as a value, and be opened from there: that a window on top of others speaks of a
  resource that exists is false, and `NamesAreHonoured` says it of names that denoted one when they were opened.
- *Metadata panel.* The listeners for closed projects and loaded data (`imports.js:42-57`) wait for events that other windows fire
  only in part: the panel is current for what it was told of.
- *Pages.* Documents with `span`s of their own, and pointers made on a highlighted page, do not resolve to the same text; a range that begins with
  white space moves; several `xpointer()` schemes in a row fail.
- *Preconditions.* OK may be pressed before the text was looked at (`rushed`); methods that every object inherits, named through an atom (`True.toString`), are atoms to the parser only.
- *SPARQL.* After a word that cannot be followed by anything the tokenizer accepts all (`sparqlmode_ll1.js:1652`); the grey button can be
  pressed; results and prefixes of the former project stay when another is opened.

## 6. Proofs

The theorems hold for every value of the constants that the named assumptions admit (any names,
contents, ontologies, facts, windows, and any set of faults, unless said otherwise). Each module has one
inductive invariant, which a run of TLC checked before it was proved, one lemma per action (or per kind of action), and short
theorems at the end.

| Theorem | Property | For |
|---|---|---|
| `ProjectManager_proofs`: `TypeCorrect`, `TargetsOnly`, `NoAnswerLies`, `CopiesAreCopies`, `ImportsRestore` | `TypeOK`, `OthersUntouched`, `AnswersAreTrue`, `CopiesAreFaithful`, `ImportRestoresExport` | all five kinds of faults |
| `ProjectManager_proofs`: `LabelsAreNames`, `NothingLeftHalfBuilt`, `LoadedIsNeverDeleted` | `LabelsMatch`, `NothingHalfBuilt`, `DeleteSparesLoaded` | `Quiet`: only loading and closing may fail |
| `ProjectManager_proofs`: `HandlersAreAtomic` | `ImplementsShelf` | `Calm`: only closing may fail |
| `OntologyImports_proofs`: `ImportsTypeCorrect`, `OpeningReplaces` | `TypeOK`, `ReloadReplaces` | all faults, any names |
| `OntologyImports_proofs`: `FiledRight`, `OpeningIsSafe` | `FiledUnderOwnName`, `OpensAgain` | all faults; worlds that are `WellNamed(owner)` |
| `OntologyImports_proofs`: `TreeIsAccountedFor`, `RemovalIsUndone` | `ImportsAccountedFor`, `RemovalUndoesImport` | the same worlds; saveToStore projects, a web that may fail; any cyclic imports |
| `MetadataPanel_proofs`: `MapsAndFileAgree` | `PrefixesAgree` | failing writes; finitely many strings |
| `MetadataPanel_proofs`: `PanelPrefixesAgree`, `ShownIsCurrent`, `UnsavedTextIsMarked` | `PrefixesAgree`, `PanelIsCurrent`, `UnsavedIsMarked` | the same |
| `Session_proofs`: `SessionStaysSound`, `SchemeIsFollowed`, `ListIsKeptCurrent`, `NothingDroppedUnasked` | `SessionIsSound`, `SchemeIsTheProjects`, `ListIsCurrent`, `UnsavedIsAsked` | all seven faults, every sort of project |
| `Editor_proofs`: `EditorsStaySound`, `NamesStayHonoured`, `LastBroaderReported` | `EditorsAreSound`, `NamesAreHonoured`, `LastBroaderIsReported` | any vocabulary, number of windows, length of rows |
| `Annotating_proofs`: `AcceptedIsParsed`, `ParserIsFaithful` | (about functions) | every text, of any length, over any atoms |
| `Annotating_proofs`: `PreconditionsTyped`, `ReadersAlwaysAgree`, `RefinementsAreAlwaysTheTexts`, `OptionsStaySound` | `TypeOK` of `Preconditions`, `ReadersAgree`, `RefinementsAreTheTexts` | any handlers, each registered with one atom; alone and next to drops and bookmarks |
| `Annotating_proofs`: `DialogsStaySound`, `DropsStayFaithful` | `DialogsAreSound`, `DropsAreFaithful` | any windows, pages, topics, resources, properties and (ordered) languages; failing requests |
| `Sidebar_proofs`: `QueryTabStaysSound` | `QueryTabIsSound` | any answers and texts |
| `Sidebar_proofs`: `TreeStaysTheHierarchy` | `TreeIsTheHierarchy` | any finite set of properties, any hierarchy without cycles |
| `Sidebar_proofs`: `NumbersStayCurrent` | `InstancesAreCurrent` | any finite sets of classes and individuals, any hierarchy without cycles |
| `Sidebar_proofs`: `LevelsStayCurrent`, `LeavesStayLeaves` | `TreeIsCurrent`, `LeavesAreLeaves` | the same |
| `Sidebar_proofs`: `OnlyBareClassesGo` | `OnlyBareClassesAreDeletedPlainly` | the same |

*ProjectManager.* `IInv` relates the step (`pc`) of the request to what its target
directory may be; it is inductive with nothing assumed of the environment. `AInv` adds the history of the request, step by step:
what of the state it found still holds, what has been written, and that an answer is only reached
from a step that has done it. The properties about answers follow from it alone. `QInv` is `IInv` with four
facts that need writes to succeed: a directory under construction lacks just the parts whose
step is still to come (`BuildFacts`), others are whole, no torn content is in memory, and labels are names outside
of the step between copying and relabelling. For `HandlersAreAtomic` each step of a handler is shown to be one operation of
`ProjectShelf` or a stutter; the writing step of a handler is where the operation takes place. It needs that the shelf's
"no directory" is no content (`ShelfAssumption`). A load that fails is excluded for the reason given in section 3.

*OntologyImports.* `NInv` is `TypeOK` with `Well(owner)`: a named graph and a mirror file hold documents of their own name.
The lemmas `ReloadFacts` (recovery) and `UserFinds`, `ArriveWell` (imports by the user) say what loading a document may leave behind.
`WellNamed(owner)` says that documents import, and loaded files import, ontologies by names whose location serves that ontology; that a user
who types another location gets one ontology from it; and that no two ontologies share a mirror file (`owner` says whose it is).
Without it data may stay under a name it does not declare (an import into a graph that has data), and an import that is filed under another
name makes the next opening fail. The run's instance is well named; it has one name that is not proper, an alias that only users type. `OpeningReplaces` needs
just that a closed project has no statuses and that `recoverOntology` empties the graph before it loads it.
`TInv` is the loop invariant of the recovery: what has been refreshed and what the
stack still holds (`Tracked`) are closed under imports and lie within the closure of the main graph's statements; with
an empty stack the two inclusions meet. For `RemovalUndoesImport`, `HInv` says that what there was before the import is the tree of its
statements (`WasTree`), and that this tree is in place as long as the new statement is about an ontology outside of it
(`InPlace`): recovery only touches what has not been refreshed (`RecoverTracked`). So the old statements still reach what they did (`OldTree`), and
removal leaves just that (`RemovalLeaves`). `Closure` is defined as the least closed set, so that its lemmas need no induction.

*Prefixes and the metadata panel.* The one loop (the store guesses a prefix for each name space) is a fold over
a finite sequence. Induction over it is derived in the module from the well-foundedness of inclusion on finite
sets: a least counterexample among the naturals. The panel's rows are compared with the store as sets,
since rows are added and taken away one by one; `MarkedIsTyped` says why a box that is not marked needs none:
taking the hash off a typed text twice is the same as once. Removing a prefix in the panel relies on `PrefixesAgree`.

*Session.* A command forgets what is current before it asks the server, so an invariant about `ui` alone
is lost halfway. `Known(u)` is stated of a record and holds of the current project and of the one the
task remembers; `Phases` says which of the two counts at which point of a command. Every announcement of a project goes through
`Announce`, so the events, the controls and the scheme are treated once (`Announcing`) for all actions that announce.

*Editor.* `Drawn` says that a window shows what would be drawn now, but for unticked characteristics. Nineteen of the
actions make *edits*: facts are taken away or added, then all windows are drawn again; the lemma
`Kinds` shows that each step is an edit or one of ten others. `FirstNamed` (the first window's name denotes a
resource) is what makes renaming harmless: only the first window renames, and only while it is alone. That the last broader concept is reported needs
`Drawn`: the one row the window counts must be the row of the very fact that goes.

*Preconditions.* The tokenizer is a table of transitions with a stack of parentheses, the parser a loop with two stacks, and
nobody wrote down how they correspond. `AcceptedIsParsed` relates them token by token: after every prefix of a text the
state of the one determines the shape of the stacks of the other, and where the tokenizer would accept the end the parser's last
reductions leave one formula. `ParserIsFaithful` adds to the same induction what the formulas on the stack mean, against the
structural reading of the text (a text between matching parentheses, a negation, the last connective outside of parentheses).
`RefinementInv` is `RefinementsAreTheTexts` with the texts the dialog still holds, and says that OK is only enabled for a text that the tokenizer
accepts. A default that is one atom (`DefaultAssumption`; the code has no other) is needed: conjoining a text with an *or* outside of
parentheses would bind otherwise.

*Annotating.* `AnnotatingInv` joins the invariants of the parts. `PickerInv` is the one a drop rests on: what a picker offers was
registered for the role of the thing dropped on, also when it is answered after the options were changed, as long as no text was accepted
unseen (`rushed`). A drop is a list of requests, the creating one first and the annotation last, so an exception between the two leaves the
resource without its annotation, the case the property names. `CreatorsAssumption` (the two creating handlers are registered for the role they create
under) and `LanguageAssumption` (languages are ordered) are facts about the handlers and strings there are. The list of languages stays sorted because
a language is put before the first greater one.

*Property tree.* `TreeInv` has four layers. The rows are a tree written in order (`Tidy`): depths grow by one (`Nested`), a row
is a container just when the next one is deeper (`Opened`), and no property comes again among the later siblings of its row or of the rows above it (`Apart`). The superproperties the server holds are
without cycles (`Sound`). Every row is where the model has it (`Right`), and nothing is missing but what was lost, with a removed property or because it was created when no row was left; both only
while no superproperty was changed elsewhere. That twisties are right follows from the first layer alone, which is why they survive
what the panel does not hear of. Filling is a function over depths: `Forest` says what the rows of a level are, and without cycles no property is deeper than there are
properties (`Rank`). The removing loop looks at positions of a list that shrinks under it: its invariant says that no copy of the
removed property is before the position looked at, which holds although the row that moves up is skipped: what moves up is a later sibling of the
removed row or of one above it, which `Apart` says is no copy. Adding is one row at one place (`More`); `WithoutIs`, `AcceptedIs`, `FewerSupers` and
`MoreSupers` say what a deletion, a creation and an edit in the editor do to the hierarchy.

*Class panel.* `InstancesInv` keeps, next to the numbers and the list, what makes them right. The ontology is *tame*: without
cycles, and every individual has at most one class, since the gestures the property allows neither give second types nor rename; a class
has then exactly the instances that were given it, and moving a class changes no number. The server deletes any class it is asked to, but
the sidebar deletes a class only with the number 0, which is why no individual loses its class unseen. At most one row is the current one
(`OnePicked`): a number is brought up to date by looking at the class of the current row, and the class that gets the individual must be that one. The loops over the live
list are functions over turns: `StaysIn` carries what a turn keeps (here: a list of items with the right numbers) through all turns, and `Listed` says that a
level is filled with exactly the items it is given. That the tree shows the right classes in the right places is not needed for any of this.

*Class tree.* `OrderlyInv` is about what is shown. Without searches, renamings and moves (`Settled`) the classes of imported ontologies keep
their superclasses and are forbidden to delete, whatever the hierarchy (`GivenKept`, `Guarded`). If none of them has two places (`OneGiven`, which
`OnePlace` implies in any state reached), every other class has the one superclass it was created under (`Treelike`), and the tree is one of levels (`Levels`): the item right
above each is of the one class above its class (`Placed`), no class comes twice (`Once`), an open container shows all subclasses (`Filled`), an item
without a twisty has none (`Twisties`), and what is right above the current row is open (`Seen`). The last is what makes deletion
safe: it takes the current row, and the parent it leaves without children is taken for a leaf. That is right of a level that is filled, and
wrong of one that is closed, where a class created meanwhile may be the only item there is of several. `LevelsBut` is `Levels` without `Filled` for one class, the
state between emptying a level and loading it again. Every change to the list is a splice (`Moved`): `SplicedPlaced`, `SplicedOnce` and
`SplicedMade` say what a splice keeps. Since no class comes twice, the loops over the live list do their work in one turn (`RemovedAt`,
`CreatedAt`), although the list shrinks or grows under them. `OnlyBareClassesGo` joins the two invariants: an item without a twisty has no
subclasses, an item with the number 0 no instances, and no other item is asked to be deleted.

*SPARQL tab.* `QueryInv` says that results are those of the last answer, that a query can be submitted only with a project open, and that no project is open
before the extension is started; the last is needed for a tab that is opened first.

*Only model-checked.* `RecoveryEnds` (liveness of the recovery); `PointersResolve`, `PagesAreSound`, `FormsAgree` and the action properties of the pages; `EditorKnowsTheGrammar`. The modules
`XPointer` and `PageAnnotations` have recursive operators, as the code they model has recursive functions (walks of DOM
paths); the prover does without its arithmetic solver in a module that reaches one. `EditorKnowsTheGrammar` holds of a table that was
generated from a grammar; what makes a table one is nowhere in the code, which has just the table, so the run checks the part of it that it has. Liveness is out of the prover's reach in any case.

## 7. Where the code and its text disagree

Two runs expect a violation and are listed under `findings` in `PROJECT.json`.

- `ProjectManager_duplicate`: a "new project" under the name of an existing one is refused with an
  exception, on whose way out the existing project is deleted.
- `ClassPanel_search`: after a search that opened a level which was not filled, a class with subclasses
  looks like a leaf, and is deleted as one.

Other disagreements met while reading, which are part of the models but have no run of their own:
"save as" drops unsaved edits (`Projects.java:446`, against its comment at 429); a copy
is made from the disk while the project is loaded, and a copy whose relabelling failed can be deleted while it is loaded, since
deletion knows the loaded project by its label only (`ProjectManager.java:460`); when the last row of the property tree has been removed, a root property that is created
then is made by the server, but the tab finds no element to put its row in and ends in an exception ("add root property", `property.js:88-106`); a location that failed to load is given the status of one loaded from the web (`STOntologyManager.java:733`);
an import under another name than the document declares makes the next opening fail, and delete the project (820); imports of a graph that
is kept are not followed (500). Those of section 5 limit a property each.

## 8. Not modelled

`PROJECT.json` names every part with its reason. Services that only read, the look-up of bundles and start-up keep no
state. Service objects are shared by all threads and keep the request being served in fields: with one browser, whose requests are
synchronous, this does no harm, and every module assumes it. The OWLART and Sesame libraries are external; the store is taken to do
what its interface says. Vendored editors are modelled only where the extension's own code was written into them (the
tokenizer of SPARQL). Left out of modelled parts: SKOS-XL labels, synonyms, the graph view, the layout of forms, white space as CSS renders it.

## 9. What is left

The properties of pages are not proved: their modules have recursive operators (section 6). What is proved of the class tree is proved for a tree in
which no class has two places; with several places the twisties are wrong in ways that `OnePlace` describes, and what remains true then is not stated. The nested use of the event manager's shared
position (`stEvtMgr.jsm:57`) and a mirror registry whose write fails have no property.
