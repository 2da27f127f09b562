------------------------------ MODULE Annotating ------------------------------
(***************************************************************************)
(* Dropping text on resources (AnnotationManager.jsm, AnnotationCommons    *)
(* .jsm, dragDrop.js, concept.js, functionPicker.js, annotator.js, the     *)
(* annotation branch of enrichProperty.js) composed with the options that  *)
(* govern it (Preconditions.tla and options.js) and with the bookmarks of  *)
(* pages (Bookmarks.tla).                                                  *)
(*                                                                         *)
(* A text selected on a page and dropped on a resource is handed to the    *)
(* enabled handlers of the default family whose precondition holds at the  *)
(* role of the resource: one is run, several are offered by a picker.  A   *)
(* handler is a sequence of requests, and an exception of one keeps the    *)
(* rest from being sent; nothing is taken back.  The picker and the        *)
(* annotator are modal for their window only: meanwhile resources, options *)
(* and languages change through other windows.                             *)
(***************************************************************************)
EXTENDS Preconditions, Bookmarks

CONSTANTS
  Given,        \* [resource -> role]: the resources there are at the start
  Selection,    \* the texts selected; a resource created is named by its text
  Property,     \* [property -> kind of range]
  Families,     \* the annotation families, in order; the options edited are of the first
  Language,     \* the languages the user adds, "" excluded
  Prefs,        \* the languages of a new installation (prefs.js)
  Before,       \* pairs <<language, later language>>
  Faults,       \* may requests fail without a reason of the model?
  MaxDrops,     \* bound: drops of text
  MaxLanguages  \* bound: additions of a language

Resource == DOMAIN Given \cup Selection
FamilyId == Range(Families)
Absent == "absent"
Nobody == [stage |-> "none"]
Blank == ""

ASSUME FactsAssumption ==
  /\ Given \in [DOMAIN Given -> Role] /\ Absent \notin Role
  /\ {"individual", "concept"} \subseteq Role
  /\ Families # <<>> /\ Families \in Seq(FamilyId)
  /\ Property \in [DOMAIN Property -> {"resource", "plainLiteral", "typedLiteral", "literal",
                                       "dataRange", "undetermined", "inconsistent"}]

(* The handlers there are: the two that create a resource are registered   *)
(* for the role it is created under.                                       *)
ASSUME CreatorsAssumption ==
  /\ Handler \subseteq {"createInstance", "createNarrowerConcept", "valueForProperty",
                        "furtherAnn"}
  /\ \A h \in Handler :
       /\ h = "createInstance" => Meaning[Default[h][1]] = {"cls"}
       /\ h = "createNarrowerConcept" => Meaning[Default[h][1]] = {"concept"}

\* Languages are strings, and sort() and > order them.
ASSUME LanguageAssumption ==
  /\ Blank \notin Language
  /\ Prefs \in [offered : Seq(Language), default : Language]
  /\ Before \subseteq Language \X Language
  /\ \A a, b, c \in Language : /\ <<a, a>> \notin Before
                               /\ (<<a, b>> \in Before /\ <<b, c>> \in Before) =>
                                    <<a, c>> \in Before

ASSUME DropBoundsAssumption ==
  Faults \in BOOLEAN /\ MaxDrops \in Nat /\ MaxLanguages \in Nat

VARIABLES
  role,       \* [Resource -> Role or Absent]: the resources of the project
  parent,     \* [Selection -> Resource or Absent]: what each was created under
  values,     \* property values: <<subject, property, value, language or type>>
  annotated,  \* annotations: <<family, resource, page>>
  pending,    \* [Window -> the picker or annotator open there]
  raised,     \* has the last drop that ended raised an exception?
  family,     \* the default family
  prefs,      \* the languages: those offered and the default, as saved
  languages,  \* the language part of the options dialog
  spent       \* drops and additions of languages so far

factVars == <<role, parent, values, annotated>>
languageVars == <<prefs, languages>>
dropVars == <<factVars, pending, raised, family, languageVars, spent>>
allVars == <<vars, bookmarkVars, dropVars>>

AnnotatingInit ==
  /\ Init /\ BookmarksInit
  /\ role = [r \in Resource |-> IF r \in DOMAIN Given THEN Given[r] ELSE Absent]
  /\ parent = [t \in Selection |-> Absent]
  /\ values = {} /\ annotated = {}
  /\ pending = [w \in Window |-> Nobody]
  /\ raised = FALSE
  /\ family \in FamilyId
  /\ prefs = Prefs
  /\ languages = [open |-> FALSE, list |-> <<>>, default |-> Blank]
  /\ spent = [drops |-> 0, added |-> 0]

-----------------------------------------------------------------------------
(* Requests.  One is a record; its effect is on the four facts.            *)

Facts == [role |-> role, parent |-> parent, values |-> values,
          annotated |-> annotated]

New(text, kind, under) == [do |-> "new", res |-> text, kind |-> kind, under |-> under]
Value(s, p, v, l) == [do |-> "value", value |-> <<s, p, v, l>>]
Annotation(f, r, page) == [do |-> "annotation", ann |-> <<f, r, page>>]
Refusal == [do |-> "refusal"]   \* an exception of the dialog itself

Known(f, r) == f.role[r] # Absent \/ \E v \in f.values : r \in {v[1], v[3]}

(* What the server checks: a new resource has a new name and an existing   *)
(* parent, a resource given as a value or annotated exists, in any triple; *)
(* the subject of a value is not looked for.                               *)
Accepted(f, q) ==
  CASE q.do = "new" -> ~Known(f, q.res) /\ Known(f, q.under)
    [] q.do = "value" -> q.value[4] = "resource" => Known(f, q.value[3])
    [] q.do = "annotation" -> Known(f, q.ann[2])
    [] q.do = "refusal" -> FALSE

Answered(f, q) ==
  CASE q.do = "new" -> [f EXCEPT !.role[q.res] = q.kind, !.parent[q.res] = q.under]
    [] q.do = "value" -> [f EXCEPT !.values = @ \cup {q.value}]
    [] q.do = "annotation" -> [f EXCEPT !.annotated = @ \cup {q.ann}]

\* The facts after the first n requests.
After(qs, n) ==
  LET after[i \in 0..n] == IF i = 0 THEN Facts ELSE Answered(after[i - 1], qs[i])
  IN after[n]

(* The requests are sent one by one, up to the first that is refused or    *)
(* fails: then the exception ends the handler.                             *)
Send(qs) ==
  \E n \in 0..Len(qs) :
    /\ \A i \in 1..n : Accepted(After(qs, i - 1), qs[i])
    /\ n < Len(qs) => Faults \/ ~Accepted(After(qs, n), qs[n + 1])
    /\ raised' = (n < Len(qs))
    /\ LET f == After(qs, n)
       IN role' = f.role /\ parent' = f.parent /\ values' = f.values
          /\ annotated' = f.annotated

-----------------------------------------------------------------------------
(* Drops.                                                                  *)

\* Only the options of the first family are edited.
Configuration(f, h) ==
  IF f = Families[1] THEN handler[h]
  ELSE [enabled |-> TRUE, restriction |-> <<>>,
        precondition |-> CHOOSE p \in ParsePrecondition(Default[h]) : TRUE]

\* getSuitableHandlers.
Suitable(f, r) == {h \in Handler : /\ Configuration(f, h).enabled
                                   /\ r \in Configuration(f, h).precondition}

MutNarrower(e) == <<New(e.text, "concept", e.res)>>

(* The bodies of the handlers, as requests: createNarrowerConcept asks for *)
(* a label in the default language too, which is a part of its request.    *)
Narrower(e) == <<New(e.text, "concept", e.res), Annotation(e.family, e.text, e.page)>>
Instance(e) == <<New(e.text, "individual", e.res), Annotation(e.family, e.text, e.page)>>
Further(e) == <<Annotation(e.family, e.res, e.page)>>

(* One handler runs; valueForProperty opens the annotator.                 *)
Run(w, h, e) ==
  IF h = "valueForProperty"
  THEN /\ pending' = [pending EXCEPT ![w] = [stage |-> "annotator", event |-> e]]
       /\ UNCHANGED <<factVars, raised>>
  ELSE /\ pending' = [pending EXCEPT ![w] = Nobody]
       /\ Send(CASE h = "createInstance" -> Instance(e)
                 [] h = "createNarrowerConcept" -> Narrower(e)
                 [] h = "furtherAnn" -> Further(e))

Free(w) == pending[w] = Nobody /\ Idle(w)

\* What a drop makes known: the resource as the tree drew it, and the text.
Event(w, r, t) == [res |-> r, role |-> role[r], text |-> t,
                   page |-> browser[w].page, family |-> family]

(* classDragDrop, instanceDragDrop, the drop of the concept tree, and      *)
(* handleEvent.                                                            *)
Drop(w, r, t) ==
  LET e == Event(w, r, t)
      hs == Suitable(family, role[r])
  IN /\ working
     /\ Free(w)
     /\ role[r] # Absent
     /\ spent.drops < MaxDrops
     /\ spent' = [spent EXCEPT !.drops = @ + 1]
     /\ \/ hs = {} /\ raised' = TRUE /\ UNCHANGED <<factVars, pending>>
        \/ \E h \in hs : hs = {h} /\ Run(w, h, e)
        \/ /\ \E g, h \in hs : g # h
           /\ pending' = [pending EXCEPT ![w] =
                           [stage |-> "picker", event |-> e, handlers |-> hs]]
           /\ UNCHANGED <<factVars, raised>>
     /\ UNCHANGED <<family, languageVars>>

(* onAccept of the picker: what was suitable at the drop is run.  Without  *)
(* a selection it throws, and the picker stays.                            *)
Pick(w) ==
  /\ pending[w].stage = "picker"
  /\ \E h \in pending[w].handlers : Run(w, h, pending[w].event)
  /\ UNCHANGED <<family, languageVars, spent>>

Cancel(w) ==
  /\ pending[w] # Nobody
  /\ pending' = [pending EXCEPT ![w] = Nobody]
  /\ raised' = FALSE
  /\ UNCHANGED <<factVars, family, languageVars, spent>>

-----------------------------------------------------------------------------
(* The annotator: a property is chosen, and how the text is its value      *)
(* depends on the range it has by then (listDragDropEnrichProp).           *)

\* The languages of the language dialog; a dialog cancelled means none.
Offered4Text == Range(prefs.offered) \cup {Blank}

\* A literal, and an annotation of its subject.
Literal(e, p, l) == <<Value(e.res, p, e.text, l), Annotation(e.family, e.res, e.page)>>
Plain(e, p) == {Literal(e, p, l) : l \in Offered4Text}
Typed(e, p) == {Literal(e, p, "type")}

(* A resource (listDragDropBind and listDragDropAnnotateInstance of        *)
(* enrichProperty.js): a new one, as an instance of a class or under a     *)
(* concept chosen there, or an existing one; the value is annotated.       *)
Bound(e, p, v) == <<Value(e.res, p, v, "resource"), Annotation(e.family, v, e.page)>>
Created(e, p) ==
  {<<New(e.text, IF role[c] = "cls" THEN "individual" ELSE "concept", c)>>
     \o Bound(e, p, e.text) : c \in {r \in Resource : role[r] \in {"cls", "concept"}}}
Existing(e, p) ==
  {Bound(e, p, v) : v \in {r \in Resource : role[r] \in {"individual", "concept"}}}
Enriched(e, p) == Created(e, p) \cup Existing(e, p) \cup {<<>>}

\* The value is plain or typed, as the user answers, or nothing is asked for.
OfLiteral(e, p) == Plain(e, p) \cup Typed(e, p) \cup {<<>>}

(* For a data range the text is compared with nothing, so that no type is  *)
(* found and the server refuses the request.                               *)
OfDataRange(e, p) == {<<Refusal>>}

(* For an undetermined range the user may answer resource too; after typed *)
(* a variable is named that is not defined.                                *)
OfUndetermined(e, p) == Plain(e, p) \cup {<<Refusal>>, <<>>} \cup Enriched(e, p)

(* By the range; for an inconsistent one the message names a variable that *)
(* is not defined.                                                         *)
RequestsFor(e, p) ==
  CASE Property[p] = "resource" -> Enriched(e, p)
    [] Property[p] = "plainLiteral" -> Plain(e, p)
    [] Property[p] = "typedLiteral" -> Typed(e, p)
    [] Property[p] = "literal" -> OfLiteral(e, p)
    [] Property[p] = "dataRange" -> OfDataRange(e, p)
    [] Property[p] = "undetermined" -> OfUndetermined(e, p)
    [] Property[p] = "inconsistent" -> {<<Refusal>>}

AcceptProperty(w, p) ==
  /\ pending[w].stage = "annotator"
  /\ pending' = [pending EXCEPT ![w] = Nobody]
  /\ \E qs \in RequestsFor(pending[w].event, p) : Send(qs)
  /\ UNCHANGED <<family, languageVars, spent>>

(* Another window deletes a resource that nothing was created under.       *)
DeleteResource(r) ==
  /\ working
  /\ role[r] # Absent
  /\ \A t \in Selection : parent[t] # r
  /\ role' = [role EXCEPT ![r] = Absent]
  /\ parent' = [t \in Selection |-> IF t = r THEN Absent ELSE parent[t]]
  /\ values' = {v \in values : r \notin {v[1], v[3]}}
  /\ annotated' = {a \in annotated : a[2] # r}
  /\ UNCHANGED <<pending, raised, family, languageVars, spent>>

-----------------------------------------------------------------------------
(* The options: the default family is set at once, the languages when the  *)
(* dialog is accepted.                                                     *)

ChangeDefaultAnnotationFamily(f) ==
  /\ languages.open
  /\ family' = f
  /\ UNCHANGED <<factVars, pending, raised, languageVars, spent>>

\* join and split: the empty list is read back as a list of one blank.
Split(list) == IF list = <<>> THEN <<Blank>> ELSE list
Precedes(a, b) == <<a, b>> \in Before \/ (a = Blank /\ b # Blank)

Sorted(list) == \A i, j \in DOMAIN list : i < j => ~Precedes(list[j], list[i])

\* sort: the same items, in order.
Sortings(list) ==
  {s \in {[i \in DOMAIN list |-> list[p[i]]] : p \in Bijection(DOMAIN list, DOMAIN list)} : Sorted(s)}

OpenLanguages ==
  /\ ~languages.open
  /\ \E s \in Sortings(Split(prefs.offered)) :
       languages' = [open |-> TRUE, list |-> s, default |-> prefs.default]
  /\ UNCHANGED <<factVars, pending, raised, family, prefs, spent>>

\* Before the first item that is greater.
Inserted(list, l) ==
  LET i == Cardinality({j \in DOMAIN list : \A k \in 1..j : ~Precedes(l, list[k])})
  IN SubSeq(list, 1, i) \o <<l>> \o SubSeq(list, i + 1, Len(list))

AddLanguage(l) ==
  /\ languages.open
  /\ spent.added < MaxLanguages
  /\ spent' = [spent EXCEPT !.added = @ + 1]
  /\ languages' = [languages EXCEPT !.list = Inserted(@, l)]
  /\ UNCHANGED <<factVars, pending, raised, family, prefs>>

RemoveLanguage(i) ==
  /\ languages.open
  /\ i \in DOMAIN languages.list
  /\ languages' = [languages EXCEPT !.list = RemoveAt(@, i)]
  /\ UNCHANGED <<factVars, pending, raised, family, prefs, spent>>

ChangeDefaultLanguage(i) ==
  /\ languages.open
  /\ i \in DOMAIN languages.list
  /\ languages' = [languages EXCEPT !.default = languages.list[i]]
  /\ UNCHANGED <<factVars, pending, raised, family, prefs, spent>>

CloseLanguages(accept) ==
  /\ languages.open
  /\ prefs' = IF accept THEN [offered |-> languages.list, default |-> languages.default]
              ELSE prefs
  /\ languages' = [open |-> FALSE, list |-> <<>>, default |-> Blank]
  /\ UNCHANGED <<factVars, pending, raised, family, spent>>

-----------------------------------------------------------------------------
DropNext ==
  \/ \E w \in Window :
       \/ \E r \in Resource, t \in Selection : Drop(w, r, t)
       \/ Pick(w)
       \/ Cancel(w)
       \/ \E p \in DOMAIN Property : AcceptProperty(w, p)
  \/ \E r \in Resource : DeleteResource(r)
  \/ \E f \in FamilyId : ChangeDefaultAnnotationFamily(f)
  \/ OpenLanguages
  \/ \E l \in Language : AddLanguage(l)
  \/ \E i \in 1..(MaxLanguages + Len(Prefs.offered)) : RemoveLanguage(i) \/ ChangeDefaultLanguage(i)
  \/ \E accept \in BOOLEAN : CloseLanguages(accept)

AnnotatingNext ==
  \/ Next /\ UNCHANGED <<bookmarkVars, dropVars>>
  \/ BookmarksNext /\ UNCHANGED <<vars, dropVars>>
  \/ DropNext /\ UNCHANGED <<vars, bookmarkVars>>

AnnotatingSpec == AnnotatingInit /\ [][AnnotatingNext]_allVars

-----------------------------------------------------------------------------
(* Properties.                                                             *)

AnnotatingTypeOK ==
  /\ TypeOK
  /\ topics \in [Page -> SUBSET Topic] /\ working \in BOOLEAN
  /\ browser \in [Window -> [page : Page, icon : BOOLEAN,
                             dialog : [page : Page \cup {NoPage}, items : SUBSET Topic]]]
  /\ role \in [Resource -> Role \cup {Absent}]
  /\ parent \in [Selection -> Resource \cup {Absent}]
  /\ values \subseteq Resource \X (DOMAIN Property) \X Resource
                      \X (Language \cup {Blank, "type", "resource"})
  /\ annotated \subseteq FamilyId \X Resource \X Page
  /\ \A w \in Window : pending[w].stage \in {"none", "picker", "annotator"}
  /\ family \in FamilyId
  /\ Range(prefs.offered) \cup Range(languages.list) \subseteq Language \cup {Blank}

(* The roles under which each kind of resource is created.                 *)
CreatedUnder == [individual |-> "cls", concept |-> "concept"]

\* A step that creates a resource.
DropIsFaithful ==
  \A t \in Selection : (parent[t] = Absent /\ parent'[t] # Absent) =>
    /\ ~rushed =>
         CreatedUnder[role'[t]] \in {role[parent'[t]]} \cup
           {pending[w].event.role : w \in {v \in Window : pending[v] # Nobody
                                           /\ pending[v].event.res = parent'[t]}}
    /\ ~raised' => \E f \in FamilyId, p \in Page : <<f, t, p>> \in annotated'

(* When no text was accepted unseen, a resource a drop creates is of the   *)
(* kind that goes with the role of the resource it is created under (as it *)
(* is, or as it was when the text was dropped: the picker may be late),    *)
(* and unless an exception is raised it ends annotated                     *)
(* (getSuitableHandlers of AnnotationManager.jsm, the handlers of          *)
(* AnnotationCommons.jsm, listDragDropBind of enrichProperty.js).          *)
DropsAreFaithful == [][DropIsFaithful]_allVars

(* The state is well typed; the dialog of a page lists only topics the     *)
(* page has, also when they are removed from the dialog of another window  *)
(* (handleBookmarkRemoved of bookmark-dialog.js); and the list of          *)
(* languages, sorted when the dialog opens, stays sorted (addLanguage of   *)
(* options.js).                                                            *)
DialogsAreSound ==
  /\ AnnotatingTypeOK
  /\ RemovedTopicsAreGone
  /\ Sorted(languages.list)
=============================================================================
