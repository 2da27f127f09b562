------------------------------- MODULE Editor -------------------------------
(***************************************************************************)
(* The resource editor of the Firefox extension (editors/editorPanel.js    *)
(* and the dialogs of enrichProperty/).  An editor is a modal window: the  *)
(* panels open the first one, a double click on a value opens another one  *)
(* on top of it, and only the last one takes commands.  Every open editor  *)
(* listens to the events of the extension and draws itself again.          *)
(*                                                                         *)
(* Each editor has two names.  "actual" is the attribute actualValue of    *)
(* the name field; "typed" is the text in the field, which the user may    *)
(* change at any time and which is not saved before Rename is pressed.     *)
(* Some commands, and every refresh, take the text; the others take the    *)
(* attribute.                                                              *)
(***************************************************************************)
EXTENDS Naturals, Sequences, FiniteSets

CONSTANTS
  Resource,      \* the names resources may have
  InitialRole,   \* what each name denotes at the start, or "none"
  Imported,      \* facts that come from imported ontologies or inference
  Typed,         \* typed literals
  Text,          \* texts of plain literals
  RangeType,     \* the rngType the server answers for each value property
  PropertyOrder, \* the order in which the server lists the value properties
  RowLimit,      \* longest section drawn as rows (3, or 10 for some sections)
  Facet,         \* the four property characteristics with a checkbox
  NoLang,        \* the language of everything that is not a plain literal
  AnyScheme,     \* the scheme "*": no current scheme
  MaxEditors,    \* bound: windows open at the same time
  Vocabularies   \* bound: the names and new facts a behaviour is about

VARIABLES
  role,       \* what each name denotes
  own,        \* the facts of the working graph
  editors,    \* the open editors, the last one on top
  timers,     \* concepts that window.setTimeout will make top concepts
  told,       \* the concept the user was just told has no broader concept
  vocabulary  \* the vocabulary of this behaviour

vars == <<role, own, editors, timers, told, vocabulary>>

Roles == {"cls", "individual", "concept", "conceptScheme", "objectProperty",
          "datatypeProperty", "annotationProperty", "property"}
PropertyRoles == {"objectProperty", "datatypeProperty", "annotationProperty", "property"}
ValueProperty == DOMAIN RangeType

Object == Resource \cup Typed \cup Text \cup Facet

Fact(s, r, o, l) == [s |-> s, rel |-> r, o |-> o, lang |-> l]

WellFormed(f) ==
  f = Fact(f.s, f.rel, f.o, f.lang) /\ f.s \in Resource /\ f.o \in Object

(* The sections of the form that every project has.                        *)
FixedSections == {"type", "super", "label", "top", "domain", "range", "facet", "inverse"}

ASSUME EditorAssumption ==
  /\ InitialRole \in [Resource -> Roles \cup {"none"}]
  /\ RowLimit \in Nat \ {0} /\ MaxEditors \in Nat \ {0}
  /\ PropertyOrder \in Seq(ValueProperty)
  /\ \A p \in ValueProperty : \E i \in DOMAIN PropertyOrder : PropertyOrder[i] = p
  /\ ValueProperty \cap FixedSections = {}
  /\ \A f \in Imported : WellFormed(f)
  /\ \A v \in Vocabularies : v.names \subseteq Resource /\ \A f \in v.facts : WellFormed(f)

Facts == own \cup Imported

(* The server knows a name once any statement mentions it. *)
Exists(n) == role[n] # "none" \/ \E f \in Facts : f.s = n \/ f.o = n

Named(r) == {n \in Resource : role[n] = r}

(***************************************************************************)
(* What an editor draws                                                    *)
(***************************************************************************)

(* The sections of the form for each kind of resource. *)
Sections(src) ==
  ValueProperty \cup
  (CASE src = "cls"           -> {"type", "super"}
     [] src = "individual"    -> {"type"}
     [] src = "concept"       -> {"type", "super", "label"}
     [] src = "conceptScheme" -> {"type", "top", "label"}
     [] OTHER                 -> {"super", "domain"}
          \cup (IF src = "annotationProperty" THEN {} ELSE {"range"})
          \cup (IF src = "objectProperty" THEN {"facet", "inverse"} ELSE {}))

About(n, src, facts) == {f \in facts \cup Imported : f.s = n /\ f.rel \in Sections(src)}

IsLong(fs, rel) == Cardinality({f \in fs : f.rel = rel}) > RowLimit

Own(f) == f \notin Imported

(* A row, or an item of a list.  Its button is disabled, or its command    *)
(* does nothing, unless it is removable.                                    *)
Row(f, removable) == [rel |-> f.rel, o |-> f.o, lang |-> f.lang, removable |-> removable]

(* Only own facts have explicit="true"; some lists do not look at it.       *)
ParsingType(fs) == {Row(f, Own(f)) : f \in {g \in fs : g.rel = "type"}}

ParsingSuperTypes(fs, src) ==
  LET lenient == src \in PropertyRoles \cup {"concept"} /\ IsLong(fs, "super")
  IN {Row(f, Own(f) \/ lenient) : f \in {g \in fs : g.rel = "super"}}

ParsingDomains(fs) == {Row(f, Own(f)) : f \in {g \in fs : g.rel = "domain"}}

ParsingRanges(fs) == {Row(f, Own(f)) : f \in {g \in fs : g.rel = "range"}}

ParsingFacets(fs) == {Row(f, FALSE) : f \in {g \in fs : g.rel \in {"facet", "inverse"}}}

ParsingTopConcepts(fs) == {Row(f, TRUE) : f \in {g \in fs : g.rel = "top"}}

ParsingPrefLabels(fs) == {Row(f, TRUE) : f \in {g \in fs : g.rel = "label"}}

(* A typed literal of a long section is labelled with the role of the last *)
(* resource met before: with none met so far the access fails and the rest *)
(* of the form is not drawn.                                                *)
Fails(fs, i) ==
  LET p == PropertyOrder[i] IN
  /\ IsLong(fs, p)
  /\ \E f \in fs : f.rel = p /\ f.o \in Typed
  /\ ~ \E f \in fs, j \in 1..i : f.rel = PropertyOrder[j] /\ f.o \in Resource

ParsingProperties(fs) ==
  LET reached == {PropertyOrder[i] : i \in {j \in DOMAIN PropertyOrder :
                                              \A k \in 1..j : ~ Fails(fs, k)}}
  IN {Row(f, Own(f) \/ IsLong(fs, f.rel)) : f \in {g \in fs : g.rel \in reached}}

Description(n, src, facts) ==
  LET fs == About(n, src, facts) IN
  ParsingType(fs) \cup ParsingSuperTypes(fs, src) \cup ParsingDomains(fs)
    \cup ParsingRanges(fs) \cup ParsingFacets(fs) \cup ParsingTopConcepts(fs)
    \cup ParsingPrefLabels(fs) \cup ParsingProperties(fs)

Refreshed(es, facts) ==
  [i \in DOMAIN es |->
     [es[i] EXCEPT !.of = es[i].typed,
                   !.shown = Description(es[i].typed, es[i].src, facts)]]

EditorOn(n, src, first, scheme) ==
  [src |-> src, actual |-> n, typed |-> n, first |-> first, scheme |-> scheme,
   of |-> n, shown |-> Description(n, src, own)]

Top == editors[Len(editors)]
IsOpen(srcs) == editors # <<>> /\ Top.src \in srcs

(* The rows or list items of one section of the editor on top. *)
Items(rel) == {it \in Top.shown : it.rel = rel}
IsList(rel) == Cardinality(Items(rel)) > RowLimit

(* A command that succeeded: the event it fires refreshes every editor. *)
Commit(facts) ==
  /\ own' = facts
  /\ editors' = Refreshed(editors, facts)
  /\ told' = {}
  /\ UNCHANGED <<role, timers, vocabulary>>

(***************************************************************************)
(* Dialogs: the choices within the bound.                                   *)
(***************************************************************************)
Choices(s, rel) == {f \in vocabulary.facts : f.s = s /\ f.rel = rel}

ChosenClass(s, rel) == {f \in Choices(s, rel) : role[f.o] = "cls"}

ChosenProperty(s, rel) == {f \in Choices(s, rel) : role[f.o] \in PropertyRoles}

ChosenConcept(s, rel) == {f \in Choices(s, rel) : role[f.o] = "concept"}

(* The range of a datatype property is chosen from a fixed list of types.  *)
ChosenRange == IF Top.src = "objectProperty" THEN ChosenClass(Top.typed, "range")
               ELSE Choices(Top.typed, "range")

Init ==
  /\ role = InitialRole
  /\ own = {}
  /\ editors = <<>>
  /\ timers = {}
  /\ told = {}
  /\ vocabulary \in Vocabularies

(***************************************************************************)
(* Windows                                                                 *)
(***************************************************************************)

(* A panel opens the first editor; the concept panel passes its scheme. *)
OpenEditor ==
  /\ editors = <<>>
  /\ \E n \in vocabulary.names, scheme \in Named("conceptScheme") \cup {AnyScheme} :
       /\ role[n] # "none"
       /\ role[n] # "concept" => scheme = AnyScheme
       /\ editors' = <<EditorOn(n, role[n], TRUE, scheme)>>
  /\ told' = {}
  /\ UNCHANGED <<role, own, timers, vocabulary>>

(* The kind of editor a double click on a value opens. *)
Opened(it) ==
  CASE it.rel \in {"type", "domain", "range"} -> "cls"
    [] it.rel \in {"super", "inverse"}        -> Top.src
    [] it.rel = "top"                         -> "concept"
    [] it.rel \in ValueProperty ->
         IF role[it.o] \in {"cls", "individual", "concept", "conceptScheme"}
         THEN role[it.o] ELSE "property"

(* An editor opened from another one may not rename, and knows no scheme.  *)
(* The row of a value opens one only for the kinds of resources it knows.   *)
ResourceDblClick ==
  /\ IsOpen(Roles) /\ Len(editors) < MaxEditors
  /\ \E it \in Top.shown :
       /\ it.o \in Resource /\ it.rel \notin {"label", "facet"}
       /\ it.rel \in ValueProperty /\ ~ IsList(it.rel) => Opened(it) # "property"
       /\ it.rel = "range" => Top.src = "objectProperty"
       /\ editors' = Append(editors, EditorOn(it.o, Opened(it), FALSE, AnyScheme))
  /\ told' = {}
  /\ UNCHANGED <<role, own, timers, vocabulary>>

(***************************************************************************)
(* Definitions named Mut... are plausible mistakes.  No action uses them:  *)
(* each is put in the place of the definition it follows the name of, to   *)
(* show that a property would notice.                                       *)
(***************************************************************************)

(* The opener draws every editor again; a closed window drops its timers. *)
OnClose ==
  /\ editors # <<>>
  /\ LET rest == SubSeq(editors, 1, Len(editors) - 1) IN
       editors' = Refreshed(rest, own)
  /\ timers' = {t \in timers : t.editor < Len(editors)}
  /\ told' = {}
  /\ UNCHANGED <<role, own, vocabulary>>

TypeName ==
  /\ editors # <<>>
  /\ \E n \in vocabulary.names \ {Top.typed} :
       editors' = [editors EXCEPT ![Len(editors)].typed = n]
  /\ told' = {}
  /\ UNCHANGED <<role, own, timers, vocabulary>>

(* Rename moves the resource and every own fact about it to the new name,  *)
(* if that is free.  The refresh reads the text, which is the new name.     *)
CanRename(n) ==
  Top.first /\ (Top.src \in {"concept", "conceptScheme"} \/ \A f \in Imported : f.s # n)

MutRename ==
  /\ editors # <<>>
  /\ LET old == Top.actual
         new == Top.typed
         Sub(x) == IF x = old THEN new ELSE x
         renamed == {Fact(Sub(f.s), Sub(f.rel), Sub(f.o), f.lang) : f \in own}
     IN /\ CanRename(old)
        /\ Exists(old) /\ ~ Exists(new)
        /\ role' = [role EXCEPT ![new] = role[old], ![old] = "none"]
        /\ own' = renamed
        /\ editors' = Refreshed(editors, renamed)
  /\ told' = {}
  /\ UNCHANGED <<timers, vocabulary>>

Rename ==
  /\ editors # <<>>
  /\ LET old == Top.actual
         new == Top.typed
         Sub(x) == IF x = old THEN new ELSE x
         renamed == {Fact(Sub(f.s), Sub(f.rel), Sub(f.o), f.lang) : f \in own}
         named == [editors EXCEPT ![Len(editors)].actual = new]
     IN /\ CanRename(old)
        /\ Exists(old) /\ ~ Exists(new)
        /\ role' = [role EXCEPT ![new] = role[old], ![old] = "none"]
        /\ own' = renamed
        /\ editors' = Refreshed(named, renamed)
  /\ told' = {}
  /\ UNCHANGED <<timers, vocabulary>>

(***************************************************************************)
(* Types, super classes, super properties, domains and ranges              *)
(***************************************************************************)

AddType ==
  /\ IsOpen({"cls", "individual", "concept", "conceptScheme"})
  /\ \E f \in ChosenClass(Top.actual, "type") : Commit(own \cup {f})

RemoveType ==
  /\ IsOpen({"cls", "individual", "concept", "conceptScheme"})
  /\ \E it \in Items("type") :
       it.removable /\ Commit(own \ {Fact(Top.actual, "type", it.o, NoLang)})

AddSuperClass ==
  /\ IsOpen({"cls"})
  /\ \E f \in ChosenClass(Top.actual, "super") : Commit(own \cup {f})

RemoveSuperClass ==
  /\ IsOpen({"cls"})
  /\ \E it \in Items("super") :
       it.removable /\ Commit(own \ {Fact(Top.actual, "super", it.o, NoLang)})

(* The axioms of properties are set on the text of the name field, and the *)
(* server does not ask whether such a property exists.  The dialogs of      *)
(* ranges and super properties are followed by a refresh however they end.  *)
InsertDomain ==
  /\ IsOpen(PropertyRoles)
  /\ \E f \in ChosenClass(Top.typed, "domain") : Commit(own \cup {f})

MutRemoveDomain ==
  /\ IsOpen(PropertyRoles)
  /\ \E it \in Items("domain") :
       it.removable /\ own' = own \ {Fact(Top.typed, "domain", it.o, NoLang)}
  /\ told' = {}
  /\ UNCHANGED <<role, editors, timers, vocabulary>>

RemoveDomain ==
  /\ IsOpen(PropertyRoles)
  /\ \E it \in Items("domain") :
       it.removable /\ Commit(own \ {Fact(Top.typed, "domain", it.o, NoLang)})

(* A datatype property that has a range may not be given another one while *)
(* the ranges are rows; a literal range is chosen from a fixed list.        *)
InsertRange ==
  /\ IsOpen(PropertyRoles \ {"annotationProperty"})
  /\ Top.src = "datatypeProperty" => Items("range") = {} \/ IsList("range")
  /\ \/ Commit(own)
     \/ \E f \in ChosenRange : Commit(own \cup {f})

RemoveRange ==
  /\ IsOpen(PropertyRoles \ {"annotationProperty"})
  /\ \E it \in Items("range") :
       it.removable /\ Commit(own \ {Fact(Top.typed, "range", it.o, NoLang)})

AddSuperProperty ==
  /\ IsOpen(PropertyRoles)
  /\ \/ Commit(own)
     \/ \E f \in ChosenProperty(Top.typed, "super") : Commit(own \cup {f})

RemoveSuperProperty ==
  /\ IsOpen(PropertyRoles)
  /\ \E it \in Items("super") :
       \/ it.removable /\ Commit(own \ {Fact(Top.typed, "super", it.o, NoLang)})
       \/ ~ it.removable /\ IsList("super") /\ Commit(own)

(***************************************************************************)
(* Characteristics and inverses of object properties                       *)
(***************************************************************************)

(* Removals of both kinds name the value's type "resource", which the      *)
(* server takes for a blank node it does not know: it refuses them.         *)
ChangeFacets ==
  /\ IsOpen({"objectProperty"})
  /\ \E x \in Facet :
       LET ticked == {it \in Items("facet") : it.o = x} IN
       \/ /\ ticked = {} /\ Fact(Top.actual, "facet", x, NoLang) \in vocabulary.facts
          /\ Commit(own \cup {Fact(Top.actual, "facet", x, NoLang)})
       \/ /\ ticked # {}
          /\ editors' = [editors EXCEPT ![Len(editors)].shown = @ \ ticked]
          /\ told' = {}
          /\ UNCHANGED <<role, own, timers, vocabulary>>

AddInverseOf ==
  /\ IsOpen({"objectProperty"})
  /\ \/ Commit(own)
     \/ \E f \in ChosenProperty(Top.actual, "inverse") : Commit(own \cup {f})

RemoveInverseOf ==
  /\ IsOpen({"objectProperty"})
  /\ Items("inverse") # {}
  /\ told' = {}
  /\ UNCHANGED <<role, own, editors, timers, vocabulary>>

(***************************************************************************)
(* Property values                                                         *)
(***************************************************************************)

(* The kinds of values the dialogs let the user add, by the rngType.       *)
Offered(rngType) ==
  CASE rngType = "resource"     -> Resource
    [] rngType = "plainLiteral" -> Text
    [] rngType = "typedLiteral" -> Typed
    [] rngType = "literal"      -> Text \cup Typed
    [] rngType = "undetermined" -> Resource \cup Text \cup Typed
    [] rngType = "inconsistent" -> {}

(* "Add Existing Property Value" needs a resource that exists.              *)
AddExisting(f) == f.o \in Resource /\ Exists(f.o) /\ Commit(own \cup {f})

(* "Create and add Property Value" asks for a name, and makes what it      *)
(* names an instance of the selected class.                                 *)
Bind(f) ==
  \E k \in Named("cls") :
    LET facts == own \cup {f, Fact(f.o, "type", k, NoLang)} IN
    /\ f.o \in Resource
    /\ role' = [role EXCEPT ![f.o] = IF @ = "none" THEN "individual" ELSE @]
    /\ own' = facts
    /\ editors' = Refreshed(editors, facts)
    /\ told' = {}
    /\ UNCHANGED <<timers, vocabulary>>

AddTyped(f) == f.o \in Typed /\ Commit(own \cup {f})

AddPlain(f) == f.o \in Text /\ Commit(own \cup {f})

(* A dialog that is closed without its Cancel button is still followed by  *)
(* a refresh.                                                               *)
CreateAndAddPropValue ==
  /\ IsOpen(Roles)
  /\ \E p \in ValueProperty :
       \/ Commit(own)
       \/ \E f \in Choices(Top.actual, p) :
            /\ f.o \in Offered(RangeType[p])
            /\ AddExisting(f) \/ Bind(f) \/ AddTyped(f) \/ AddPlain(f)

(* In rows the language of a plain literal is looked up by the text alone, *)
(* which finds the first of the rows with this text.                       *)
Removed(it) ==
  IF it.o \in Text /\ ~ IsList(it.rel)
  THEN {Fact(Top.actual, it.rel, it.o, row.lang) :
          row \in {r \in Top.shown : r.rel \in ValueProperty /\ r.o = it.o /\ ~ IsList(r.rel)}}
  ELSE {Fact(Top.actual, it.rel, it.o, it.lang)}

RemovePropValue ==
  /\ IsOpen(Roles)
  /\ \E it \in Top.shown :
       /\ it.rel \in ValueProperty
       /\ \/ it.removable /\ \E f \in Removed(it) : Commit(own \ {f})
          \/ ~ it.removable /\ IsList(it.rel) /\ Commit(own)

(***************************************************************************)
(* SKOS: labels, top concepts and broader concepts                         *)
(***************************************************************************)

AddPrefLabel ==
  /\ IsOpen({"concept", "conceptScheme"})
  /\ \E f \in Choices(Top.actual, "label") :
       LET replaced == {g \in own : g.s = f.s /\ g.rel = "label" /\ g.lang = f.lang} IN
       Commit((own \ replaced) \cup {f})

RemovePrefLabel ==
  /\ IsOpen({"concept", "conceptScheme"})
  /\ \E it \in Items("label") : Commit(own \ {Fact(Top.actual, "label", it.o, it.lang)})

AddTopConcept ==
  /\ IsOpen({"conceptScheme"})
  /\ \E f \in ChosenConcept(Top.typed, "top") : Exists(f.s) /\ Commit(own \cup {f})

RemoveTopConcept ==
  /\ IsOpen({"conceptScheme"})
  /\ Exists(Top.typed)
  /\ \E it \in Items("top") : Commit(own \ {Fact(Top.typed, "top", it.o, NoLang)})

AddBroaderConcept ==
  /\ IsOpen({"concept"})
  /\ \E f \in ChosenConcept(Top.actual, "super") : Commit(own \cup {f})

(* The number of broader concepts a window counts: the items of the list,  *)
(* whatever they are, or the rows of a concept.                             *)
BroadersDrawn(e) ==
  LET supers == {it \in e.shown : it.rel = "super"} IN
  IF Cardinality(supers) > RowLimit \/ e.src = "concept" THEN Cardinality(supers) ELSE 0

(* Every open editor takes the event for its own.  One that showed a       *)
(* single broader concept says that the concept has none left, and, if it  *)
(* knows the current scheme, offers to make it a top concept a moment later.*)
MutSkosBroaderConceptRemovedHandler(c) ==
  /\ told' = IF \E i \in DOMAIN editors : BroadersDrawn(editors[i]) = 0 THEN {c} ELSE {}
  /\ UNCHANGED timers

SkosBroaderConceptRemovedHandler(c) ==
  LET telling == {i \in DOMAIN editors : BroadersDrawn(editors[i]) = 1}
      asking == {i \in telling : editors[i].scheme # AnyScheme}
  IN /\ told' = IF telling = {} THEN {} ELSE {c}
     /\ \E accepted \in SUBSET asking :
          timers' = timers \cup {[editor |-> i, scheme |-> editors[i].scheme, concept |-> c] :
                                   i \in accepted}

RemoveBroaderConcept ==
  /\ IsOpen({"concept"})
  /\ \E it \in Items("super") :
       LET facts == own \ {Fact(Top.actual, "super", it.o, NoLang)} IN
       /\ it.removable
       /\ Exists(Top.actual) /\ Exists(it.o)
       /\ own' = facts
       /\ SkosBroaderConceptRemovedHandler(Top.actual)
       /\ editors' = Refreshed(editors, facts)
  /\ UNCHANGED <<role, vocabulary>>

(* The delayed request of an accepted offer.                               *)
MakeTopConcept ==
  /\ \E t \in timers :
       LET facts == IF Exists(t.scheme) /\ Exists(t.concept)
                    THEN own \cup {Fact(t.scheme, "top", t.concept, NoLang)} ELSE own
       IN /\ timers' = timers \ {t}
          /\ own' = facts
          /\ editors' = IF facts = own THEN editors ELSE Refreshed(editors, facts)
  /\ told' = {}
  /\ UNCHANGED <<role, vocabulary>>

Next ==
  \/ OpenEditor \/ ResourceDblClick \/ OnClose \/ TypeName \/ Rename
  \/ AddType \/ RemoveType \/ AddSuperClass \/ RemoveSuperClass
  \/ InsertDomain \/ RemoveDomain \/ InsertRange \/ RemoveRange
  \/ AddSuperProperty \/ RemoveSuperProperty
  \/ ChangeFacets \/ AddInverseOf \/ RemoveInverseOf
  \/ CreateAndAddPropValue \/ RemovePropValue
  \/ AddPrefLabel \/ RemovePrefLabel \/ AddTopConcept \/ RemoveTopConcept
  \/ AddBroaderConcept \/ RemoveBroaderConcept \/ MakeTopConcept

Spec == Init /\ [][Next]_vars

(***************************************************************************)
(* Properties                                                              *)
(***************************************************************************)

(* Type invariant: names denote roles, facts are well formed, and every    *)
(* window has the fields of an editor.                                      *)
TypeOK ==
  /\ role \in [Resource -> Roles \cup {"none"}]
  /\ \A f \in own : f.s \in Resource /\ f.o \in Object
  /\ Len(editors) <= MaxEditors
  /\ \A i \in DOMAIN editors :
       /\ editors[i].src \in Roles
       /\ {editors[i].actual, editors[i].typed, editors[i].of} \subseteq Resource
       /\ editors[i].first = (i = 1)
       /\ \A it \in editors[i].shown : it.o \in Object /\ it.removable \in BOOLEAN
  /\ \A t \in timers : t.editor \in DOMAIN editors
  /\ told \subseteq Resource
  /\ vocabulary \in Vocabularies

(* Every open editor shows exactly the facts of the name it last drew,     *)
(* however deep it lies under other editors and whichever of them edits:   *)
(* no command forgets the event that refreshes the others.  Only an        *)
(* unticked characteristic may be missing, and a section of typed literals *)
(* too long for rows.                                                       *)
EditorsAreCurrent ==
  \A i \in DOMAIN editors :
    LET e == editors[i]
        fs == About(e.of, e.src, own)
        drawn == {Fact(e.of, it.rel, it.o, it.lang) : it \in e.shown}
        long == \E p \in ValueProperty : IsLong(fs, p) /\ \E f \in fs : f.rel = p /\ f.o \in Typed
    IN /\ drawn \subseteq fs
       /\ \A f \in fs \ drawn : f.rel = "facet" \/ (long /\ f.rel \in ValueProperty)

(* The two together: whatever windows are open, each draws what its name   *)
(* has.                                                                     *)
EditorsAreSound == TypeOK /\ EditorsAreCurrent

(* No editor is left with a name that was changed under it: a name that it *)
(* sends with its commands and that denotes a resource does so as long as   *)
(* the window is open, which is why only the first editor may rename.       *)
EditorsKeepTheirNames ==
  \A i \in DOMAIN editors \cap DOMAIN editors' :
    role[editors[i].actual] # "none" => role'[editors'[i].actual] # "none"

(* The first statement about a name that denotes nothing is an axiom of a  *)
(* property, typed into the name field: no other command makes one, unless *)
(* such a name was the value of a property, and was opened from there.      *)
StrayFactsArePropertyAxioms ==
  \A f \in own' \ own :
    role'[f.s] = "none" =>
      \/ f.rel \in {"domain", "range", "super"}
      \/ Exists(f.s)
      \/ Len(editors) > 1 /\ f.s = Top.actual

(* Names are honoured by every step: those that windows hold, and those    *)
(* that denote nothing.                                                     *)
NamesAreHonoured ==
  [][EditorsKeepTheirNames /\ StrayFactsArePropertyAxioms]_vars

(* When the editor of a concept takes away its last broader concept, the   *)
(* user is told that the concept has none left.                             *)
HasBroader(c, facts) == \E f \in facts \cup Imported : f.s = c /\ f.rel = "super"
LastBroaderIsReported ==
  [][ \A c \in Resource :
        ( /\ editors # <<>> /\ Top.src = "concept" /\ Top.actual = c /\ Top.of = c
          /\ role' = role /\ HasBroader(c, own) /\ ~ HasBroader(c, own') )
        => told' = {c} ]_vars
=============================================================================
