--------------------------- MODULE Editor_proofs ---------------------------
(***************************************************************************)
(* The windows of the resource editor: each shows what its name has, none  *)
(* is left with a name that was changed under it, and the last broader     *)
(* concept is reported, for any resources, properties, facts and number of *)
(* windows.                                                                *)
(*                                                                         *)
(* What an editor shows is, but for characteristics that were unticked,    *)
(* exactly what would be drawn now (Drawn): every command that changes a   *)
(* fact draws all editors again.  Most commands are of one kind (Edit):    *)
(* facts are taken away, facts of the vocabulary are added, and the event  *)
(* is fired; what is proved of the kind holds of each.                     *)
(***************************************************************************)
EXTENDS Editor, SequenceTheorems, FiniteSetTheorems, TLAPS

Langs ==
  {NoLang} \cup {f.lang : f \in Imported}
           \cup {f.lang : f \in UNION {v.facts : v \in Vocabularies}}

Proper(f) == WellFormed(f) /\ f.lang \in Langs

Rows == [rel : FixedSections \cup ValueProperty, o : Object, lang : Langs, removable : BOOLEAN]

Windows ==
  [src : Roles, actual : Resource, typed : Resource, first : BOOLEAN,
   scheme : Resource \cup {AnyScheme}, of : Resource, shown : SUBSET Rows]

Types ==
  /\ role \in [Resource -> Roles \cup {"none"}]
  /\ \A f \in own : Proper(f)
  /\ editors \in Seq(Windows)
  /\ Len(editors) <= MaxEditors
  /\ \A i \in DOMAIN editors : editors[i].first = (i = 1)
  /\ \A t \in timers : t.editor \in DOMAIN editors
                       /\ t.scheme \in Resource /\ t.concept \in Resource
  /\ told \subseteq Resource
  /\ vocabulary \in Vocabularies

(* Only a characteristic that was unticked is not shown.                    *)
Shows(e, facts) ==
  /\ e.shown \subseteq Description(e.of, e.src, facts)
  /\ \A r \in Description(e.of, e.src, facts) \ e.shown : r.rel = "facet"

Drawn == \A i \in DOMAIN editors : Shows(editors[i], own)

(* The first editor was opened on a resource, and is the one that renames.  *)
FirstNamed == editors # <<>> => role[editors[1].actual] # "none"

IInv == Types /\ Drawn /\ FirstNamed

-----------------------------------------------------------------------------
(***************************************************************************)
(* What is drawn.                                                          *)
(***************************************************************************)
LEMMA SectionsAre ==
  ASSUME NEW src \in Roles
  PROVE  Sections(src) \subseteq FixedSections \cup ValueProperty
BY DEF Sections, FixedSections, Roles

LEMMA Vocabulary ==
  ASSUME Types
  PROVE  /\ vocabulary.names \subseteq Resource
         /\ \A f \in vocabulary.facts : Proper(f)
BY EditorAssumption DEF Types, Proper, Langs

LEMMA AboutIs ==
  ASSUME NEW n, NEW src \in Roles, NEW facts, \A f \in facts : Proper(f)
  PROVE  \A f \in About(n, src, facts) :
           /\ f = Fact(n, f.rel, f.o, f.lang) /\ f.s = n
           /\ f.rel \in FixedSections \cup ValueProperty
           /\ f.o \in Object /\ f.lang \in Langs
BY EditorAssumption, SectionsAre DEF About, Proper, WellFormed, Langs

LEMMA RowIs ==
  ASSUME NEW f, NEW b \in BOOLEAN
  PROVE  /\ Row(f, b).rel = f.rel /\ Row(f, b).o = f.o /\ Row(f, b).lang = f.lang
         /\ Row(f, b).removable = b
         /\ f.rel \in FixedSections \cup ValueProperty /\ f.o \in Object /\ f.lang \in Langs
              => Row(f, b) \in Rows
BY DEF Row, Rows

(* A row is drawn of a fact, and of each fact but those the form stops at.  *)
LEMMA DrawnFromFacts ==
  ASSUME NEW n, NEW src \in Roles, NEW facts
  PROVE  \A r \in Description(n, src, facts) :
           \E f \in About(n, src, facts), b \in BOOLEAN : r = Row(f, b)
<1> DEFINE fs == About(n, src, facts)
<1> HIDE DEF fs
<1>1. \A r \in ParsingType(fs) : \E f \in fs, b \in BOOLEAN : r = Row(f, b)
  BY DEF ParsingType, Own
<1>2. \A r \in ParsingSuperTypes(fs, src) : \E f \in fs, b \in BOOLEAN : r = Row(f, b)
  <2> DEFINE lenient == src \in PropertyRoles \cup {"concept"} /\ IsLong(fs, "super")
  <2>1. \A f : (Own(f) \/ lenient) \in BOOLEAN  OBVIOUS
  <2> QED  BY <2>1 DEF ParsingSuperTypes
<1>3. \A r \in ParsingDomains(fs) : \E f \in fs, b \in BOOLEAN : r = Row(f, b)
  BY DEF ParsingDomains, Own
<1>4. \A r \in ParsingRanges(fs) : \E f \in fs, b \in BOOLEAN : r = Row(f, b)
  BY DEF ParsingRanges, Own
<1>5. \A r \in ParsingFacets(fs) : \E f \in fs, b \in BOOLEAN : r = Row(f, b)
  BY DEF ParsingFacets
<1>6. \A r \in ParsingTopConcepts(fs) : \E f \in fs, b \in BOOLEAN : r = Row(f, b)
  BY DEF ParsingTopConcepts
<1>7. \A r \in ParsingPrefLabels(fs) : \E f \in fs, b \in BOOLEAN : r = Row(f, b)
  BY DEF ParsingPrefLabels
<1>8. \A r \in ParsingProperties(fs) : \E f \in fs, b \in BOOLEAN : r = Row(f, b)
  <2>1. \A f : (Own(f) \/ IsLong(fs, f.rel)) \in BOOLEAN  OBVIOUS
  <2> QED  BY <2>1 DEF ParsingProperties
<1> QED  BY <1>1, <1>2, <1>3, <1>4, <1>5, <1>6, <1>7, <1>8 DEF Description, fs

LEMMA FixedIsDrawn ==
  ASSUME NEW n, NEW src \in Roles, NEW facts,
         NEW f \in About(n, src, facts), f.rel \in FixedSections
  PROVE  \E b \in BOOLEAN : Row(f, b) \in Description(n, src, facts)
<1> DEFINE fs == About(n, src, facts)
<1> HIDE DEF fs
<1>0. f \in fs  BY DEF fs
<1>1. \A b : Row(f, b) \in ParsingType(fs) \cup ParsingSuperTypes(fs, src) \cup ParsingDomains(fs)
             \cup ParsingRanges(fs) \cup ParsingFacets(fs) \cup ParsingTopConcepts(fs)
             \cup ParsingPrefLabels(fs)
        => Row(f, b) \in Description(n, src, facts)
  BY DEF Description, fs
<1>2. CASE f.rel = "super"
  <2> DEFINE b == Own(f) \/ (src \in PropertyRoles \cup {"concept"} /\ IsLong(fs, "super"))
  <2>1. b \in BOOLEAN  OBVIOUS
  <2>2. Row(f, b) \in ParsingSuperTypes(fs, src)  BY <1>0, <1>2 DEF ParsingSuperTypes
  <2> QED  BY <1>1, <2>1, <2>2
<1>3. CASE f.rel \in {"type", "domain", "range"}
  <2>1. Own(f) \in BOOLEAN  BY DEF Own
  <2>2. Row(f, Own(f)) \in ParsingType(fs) \cup ParsingDomains(fs) \cup ParsingRanges(fs)
    BY <1>0, <1>3 DEF ParsingType, ParsingDomains, ParsingRanges
  <2> QED  BY <1>1, <2>1, <2>2
<1>4. CASE f.rel \in {"facet", "inverse"}
  BY <1>0, <1>1, <1>4 DEF ParsingFacets
<1>5. CASE f.rel \in {"top", "label"}
  BY <1>0, <1>1, <1>5 DEF ParsingTopConcepts, ParsingPrefLabels
<1> QED  BY <1>2, <1>3, <1>4, <1>5 DEF FixedSections

(* A value is not drawn only if its section, or one before it, has a typed  *)
(* literal in a list.                                                       *)
LEMMA ValueIsDrawn ==
  ASSUME NEW n, NEW src \in Roles, NEW facts,
         NEW f \in About(n, src, facts), f.rel \in ValueProperty
  PROVE  \/ \E b \in BOOLEAN : Row(f, b) \in Description(n, src, facts)
         \/ LET fs == About(n, src, facts)
            IN \E p \in ValueProperty : IsLong(fs, p) /\ \E g \in fs : g.rel = p /\ g.o \in Typed
<1> DEFINE fs == About(n, src, facts)
<1> HIDE DEF fs
<1>0. f \in fs  BY DEF fs
<1>1. PICK i \in DOMAIN PropertyOrder : PropertyOrder[i] = f.rel  BY EditorAssumption
<1>2. i \in Nat /\ 1..i \subseteq DOMAIN PropertyOrder
  BY EditorAssumption
<1>3. CASE \E k \in 1..i : Fails(fs, k)
  <2>1. PICK k \in 1..i : Fails(fs, k)  BY <1>3
  <2>2. PropertyOrder[k] \in ValueProperty  BY <1>2, <2>1, EditorAssumption, ElementOfSeq
  <2> QED  BY <2>1, <2>2 DEF Fails, fs
<1>4. CASE \A k \in 1..i : ~ Fails(fs, k)
  <2> DEFINE b == Own(f) \/ IsLong(fs, f.rel)
  <2>1. b \in BOOLEAN  OBVIOUS
  <2>2. Row(f, b) \in ParsingProperties(fs)  BY <1>0, <1>1, <1>4 DEF ParsingProperties
  <2> QED  BY <2>1, <2>2 DEF Description, fs
<1> QED  BY <1>3, <1>4

LEMMA DescriptionIsRows ==
  ASSUME NEW n, NEW src \in Roles, NEW facts, \A f \in facts : Proper(f)
  PROVE  Description(n, src, facts) \subseteq Rows
BY DrawnFromFacts, AboutIs, RowIs

-----------------------------------------------------------------------------
(***************************************************************************)
(* Drawing all windows again.                                              *)
(***************************************************************************)
LEMMA WindowsRefreshed ==
  ASSUME NEW es \in Seq(Windows), NEW facts, \A f \in facts : Proper(f)
  PROVE  /\ Refreshed(es, facts) \in Seq(Windows)
         /\ Len(Refreshed(es, facts)) = Len(es)
         /\ DOMAIN Refreshed(es, facts) = DOMAIN es
         /\ \A i \in DOMAIN es :
              LET e == Refreshed(es, facts)[i]
              IN /\ e.src = es[i].src /\ e.actual = es[i].actual /\ e.typed = es[i].typed
                 /\ e.first = es[i].first /\ e.scheme = es[i].scheme
                 /\ e.of = es[i].typed
                 /\ e.shown = Description(es[i].typed, es[i].src, facts)
                 /\ Shows(e, facts)
<1> DEFINE rs == Refreshed(es, facts)
           Again(e) == [e EXCEPT !.of = e.typed, !.shown = Description(e.typed, e.src, facts)]
<1>1. DOMAIN es = 1..Len(es) /\ Len(es) \in Nat  OBVIOUS
<1>2. rs = [i \in 1..Len(es) |-> Again(es[i])]  BY <1>1 DEF Refreshed
<1>3. ASSUME NEW i \in DOMAIN es
      PROVE  /\ Again(es[i]) \in Windows
             /\ Again(es[i]).src = es[i].src /\ Again(es[i]).actual = es[i].actual
             /\ Again(es[i]).typed = es[i].typed
             /\ Again(es[i]).first = es[i].first /\ Again(es[i]).scheme = es[i].scheme
             /\ Again(es[i]).of = es[i].typed
             /\ Again(es[i]).shown = Description(es[i].typed, es[i].src, facts)
  <2>1. es[i] \in Windows  BY <1>3, ElementOfSeq
  <2>2. Description(es[i].typed, es[i].src, facts) \subseteq Rows
    BY <2>1, DescriptionIsRows DEF Windows
  <2> QED  BY <2>1, <2>2 DEF Windows
<1>4. rs \in [1..Len(es) -> Windows]
  <2> HIDE DEF Again, rs
  <2> QED  BY <1>1, <1>2, <1>3
<1>5. rs \in Seq(Windows) /\ Len(rs) = Len(es) /\ DOMAIN rs = DOMAIN es
  <2> HIDE DEF rs
  <2> QED  BY <1>1, <1>4, SeqDef
<1>6. \A i \in DOMAIN es : rs[i] = Again(es[i])
  <2> HIDE DEF Again, rs
  <2> QED  BY <1>1, <1>2
<1>7. \A i \in DOMAIN es : Shows(rs[i], facts)
  <2> HIDE DEF Again, rs
  <2> QED  BY <1>3, <1>6 DEF Shows
<1> HIDE DEF Again, rs
<1> QED  BY <1>3, <1>5, <1>6, <1>7 DEF rs

LEMMA RefreshKeeps ==
  ASSUME IInv, NEW facts, \A f \in facts : Proper(f),
         own' = facts, editors' = Refreshed(editors, facts), vocabulary' = vocabulary,
         role' \in [Resource -> Roles \cup {"none"}],
         \A n \in Resource : role[n] # "none" => role'[n] # "none",
         \A t \in timers' : t.editor \in DOMAIN editors
                            /\ t.scheme \in Resource /\ t.concept \in Resource,
         told' \subseteq Resource
  PROVE  /\ IInv'
         /\ DOMAIN editors' = DOMAIN editors
         /\ \A i \in DOMAIN editors :
              editors'[i].actual = editors[i].actual /\ editors[i].actual \in Resource
<1>1. Types /\ FirstNamed  BY DEF IInv
<1>2. /\ editors' \in Seq(Windows) /\ Len(editors') = Len(editors)
      /\ DOMAIN editors' = DOMAIN editors
      /\ \A i \in DOMAIN editors :
           /\ editors'[i].actual = editors[i].actual /\ editors'[i].first = editors[i].first
           /\ Shows(editors'[i], own')
  BY <1>1, WindowsRefreshed DEF Types
<1>3. \A i \in DOMAIN editors : editors[i].actual \in Resource
  <2>1. \A i \in DOMAIN editors : editors[i] \in Windows  BY <1>1, ElementOfSeq DEF Types
  <2> QED  BY <2>1 DEF Windows
<1>4. Types'  BY <1>1, <1>2 DEF Types
<1>5. Drawn'  BY <1>2 DEF Drawn
<1>6. FirstNamed'
  <2>1. editors' # <<>> => editors # <<>> /\ 1 \in DOMAIN editors  BY <1>1, <1>2 DEF Types
  <2> QED  BY <1>1, <1>2, <1>3, <2>1 DEF FirstNamed
<1> QED  BY <1>2, <1>3, <1>4, <1>5, <1>6 DEF IInv

(* A command that succeeded.                                                *)
LEMMA CommitKeeps ==
  ASSUME IInv, NEW facts, \A f \in facts : Proper(f), Commit(facts)
  PROVE  /\ IInv'
         /\ DOMAIN editors' = DOMAIN editors
         /\ \A i \in DOMAIN editors : editors'[i].actual = editors[i].actual
<1>1. Types  BY DEF IInv
<1>2. /\ own' = facts /\ editors' = Refreshed(editors, facts) /\ told' = {}
      /\ UNCHANGED <<role, timers, vocabulary>>
  BY DEF Commit
<1>3. /\ role' \in [Resource -> Roles \cup {"none"}] /\ told' \subseteq Resource
      /\ \A t \in timers' : t.editor \in DOMAIN editors
                            /\ t.scheme \in Resource /\ t.concept \in Resource
  BY <1>1, <1>2 DEF Types
<1> QED  BY <1>2, <1>3, RefreshKeeps

-----------------------------------------------------------------------------
(***************************************************************************)
(* Edits: X is taken away and Y is added.                                  *)
(***************************************************************************)
Edit(X, Y) ==
  /\ editors # <<>>
  /\ Commit((own \ X) \cup Y)
  /\ \A g \in X : Top.src = "concept" => g.rel # "super"
  /\ Y \subseteq vocabulary.facts
  /\ \A f \in Y : \/ f.s = Top.actual
                  \/ f.rel \in {"domain", "range", "super"}
                  \/ Exists(f.s)

IsEdit == \E X, Y : Edit(X, Y)

LEMMA NoEdit ==
  ASSUME editors # <<>>, Commit(own)
  PROVE  IsEdit
<1>1. own = (own \ {}) \cup {}  OBVIOUS
<1>2. Commit((own \ {}) \cup {})  BY <1>1
<1>3. Edit({}, {})  BY <1>2 DEF Edit
<1> QED  BY <1>3 DEF IsEdit

LEMMA Addition ==
  ASSUME editors # <<>>, NEW f \in vocabulary.facts, Commit(own \cup {f}),
         \/ f.s = Top.actual
         \/ f.rel \in {"domain", "range", "super"}
         \/ Exists(f.s)
  PROVE  IsEdit
<1>1. own \cup {f} = (own \ {}) \cup {f}  OBVIOUS
<1>2. Commit((own \ {}) \cup {f})  BY <1>1
<1>3. Edit({}, {f})  BY <1>2 DEF Edit
<1> QED  BY <1>3 DEF IsEdit

LEMMA Removal ==
  ASSUME editors # <<>>, NEW g, Commit(own \ {g}), Top.src = "concept" => g.rel # "super"
  PROVE  IsEdit
<1>1. own \ {g} = (own \ {g}) \cup {}  OBVIOUS
<1>2. Commit((own \ {g}) \cup {})  BY <1>1
<1>3. Edit({g}, {})  BY <1>2 DEF Edit
<1> QED  BY <1>3 DEF IsEdit

LEMMA FactIs == \A s, r, o, l : Fact(s, r, o, l).s = s /\ Fact(s, r, o, l).rel = r
BY DEF Fact

LEMMA ChoicesAre ==
  \A s, r : \A f \in Choices(s, r) : f \in vocabulary.facts /\ f.s = s /\ f.rel = r
BY DEF Choices

LEMMA AdditionsAreEdits ==
  ASSUME \/ AddType \/ AddSuperClass \/ InsertDomain \/ InsertRange \/ AddSuperProperty
         \/ AddInverseOf \/ AddTopConcept \/ AddBroaderConcept
  PROVE  IsEdit
<1>0. editors # <<>>
  BY DEF AddType, AddSuperClass, InsertDomain, InsertRange, AddSuperProperty, AddInverseOf,
       AddTopConcept, AddBroaderConcept, IsOpen
<1>1. CASE Commit(own)  BY <1>0, <1>1, NoEdit
<1>2. ASSUME NEW f \in vocabulary.facts, Commit(own \cup {f}),
             \/ f.s = Top.actual
             \/ f.rel \in {"domain", "range", "super"}
             \/ Exists(f.s)
      PROVE  IsEdit
  BY <1>0, <1>2, Addition
<1>3. CASE AddType  BY <1>2, <1>3, ChoicesAre DEF AddType, ChosenClass
<1>4. CASE AddSuperClass  BY <1>2, <1>4, ChoicesAre DEF AddSuperClass, ChosenClass
<1>5. CASE InsertDomain  BY <1>2, <1>5, ChoicesAre DEF InsertDomain, ChosenClass
<1>6. CASE InsertRange
  <2>1. \/ Commit(own)
        \/ \E f \in vocabulary.facts : f.rel = "range" /\ Commit(own \cup {f})
    BY <1>6, ChoicesAre DEF InsertRange, ChosenRange, ChosenClass
  <2> QED  BY <1>1, <1>2, <2>1
<1>7. CASE AddSuperProperty
  <2>1. \/ Commit(own)
        \/ \E f \in vocabulary.facts : f.rel = "super" /\ Commit(own \cup {f})
    BY <1>7, ChoicesAre DEF AddSuperProperty, ChosenProperty
  <2> QED  BY <1>1, <1>2, <2>1
<1>8. CASE AddInverseOf
  <2>1. \/ Commit(own)
        \/ \E f \in vocabulary.facts : f.s = Top.actual /\ Commit(own \cup {f})
    BY <1>8, ChoicesAre DEF AddInverseOf, ChosenProperty
  <2> QED  BY <1>1, <1>2, <2>1
<1>9. CASE AddTopConcept  BY <1>2, <1>9, ChoicesAre DEF AddTopConcept, ChosenConcept
<1>10. CASE AddBroaderConcept
  BY <1>2, <1>10, ChoicesAre DEF AddBroaderConcept, ChosenConcept
<1> QED  BY <1>3, <1>4, <1>5, <1>6, <1>7, <1>8, <1>9, <1>10

LEMMA RemovalsAreEdits ==
  ASSUME \/ RemoveType \/ RemoveSuperClass \/ RemoveDomain \/ RemoveRange
         \/ RemoveSuperProperty \/ RemovePropValue \/ RemovePrefLabel \/ RemoveTopConcept
  PROVE  IsEdit
<1>0. editors # <<>>
  BY DEF RemoveType, RemoveSuperClass, RemoveDomain, RemoveRange, RemoveSuperProperty,
       RemovePropValue, RemovePrefLabel, RemoveTopConcept, IsOpen
<1>1. CASE Commit(own)  BY <1>0, <1>1, NoEdit
<1>2. ASSUME NEW s, NEW r, NEW o, NEW l, Commit(own \ {Fact(s, r, o, l)}),
             Top.src = "concept" => r # "super"
      PROVE  IsEdit
  BY <1>0, <1>2, Removal, FactIs
<1>3. CASE RemoveType  BY <1>2, <1>3 DEF RemoveType
<1>4. CASE RemoveSuperClass  BY <1>2, <1>4 DEF RemoveSuperClass, IsOpen
<1>5. CASE RemoveDomain  BY <1>2, <1>5 DEF RemoveDomain
<1>6. CASE RemoveRange  BY <1>2, <1>6 DEF RemoveRange
<1>7. CASE RemoveSuperProperty
  BY <1>1, <1>2, <1>7 DEF RemoveSuperProperty, IsOpen, PropertyRoles
<1>8. CASE RemovePropValue
  <2>1. "super" \notin ValueProperty  BY EditorAssumption DEF FixedSections
  <2>2. \A it : it.rel \in ValueProperty =>
          \A f \in Removed(it) : \E s, r, o, l : f = Fact(s, r, o, l) /\ r # "super"
    BY <2>1 DEF Removed
  <2>3. Commit(own) \/ \E it, f : it.rel \in ValueProperty /\ f \in Removed(it) /\ Commit(own \ {f})
    BY <1>8 DEF RemovePropValue
  <2>4. ASSUME NEW it, NEW f, it.rel \in ValueProperty, f \in Removed(it), Commit(own \ {f})
        PROVE  IsEdit
    <3>1. PICK s, r, o, l : f = Fact(s, r, o, l) /\ r # "super"  BY <2>2, <2>4
    <3>2. Commit(own \ {Fact(s, r, o, l)})  BY <2>4, <3>1
    <3> QED  BY <1>2, <3>1, <3>2
  <2> QED  BY <1>1, <2>3, <2>4
<1>9. CASE RemovePrefLabel  BY <1>2, <1>9 DEF RemovePrefLabel
<1>10. CASE RemoveTopConcept  BY <1>2, <1>10 DEF RemoveTopConcept
<1> QED  BY <1>3, <1>4, <1>5, <1>6, <1>7, <1>8, <1>9, <1>10

LEMMA LabelIsEdit ==
  ASSUME AddPrefLabel
  PROVE  IsEdit
<1>1. editors # <<>>  BY DEF AddPrefLabel, IsOpen
<1>2. PICK f \in Choices(Top.actual, "label") :
        Commit((own \ {g \in own : g.s = f.s /\ g.rel = "label" /\ g.lang = f.lang}) \cup {f})
  BY DEF AddPrefLabel
<1>3. Edit({g \in own : g.s = f.s /\ g.rel = "label" /\ g.lang = f.lang}, {f})
  BY <1>1, <1>2, ChoicesAre DEF Edit
<1> QED  BY <1>3 DEF IsEdit

(* Of the dialogs of values, only one does more than an edit: it makes what *)
(* it names an instance.                                                    *)
Binding(f) ==
  /\ editors # <<>>
  /\ f \in vocabulary.facts /\ f.s = Top.actual
  /\ Bind(f)

LEMMA ValueIsEdit ==
  ASSUME CreateAndAddPropValue
  PROVE  IsEdit \/ \E f : Binding(f)
<1>1. editors # <<>>  BY DEF CreateAndAddPropValue, IsOpen
<1>2. CASE Commit(own)  BY <1>1, <1>2, NoEdit
<1>3. ASSUME NEW p \in ValueProperty, NEW f \in Choices(Top.actual, p), Commit(own \cup {f})
      PROVE  IsEdit
  BY <1>1, <1>3, Addition, ChoicesAre
<1>4. ASSUME NEW p \in ValueProperty, NEW f \in Choices(Top.actual, p), Bind(f)
      PROVE  Binding(f)
  BY <1>1, <1>4, ChoicesAre DEF Binding
<1> QED
  BY <1>2, <1>3, <1>4 DEF CreateAndAddPropValue, AddExisting, AddTyped, AddPlain

(* A characteristic is ticked, which is an edit, or unticked.               *)
Untick ==
  /\ editors # <<>>
  /\ \E x \in Facet :
       editors' = [editors EXCEPT ![Len(editors)].shown =
                     @ \ {it \in Items("facet") : it.o = x}]
  /\ told' = {}
  /\ UNCHANGED <<role, own, timers, vocabulary>>

LEMMA FacetIsEdit ==
  ASSUME ChangeFacets
  PROVE  IsEdit \/ Untick
<1>1. editors # <<>>  BY DEF ChangeFacets, IsOpen
<1>2. ASSUME NEW x \in Facet, Fact(Top.actual, "facet", x, NoLang) \in vocabulary.facts,
             Commit(own \cup {Fact(Top.actual, "facet", x, NoLang)})
      PROVE  IsEdit
  BY <1>1, <1>2, Addition, FactIs
<1> QED  BY <1>1, <1>2 DEF ChangeFacets, Untick

(* So much for the kinds of steps.                                          *)
LEMMA Kinds ==
  ASSUME Next
  PROVE  \/ IsEdit \/ Untick \/ \E f : Binding(f)
         \/ OpenEditor \/ ResourceDblClick \/ OnClose \/ TypeName \/ Rename
         \/ RemoveInverseOf \/ RemoveBroaderConcept \/ MakeTopConcept
BY AdditionsAreEdits, RemovalsAreEdits, LabelIsEdit, ValueIsEdit, FacetIsEdit DEF Next

-----------------------------------------------------------------------------
(***************************************************************************)
(* What each kind of step preserves, and what it may not do.               *)
(***************************************************************************)
Reports ==
  \A c \in Resource :
    ( /\ editors # <<>> /\ Top.src = "concept" /\ Top.actual = c /\ Top.of = c
      /\ role' = role /\ HasBroader(c, own) /\ ~ HasBroader(c, own') )
    => told' = {c}

Sound == IInv' /\ EditorsKeepTheirNames /\ StrayFactsArePropertyAxioms /\ Reports

LEMMA Same ==
  ASSUME UNCHANGED <<role, own>>,
         \A i \in DOMAIN editors \cap DOMAIN editors' : editors'[i].actual = editors[i].actual
  PROVE  EditorsKeepTheirNames /\ StrayFactsArePropertyAxioms /\ Reports
BY DEF EditorsKeepTheirNames, StrayFactsArePropertyAxioms, Reports

LEMMA TopIs ==
  ASSUME Types, editors # <<>>
  PROVE  /\ Len(editors) \in DOMAIN editors /\ Len(editors) \in Nat \ {0}
         /\ 1 \in DOMAIN editors
         /\ Top \in Windows
<1>1. editors \in Seq(Windows)  BY DEF Types
<1>2. DOMAIN editors = 1..Len(editors) /\ Len(editors) \in Nat /\ Len(editors) # 0
  BY <1>1
<1> QED  BY <1>1, <1>2, ElementOfSeq DEF Top

(* An editor on top of others may hold a name that denotes nothing, the     *)
(* first never does.                                                        *)
LEMMA OnlyFirstIsNamed ==
  ASSUME IInv, editors # <<>>, role[Top.actual] = "none"
  PROVE  Len(editors) > 1
<1>1. Types /\ role[editors[1].actual] # "none"  BY DEF IInv, FirstNamed
<1>2. Len(editors) \in Nat \ {0}  BY <1>1, TopIs
<1> QED  BY <1>1, <1>2 DEF Top

LEMMA EditSound ==
  ASSUME IInv, IsEdit
  PROVE  Sound
<1>1. PICK X, Y : Edit(X, Y)  BY DEF IsEdit
<1> DEFINE facts == (own \ X) \cup Y
<1>2. Types  BY DEF IInv
<1>3. /\ editors # <<>> /\ Commit(facts) /\ Y \subseteq vocabulary.facts
      /\ own' = facts /\ role' = role
  BY <1>1 DEF Edit, Commit
<1>4. \A f \in facts : Proper(f)  BY <1>2, <1>3, Vocabulary DEF Types
<1>5. /\ IInv'
      /\ \A i \in DOMAIN editors : editors'[i].actual = editors[i].actual
  <2> HIDE DEF facts
  <2> QED  BY <1>3, <1>4, CommitKeeps
<1>6. EditorsKeepTheirNames  BY <1>3, <1>5 DEF EditorsKeepTheirNames
<1>7. StrayFactsArePropertyAxioms
  <2> SUFFICES ASSUME NEW f \in own' \ own, role'[f.s] = "none"
               PROVE  \/ f.rel \in {"domain", "range", "super"}
                      \/ Exists(f.s)
                      \/ Len(editors) > 1 /\ f.s = Top.actual
    BY DEF StrayFactsArePropertyAxioms
  <2>1. \/ f.s = Top.actual
        \/ f.rel \in {"domain", "range", "super"}
        \/ Exists(f.s)
    BY <1>1, <1>3 DEF Edit
  <2> QED  BY <1>3, <2>1, OnlyFirstIsNamed
<1>8. Reports
  <2> SUFFICES ASSUME NEW c \in Resource, Top.src = "concept", HasBroader(c, own)
               PROVE  HasBroader(c, own')
    BY DEF Reports
  <2>1. PICK f \in own \cup Imported : f.s = c /\ f.rel = "super"  BY DEF HasBroader
  <2>2. f \in own' \cup Imported  BY <1>1, <1>3, <2>1 DEF Edit
  <2> QED  BY <2>1, <2>2 DEF HasBroader
<1> QED  BY <1>5, <1>6, <1>7, <1>8 DEF Sound

LEMMA EditorOnIs ==
  ASSUME Types, NEW n \in Resource, NEW src \in Roles, NEW first \in BOOLEAN,
         NEW scheme \in Resource \cup {AnyScheme}
  PROVE  /\ EditorOn(n, src, first, scheme) \in Windows
         /\ EditorOn(n, src, first, scheme).first = first
         /\ EditorOn(n, src, first, scheme).actual = n
         /\ Shows(EditorOn(n, src, first, scheme), own)
<1>1. Description(n, src, own) \subseteq Rows  BY DescriptionIsRows DEF Types
<1> QED  BY <1>1 DEF EditorOn, Windows, Shows

LEMMA OpenEditorSound ==
  ASSUME IInv, OpenEditor
  PROVE  Sound
<1>0. Types  BY DEF IInv
<1>1. PICK n \in vocabulary.names, scheme \in Named("conceptScheme") \cup {AnyScheme} :
        role[n] # "none" /\ editors' = <<EditorOn(n, role[n], TRUE, scheme)>>
  BY DEF OpenEditor
<1>2. n \in Resource /\ scheme \in Resource \cup {AnyScheme} /\ role[n] \in Roles
  BY <1>0, <1>1, Vocabulary DEF Types, Named
<1> DEFINE e == EditorOn(n, role[n], TRUE, scheme)
<1>3. e \in Windows /\ e.first = TRUE /\ e.actual = n /\ Shows(e, own)
  BY <1>0, <1>2, EditorOnIs
<1> HIDE DEF e
<1>4. /\ editors = <<>> /\ editors' = <<e>> /\ told' = {}
      /\ UNCHANGED <<role, own, timers, vocabulary>>
  BY <1>1 DEF OpenEditor, e
<1>5. /\ editors' \in Seq(Windows) /\ Len(editors') = 1 /\ DOMAIN editors' = {1}
      /\ editors'[1] = e /\ DOMAIN editors = {}
  BY <1>3, <1>4
<1>6. Types'
  <2>1. 1 <= MaxEditors  BY EditorAssumption
  <2>2. \A i \in DOMAIN editors' : editors'[i].first = (i = 1)  BY <1>3, <1>5
  <2>3. timers = {}  BY <1>0, <1>5 DEF Types
  <2> QED  BY <1>0, <1>4, <1>5, <2>1, <2>2, <2>3 DEF Types
<1>7. Drawn' /\ FirstNamed'  BY <1>1, <1>3, <1>4, <1>5 DEF Drawn, FirstNamed
<1> QED  BY <1>4, <1>5, <1>6, <1>7, Same DEF Sound, IInv

LEMMA ResourceDblClickSound ==
  ASSUME IInv, ResourceDblClick
  PROVE  Sound
<1>0. Types /\ Drawn /\ FirstNamed  BY DEF IInv
<1>1. editors # <<>> /\ Len(editors) < MaxEditors  BY DEF ResourceDblClick, IsOpen
<1>2. PICK it \in Top.shown :
        /\ it.o \in Resource /\ it.rel \notin {"label", "facet"}
        /\ editors' = Append(editors, EditorOn(it.o, Opened(it), FALSE, AnyScheme))
  BY DEF ResourceDblClick
<1>3. Top.src \in Roles /\ it.rel \in FixedSections \cup ValueProperty
  BY <1>0, <1>1, <1>2, TopIs DEF Windows, Rows
<1>4. Opened(it) \in Roles
  <2>1. CASE it.rel \in FixedSections
    <3>1. it.rel \notin ValueProperty  BY <2>1, EditorAssumption
    <3> QED  BY <1>2, <1>3, <2>1, <3>1 DEF Opened, FixedSections, Roles
  <2>2. CASE it.rel \in ValueProperty
    <3>1. it.rel \notin FixedSections  BY <2>2, EditorAssumption
    <3> QED  BY <2>2, <3>1 DEF Opened, FixedSections, Roles
  <2> QED  BY <1>3, <2>1, <2>2
<1> DEFINE e == EditorOn(it.o, Opened(it), FALSE, AnyScheme)
<1>5. e \in Windows /\ e.first = FALSE /\ Shows(e, own)
  <2>1. it.o \in Resource /\ FALSE \in BOOLEAN /\ AnyScheme \in Resource \cup {AnyScheme}
    BY <1>2
  <2> QED  BY <1>0, <1>4, <2>1, EditorOnIs
<1> HIDE DEF e
<1>6. editors' = Append(editors, e) /\ told' = {} /\ UNCHANGED <<role, own, timers, vocabulary>>
  BY <1>2 DEF ResourceDblClick, e
<1>7. /\ editors \in Seq(Windows) /\ Len(editors) \in Nat \ {0}
      /\ DOMAIN editors = 1..Len(editors) /\ MaxEditors \in Nat
  BY <1>0, <1>1, TopIs, EditorAssumption DEF Types
<1>8. /\ editors' \in Seq(Windows) /\ Len(editors') = Len(editors) + 1
      /\ DOMAIN editors' = 1..(Len(editors) + 1)
      /\ \A i \in DOMAIN editors : editors'[i] = editors[i]
      /\ editors'[Len(editors) + 1] = e
  BY <1>5, <1>6, <1>7
<1>9. Types'
  <2>1. \A i \in DOMAIN editors' : editors'[i].first = (i = 1)
    <3>1. \A i \in DOMAIN editors : editors'[i].first = (i = 1)  BY <1>0, <1>8 DEF Types
    <3>2. editors'[Len(editors) + 1].first = FALSE /\ Len(editors) + 1 # 1
      BY <1>5, <1>7, <1>8
    <3>3. \A i \in DOMAIN editors' : i \in DOMAIN editors \/ i = Len(editors) + 1
      BY <1>7, <1>8
    <3> SUFFICES ASSUME NEW i \in DOMAIN editors'
                 PROVE  editors'[i].first = (i = 1)
      OBVIOUS
    <3>4. CASE i \in DOMAIN editors  BY <3>1, <3>4
    <3>5. CASE i = Len(editors) + 1
      <4>1. (i = 1) = FALSE  BY <3>2, <3>5
      <4> QED  BY <3>2, <3>5, <4>1
    <3> QED  BY <3>3, <3>4, <3>5
  <2> QED  BY <1>0, <1>1, <1>6, <1>7, <1>8, <2>1 DEF Types
<1>10. Drawn' /\ FirstNamed'
  BY <1>0, <1>1, <1>5, <1>6, <1>7, <1>8 DEF Drawn, FirstNamed
<1>11. \A i \in DOMAIN editors \cap DOMAIN editors' : editors'[i].actual = editors[i].actual
  BY <1>8
<1> QED  BY <1>6, <1>9, <1>10, <1>11, Same DEF Sound, IInv

LEMMA OnCloseSound ==
  ASSUME IInv, OnClose
  PROVE  Sound
<1>0. Types /\ Drawn /\ FirstNamed  BY DEF IInv
<1> DEFINE rest == SubSeq(editors, 1, Len(editors) - 1)
<1>1. /\ editors # <<>> /\ editors' = Refreshed(rest, own)
      /\ timers' = {t \in timers : t.editor < Len(editors)} /\ told' = {}
      /\ UNCHANGED <<role, own, vocabulary>>
  BY DEF OnClose
<1>2. /\ editors \in Seq(Windows) /\ Len(editors) \in Nat \ {0}
      /\ DOMAIN editors = 1..Len(editors) /\ MaxEditors \in Nat
  BY <1>0, <1>1, TopIs, EditorAssumption DEF Types
<1>3. /\ rest \in Seq(Windows) /\ Len(rest) = Len(editors) - 1
      /\ \A i \in 1..(Len(editors) - 1) : rest[i] = editors[i]
  BY <1>2, SubSeqProperties
<1>4. /\ editors' \in Seq(Windows) /\ Len(editors') = Len(editors) - 1
      /\ DOMAIN editors' = 1..(Len(editors) - 1)
      /\ \A i \in DOMAIN editors' :
           /\ editors'[i].actual = editors[i].actual /\ editors'[i].first = editors[i].first
           /\ Shows(editors'[i], own)
  <2> HIDE DEF rest
  <2>1. DOMAIN rest = 1..(Len(editors) - 1)  BY <1>2, <1>3
  <2>2. \A f \in own : Proper(f)  BY <1>0 DEF Types
  <2>3. /\ editors' \in Seq(Windows) /\ Len(editors') = Len(rest) /\ DOMAIN editors' = DOMAIN rest
        /\ \A i \in DOMAIN rest :
             /\ editors'[i].actual = rest[i].actual /\ editors'[i].first = rest[i].first
             /\ Shows(editors'[i], own)
    BY <1>1, <1>3, <2>2, WindowsRefreshed
  <2> QED  BY <1>3, <2>1, <2>3
<1>5. Types'
  <2>1. \A i \in DOMAIN editors' : editors'[i].first = (i = 1)
    BY <1>0, <1>2, <1>4 DEF Types
  <2>2. \A t \in timers' : t.editor \in DOMAIN editors'
    BY <1>0, <1>1, <1>2, <1>4 DEF Types
  <2> QED  BY <1>0, <1>1, <1>2, <1>4, <2>1, <2>2 DEF Types
<1>6. Drawn'  BY <1>1, <1>4 DEF Drawn
<1>7. FirstNamed'
  <2>1. editors' # <<>> => 1 \in DOMAIN editors'  BY <1>2, <1>4
  <2> QED  BY <1>0, <1>1, <1>4, <2>1 DEF FirstNamed
<1> QED  BY <1>1, <1>4, <1>5, <1>6, <1>7, Same DEF Sound, IInv

(* An editor on top that is changed in what it holds and shows.             *)
LEMMA TopChanged ==
  ASSUME Types, editors # <<>>, NEW e \in Windows, e.first = Top.first,
         editors' = [editors EXCEPT ![Len(editors)] = e]
  PROVE  /\ editors' \in Seq(Windows) /\ Len(editors') = Len(editors)
         /\ DOMAIN editors' = DOMAIN editors
         /\ \A i \in DOMAIN editors : editors'[i].first = (i = 1)
         /\ editors'[Len(editors)] = e
         /\ \A i \in DOMAIN editors \ {Len(editors)} : editors'[i] = editors[i]
<1>1. /\ Len(editors) \in DOMAIN editors /\ editors \in Seq(Windows)
  BY TopIs DEF Types
<1>2. editors' \in Seq(Windows) /\ Len(editors') = Len(editors)
  BY <1>1, ExceptSeq
<1>3. /\ DOMAIN editors' = DOMAIN editors
      /\ editors'[Len(editors)] = e
      /\ \A i \in DOMAIN editors \ {Len(editors)} : editors'[i] = editors[i]
  BY <1>1
<1> QED  BY <1>1, <1>2, <1>3 DEF Types, Top

LEMMA UntickSound ==
  ASSUME IInv, Untick
  PROVE  Sound
<1>0. Types /\ Drawn /\ FirstNamed  BY DEF IInv
<1>1. PICK x \in Facet :
        editors' = [editors EXCEPT ![Len(editors)].shown =
                      @ \ {it \in Items("facet") : it.o = x}]
  BY DEF Untick
<1> DEFINE ticked == {it \in Items("facet") : it.o = x}
           e == [Top EXCEPT !.shown = @ \ ticked]
<1>2. editors # <<>> /\ told' = {} /\ UNCHANGED <<role, own, timers, vocabulary>>  BY DEF Untick
<1>3. Top \in Windows /\ Len(editors) \in DOMAIN editors /\ 1 \in DOMAIN editors
  BY <1>0, <1>2, TopIs
<1>4. \A it \in ticked : it.rel = "facet"  BY DEF Items
<1> HIDE DEF ticked
<1>5. /\ e \in Windows /\ e.first = Top.first /\ e.actual = Top.actual /\ e.of = Top.of
      /\ e.src = Top.src /\ e.shown = Top.shown \ ticked
  BY <1>3 DEF Windows
<1>6. editors' = [editors EXCEPT ![Len(editors)] = e]  BY <1>1 DEF Top, ticked
<1> HIDE DEF e
<1>7. /\ editors' \in Seq(Windows) /\ Len(editors') = Len(editors)
      /\ DOMAIN editors' = DOMAIN editors
      /\ \A i \in DOMAIN editors : editors'[i].first = (i = 1)
      /\ editors'[Len(editors)] = e
      /\ \A i \in DOMAIN editors \ {Len(editors)} : editors'[i] = editors[i]
  BY <1>0, <1>2, <1>5, <1>6, TopChanged
<1>8. \A i \in DOMAIN editors : editors'[i].actual = editors[i].actual
  BY <1>5, <1>7 DEF Top
<1>9. Types'  BY <1>0, <1>2, <1>7 DEF Types
<1>10. Drawn'
  <2>1. Shows(Top, own)  BY <1>0, <1>3 DEF Drawn, Top
  <2>2. Shows(e, own)  BY <1>4, <1>5, <2>1 DEF Shows
  <2> QED  BY <1>0, <1>2, <1>7, <2>2 DEF Drawn
<1>11. FirstNamed'  BY <1>0, <1>2, <1>3, <1>7, <1>8 DEF FirstNamed
<1> QED  BY <1>2, <1>7, <1>8, <1>9, <1>10, <1>11, Same DEF Sound, IInv

LEMMA TypeNameSound ==
  ASSUME IInv, TypeName
  PROVE  Sound
<1>0. Types /\ Drawn /\ FirstNamed  BY DEF IInv
<1>1. PICK n \in vocabulary.names : editors' = [editors EXCEPT ![Len(editors)].typed = n]
  BY DEF TypeName
<1> DEFINE e == [Top EXCEPT !.typed = n]
<1>2. editors # <<>> /\ told' = {} /\ UNCHANGED <<role, own, timers, vocabulary>>  BY DEF TypeName
<1>3. /\ Top \in Windows /\ Len(editors) \in DOMAIN editors /\ 1 \in DOMAIN editors
      /\ n \in Resource
  BY <1>0, <1>1, <1>2, TopIs, Vocabulary
<1>4. /\ e \in Windows /\ e.first = Top.first /\ e.actual = Top.actual /\ e.of = Top.of
      /\ e.src = Top.src /\ e.shown = Top.shown
  BY <1>3 DEF Windows
<1>5. editors' = [editors EXCEPT ![Len(editors)] = e]  BY <1>1 DEF Top
<1> HIDE DEF e
<1>6. /\ editors' \in Seq(Windows) /\ Len(editors') = Len(editors)
      /\ DOMAIN editors' = DOMAIN editors
      /\ \A i \in DOMAIN editors : editors'[i].first = (i = 1)
      /\ editors'[Len(editors)] = e
      /\ \A i \in DOMAIN editors \ {Len(editors)} : editors'[i] = editors[i]
  BY <1>0, <1>2, <1>4, <1>5, TopChanged
<1>7. \A i \in DOMAIN editors : editors'[i].actual = editors[i].actual
  BY <1>4, <1>6 DEF Top
<1>8. Types'  BY <1>0, <1>2, <1>6 DEF Types
<1>9. Drawn'
  <2>1. Shows(Top, own)  BY <1>0, <1>3 DEF Drawn, Top
  <2>2. Shows(e, own)  BY <1>4, <2>1 DEF Shows
  <2> QED  BY <1>0, <1>2, <1>6, <2>2 DEF Drawn
<1>10. FirstNamed'  BY <1>0, <1>2, <1>3, <1>6, <1>7 DEF FirstNamed
<1> QED  BY <1>2, <1>6, <1>7, <1>8, <1>9, <1>10, Same DEF Sound, IInv

LEMMA RenameSound ==
  ASSUME IInv, Rename
  PROVE  Sound
<1> DEFINE old == Top.actual
           new == Top.typed
           Sub(x) == IF x = old THEN new ELSE x
           renamed == {Fact(Sub(f.s), Sub(f.rel), Sub(f.o), f.lang) : f \in own}
           e == [Top EXCEPT !.actual = new]
           named == [editors EXCEPT ![Len(editors)] = e]
<1>0. Types /\ Drawn /\ FirstNamed  BY DEF IInv
<1>1. /\ editors # <<>> /\ Top.first /\ Exists(old) /\ ~ Exists(new)
      /\ role' = [role EXCEPT ![new] = role[old], ![old] = "none"]
      /\ own' = renamed /\ told' = {} /\ UNCHANGED <<timers, vocabulary>>
  BY DEF Rename, CanRename
<1>2. editors' = Refreshed(named, renamed)  BY DEF Rename, Top
<1>3. /\ Top \in Windows /\ Len(editors) \in DOMAIN editors /\ 1 \in DOMAIN editors
      /\ Len(editors) \in Nat
  BY <1>0, <1>1, TopIs
<1>4. Len(editors) = 1 /\ DOMAIN editors = {1} /\ Top = editors[1]
  <2>1. Top.first = (Len(editors) = 1)  BY <1>0, <1>3 DEF Types, Top
  <2>2. Len(editors) = 1  BY <1>1, <2>1
  <2>3. DOMAIN editors = 1..Len(editors)  BY <1>0 DEF Types
  <2> QED  BY <2>2, <2>3 DEF Top
<1>5. old \in Resource /\ new \in Resource /\ old # new  BY <1>1, <1>3 DEF Windows
<1>6. role[old] # "none" /\ role[new] = "none"  BY <1>0, <1>1, <1>4 DEF FirstNamed, Exists
<1>7. /\ role' \in [Resource -> Roles \cup {"none"}] /\ role'[new] = role[old]
      /\ role'[old] = "none" /\ \A n \in Resource \ {old, new} : role'[n] = role[n]
  BY <1>0, <1>1, <1>5 DEF Types
<1>8. \A f \in renamed : Proper(f)
  <2> SUFFICES ASSUME NEW g \in own
               PROVE  Proper(Fact(Sub(g.s), Sub(g.rel), Sub(g.o), g.lang))
    OBVIOUS
  <2>1. Proper(g)  BY <1>0 DEF Types
  <2>2. Sub(g.s) \in Resource /\ Sub(g.o) \in Object /\ g.lang \in Langs
    BY <1>5, <2>1 DEF Proper, WellFormed, Object
  <2> HIDE DEF Sub
  <2> QED  BY <2>2 DEF Proper, WellFormed, Fact
<1>9. /\ named \in Seq(Windows) /\ Len(named) = 1 /\ DOMAIN named = {1}
      /\ named[1].actual = new /\ named[1].first = TRUE
  <2>1. e \in Windows /\ e.actual = new /\ e.first = Top.first
    BY <1>3, <1>5 DEF Windows
  <2>2. Top.first = TRUE  BY <1>1, <1>3 DEF Windows
  <2> HIDE DEF e
  <2>3. editors \in Seq(Windows)  BY <1>0 DEF Types
  <2>4. named \in Seq(Windows) /\ Len(named) = Len(editors)
    BY <1>3, <2>1, <2>3, ExceptSeq
  <2>5. named[1] = e /\ DOMAIN named = DOMAIN editors  BY <1>4
  <2> QED  BY <1>4, <2>1, <2>2, <2>4, <2>5
<1> HIDE DEF named
<1>10. /\ editors' \in Seq(Windows) /\ Len(editors') = 1 /\ DOMAIN editors' = {1}
       /\ editors'[1].actual = new /\ editors'[1].first = TRUE
       /\ Shows(editors'[1], own')
  <2> HIDE DEF renamed
  <2> QED  BY <1>1, <1>2, <1>8, <1>9, WindowsRefreshed
<1>11. IInv'
  <2>1. Types'
    <3>1. Len(editors') <= MaxEditors  BY <1>0, <1>4, <1>10 DEF Types
    <3>2. \A i \in DOMAIN editors' : editors'[i].first = (i = 1)  BY <1>10
    <3>3. \A f \in own' : Proper(f)
      <4> HIDE DEF renamed
      <4> QED  BY <1>1, <1>8
    <3> QED  BY <1>0, <1>1, <1>4, <1>7, <1>10, <3>1, <3>2, <3>3 DEF Types
  <2>2. Drawn'  BY <1>10 DEF Drawn
  <2>3. FirstNamed'  BY <1>6, <1>7, <1>10 DEF FirstNamed
  <2> QED  BY <2>1, <2>2, <2>3 DEF IInv
<1>12. EditorsKeepTheirNames
  BY <1>4, <1>6, <1>7, <1>10 DEF EditorsKeepTheirNames
<1>13. StrayFactsArePropertyAxioms
  <2> SUFFICES ASSUME NEW g \in own, role'[Fact(Sub(g.s), Sub(g.rel), Sub(g.o), g.lang).s] = "none"
               PROVE  Exists(Fact(Sub(g.s), Sub(g.rel), Sub(g.o), g.lang).s)
    BY <1>1 DEF StrayFactsArePropertyAxioms
  <2>1. Sub(g.s) = g.s
    <3>1. role'[Sub(g.s)] = "none"  BY DEF Fact
    <3> QED  BY <1>6, <1>7, <3>1
  <2> QED  BY <2>1 DEF Exists, Facts, Fact
<1>14. Reports  BY <1>6, <1>7 DEF Reports
<1> QED  BY <1>11, <1>12, <1>13, <1>14 DEF Sound

(* No broader concept is lost where no fact is.                             *)
LEMMA MoreReports ==
  ASSUME own \subseteq own'
  PROVE  Reports
BY DEF Reports, HasBroader

LEMMA BindingSound ==
  ASSUME IInv, NEW f, Binding(f)
  PROVE  Sound
<1>0. Types  BY DEF IInv
<1>1. editors # <<>> /\ f \in vocabulary.facts /\ f.s = Top.actual  BY DEF Binding
<1>2. PICK k \in Named("cls") :
        LET facts == own \cup {f, Fact(f.o, "type", k, NoLang)} IN
        /\ f.o \in Resource
        /\ role' = [role EXCEPT ![f.o] = IF @ = "none" THEN "individual" ELSE @]
        /\ own' = facts /\ editors' = Refreshed(editors, facts) /\ told' = {}
        /\ UNCHANGED <<timers, vocabulary>>
  BY DEF Binding, Bind
<1> DEFINE t == Fact(f.o, "type", k, NoLang)
           facts == own \cup {f, t}
<1>3. /\ Proper(f) /\ Proper(t) /\ t.s = f.o
  <2>1. Proper(f)  BY <1>0, <1>1, Vocabulary
  <2>2. k \in Resource /\ NoLang \in Langs  BY DEF Named, Langs
  <2> QED  BY <1>2, <2>1, <2>2 DEF Proper, WellFormed, Fact, Object
<1> HIDE DEF t
<1>4. /\ role' \in [Resource -> Roles \cup {"none"}]
      /\ \A n \in Resource : role[n] # "none" => role'[n] # "none"
      /\ role'[f.o] # "none"
  BY <1>0, <1>2 DEF Types, Roles
<1>5. \A g \in facts : Proper(g)  BY <1>0, <1>3 DEF Types
<1>6. own' = facts /\ editors' = Refreshed(editors, facts)  BY <1>2 DEF t
<1>7. /\ vocabulary' = vocabulary /\ told' \subseteq Resource
      /\ \A x \in timers' : x.editor \in DOMAIN editors
                            /\ x.scheme \in Resource /\ x.concept \in Resource
  BY <1>0, <1>2 DEF Types
<1>8. own \subseteq own' /\ own' \ own \subseteq {f, t}  BY <1>6
<1> HIDE DEF facts
<1>9. /\ IInv'
      /\ DOMAIN editors' = DOMAIN editors
      /\ \A i \in DOMAIN editors :
           editors'[i].actual = editors[i].actual /\ editors[i].actual \in Resource
  BY <1>4, <1>5, <1>6, <1>7, RefreshKeeps
<1>10. EditorsKeepTheirNames  BY <1>4, <1>9 DEF EditorsKeepTheirNames
<1>11. StrayFactsArePropertyAxioms
  <2>1. role'[f.s] = "none" => Len(editors) > 1 /\ f.s = Top.actual
    <3>1. Top.actual \in Resource  BY <1>0, <1>1, TopIs DEF Windows
    <3> QED  BY <1>1, <1>4, <3>1, OnlyFirstIsNamed
  <2>2. role'[t.s] # "none"  BY <1>3, <1>4
  <2> QED  BY <1>8, <2>1, <2>2 DEF StrayFactsArePropertyAxioms
<1> QED  BY <1>8, <1>9, <1>10, <1>11, MoreReports DEF Sound

LEMMA RemoveInverseOfSound ==
  ASSUME IInv, RemoveInverseOf
  PROVE  Sound
<1>1. told' = {} /\ UNCHANGED <<role, own, editors, timers, vocabulary>>  BY DEF RemoveInverseOf
<1>2. IInv'  BY <1>1 DEF IInv, Types, Drawn, FirstNamed
<1> QED  BY <1>1, <1>2, Same DEF Sound

(* The row of a broader concept is removable if its fact is one's own.      *)
LEMMA SuperRows ==
  ASSUME NEW n, NEW src \in Roles, NEW facts, NEW r \in Description(n, src, facts),
         r.rel = "super"
  PROVE  \E f \in About(n, src, facts), b \in BOOLEAN :
           f.rel = "super" /\ r = Row(f, b) /\ (Own(f) => b)
<1> DEFINE fs == About(n, src, facts)
<1> HIDE DEF fs
<1>1. \A f, b : Row(f, b).rel = f.rel  BY DEF Row
<1>2. r \in ParsingSuperTypes(fs, src) \/ r \in ParsingProperties(fs)
  BY <1>1 DEF Description, fs, ParsingType, ParsingDomains, ParsingRanges, ParsingFacets,
       ParsingTopConcepts, ParsingPrefLabels
<1>3. CASE r \in ParsingSuperTypes(fs, src)
  <2> DEFINE lenient == src \in PropertyRoles \cup {"concept"} /\ IsLong(fs, "super")
  <2>1. PICK f \in fs : f.rel = "super" /\ r = Row(f, Own(f) \/ lenient)
    BY <1>3 DEF ParsingSuperTypes
  <2>2. (Own(f) \/ lenient) \in BOOLEAN /\ (Own(f) => (Own(f) \/ lenient))  OBVIOUS
  <2> HIDE DEF lenient
  <2> QED  BY <2>1, <2>2 DEF fs
<1>4. CASE r \in ParsingProperties(fs)
  <2>1. PICK f \in fs : r = Row(f, Own(f) \/ IsLong(fs, f.rel))  BY <1>4 DEF ParsingProperties
  <2>2. (Own(f) \/ IsLong(fs, f.rel)) \in BOOLEAN /\ (Own(f) => (Own(f) \/ IsLong(fs, f.rel)))
    OBVIOUS
  <2> QED  BY <1>1, <2>1, <2>2 DEF fs
<1> QED  BY <1>2, <1>3, <1>4

LEMMA RemoveBroaderConceptSound ==
  ASSUME IInv, RemoveBroaderConcept
  PROVE  Sound
<1>0. Types /\ Drawn  BY DEF IInv
<1>1. PICK it \in Items("super") :
        LET facts == own \ {Fact(Top.actual, "super", it.o, NoLang)} IN
        /\ own' = facts
        /\ SkosBroaderConceptRemovedHandler(Top.actual)
        /\ editors' = Refreshed(editors, facts)
  BY DEF RemoveBroaderConcept
<1> DEFINE lost == Fact(Top.actual, "super", it.o, NoLang)
           facts == own \ {lost}
           telling == {i \in DOMAIN editors : BroadersDrawn(editors[i]) = 1}
<1>2. /\ editors # <<>> /\ Top.src = "concept" /\ UNCHANGED <<role, vocabulary>>
      /\ own' = facts /\ editors' = Refreshed(editors, facts)
  BY <1>1 DEF RemoveBroaderConcept, IsOpen
<1>3. /\ told' = IF telling = {} THEN {} ELSE {Top.actual}
      /\ \A t \in timers' \ timers :
           \E i \in DOMAIN editors : /\ t.editor = i /\ t.scheme = editors[i].scheme
                                     /\ t.concept = Top.actual /\ editors[i].scheme # AnyScheme
  <2>1. SkosBroaderConceptRemovedHandler(Top.actual)  BY <1>1
  <2> QED  BY <2>1 DEF SkosBroaderConceptRemovedHandler
<1>4. /\ Top \in Windows /\ Top.actual \in Resource /\ Len(editors) \in DOMAIN editors
      /\ \A i \in DOMAIN editors : editors[i] \in Windows
  <2>1. Top \in Windows /\ Len(editors) \in DOMAIN editors  BY <1>0, <1>2, TopIs
  <2>2. \A i \in DOMAIN editors : editors[i] \in Windows  BY <1>0, ElementOfSeq DEF Types
  <2> QED  BY <2>1, <2>2 DEF Windows
<1>5. /\ told' \subseteq Resource /\ role' \in [Resource -> Roles \cup {"none"}]
      /\ \A f \in facts : Proper(f)
      /\ \A t \in timers' : t.editor \in DOMAIN editors
                            /\ t.scheme \in Resource /\ t.concept \in Resource
  <2>1. \A i \in DOMAIN editors : editors[i].scheme \in Resource \cup {AnyScheme}
    BY <1>4 DEF Windows
  <2>2. told' \subseteq Resource  BY <1>3, <1>4
  <2>3. \A t \in timers' : t.editor \in DOMAIN editors
                            /\ t.scheme \in Resource /\ t.concept \in Resource
    BY <1>0, <1>3, <1>4, <2>1 DEF Types
  <2> QED  BY <1>0, <1>2, <2>2, <2>3 DEF Types
<1>6. /\ IInv'
      /\ DOMAIN editors' = DOMAIN editors
      /\ \A i \in DOMAIN editors : editors'[i].actual = editors[i].actual
  <2> HIDE DEF facts
  <2> QED  BY <1>2, <1>5, RefreshKeeps
<1>7. EditorsKeepTheirNames  BY <1>2, <1>6 DEF EditorsKeepTheirNames
<1>8. StrayFactsArePropertyAxioms  BY <1>2 DEF StrayFactsArePropertyAxioms
<1>9. Reports
  <2> SUFFICES ASSUME NEW c \in Resource, Top.actual = c, Top.of = c, ~ HasBroader(c, own')
               PROVE  told' = {c}
    BY DEF Reports
  <2> DEFINE supers == {r \in Top.shown : r.rel = "super"}
  <2>1. ASSUME NEW r \in supers
        PROVE  r.o = it.o /\ r.lang = NoLang /\ r.removable = TRUE /\ r \in Rows
    <3>1. r \in Description(c, "concept", own)
      BY <1>0, <1>2, <1>4 DEF Drawn, Shows, Top
    <3>2. PICK f \in About(c, "concept", own), b \in BOOLEAN :
            f.rel = "super" /\ r = Row(f, b) /\ (Own(f) => b)
      BY <2>1, <3>1, SuperRows DEF Roles
    <3>3. f.s = c /\ f \in own \cup Imported  BY <3>2 DEF About
    <3>4. f = lost /\ f \notin Imported  BY <1>2, <3>2, <3>3 DEF HasBroader
    <3>5. f.o = it.o /\ f.lang = NoLang /\ b = TRUE  BY <3>2, <3>4 DEF Fact, Own
    <3>6. r.o = f.o /\ r.lang = f.lang /\ r.removable = b  BY <3>2, RowIs
    <3>7. r \in Rows  BY <1>4, <2>1 DEF Windows
    <3> QED  BY <3>5, <3>6, <3>7
  <2>2. it \in supers  BY <1>1 DEF Items
  <2>3. ASSUME NEW r \in supers
        PROVE  r = it
    <3>1. \A x \in Rows : x = [rel |-> x.rel, o |-> x.o, lang |-> x.lang,
                               removable |-> x.removable]
      BY DEF Rows
    <3>2. r.rel = it.rel /\ r.o = it.o /\ r.lang = it.lang /\ r.removable = it.removable
      BY <2>1, <2>2, <2>3
    <3> QED  BY <2>1, <2>2, <2>3, <3>1, <3>2
  <2>4. supers = {it}  BY <2>2, <2>3
  <2>5. Cardinality(supers) = 1
    <3> HIDE DEF supers
    <3> QED  BY <2>4, FS_Singleton
  <2>6. BroadersDrawn(Top) = 1  BY <1>2, <2>5 DEF BroadersDrawn
  <2>7. Len(editors) \in telling  BY <1>4, <2>6 DEF Top
  <2> QED  BY <1>3, <2>7
<1> QED  BY <1>6, <1>7, <1>8, <1>9 DEF Sound

LEMMA MakeTopConceptSound ==
  ASSUME IInv, MakeTopConcept
  PROVE  Sound
<1>0. Types  BY DEF IInv
<1>1. PICK t \in timers :
        LET facts == IF Exists(t.scheme) /\ Exists(t.concept)
                     THEN own \cup {Fact(t.scheme, "top", t.concept, NoLang)} ELSE own
        IN /\ timers' = timers \ {t}
           /\ own' = facts
           /\ editors' = IF facts = own THEN editors ELSE Refreshed(editors, facts)
  BY DEF MakeTopConcept
<1>2. told' = {} /\ UNCHANGED <<role, vocabulary>>  BY DEF MakeTopConcept
<1>3. CASE own' = own
  <2>1. editors' = editors  BY <1>1, <1>3
  <2>2. IInv'  BY <1>1, <1>2, <1>3, <2>1 DEF IInv, Types, Drawn, FirstNamed
  <2> QED  BY <1>2, <1>3, <2>1, <2>2, Same DEF Sound
<1>4. CASE own' # own
  <2> DEFINE f == Fact(t.scheme, "top", t.concept, NoLang)
             facts == own \cup {f}
  <2>1. Exists(t.scheme) /\ own' = facts /\ editors' = Refreshed(editors, facts)
    BY <1>1, <1>4
  <2>2. \A g \in facts : Proper(g)
    <3>1. t.scheme \in Resource /\ t.concept \in Resource /\ NoLang \in Langs
      BY <1>0, <1>1 DEF Types, Langs
    <3>2. Proper(f)  BY <3>1 DEF Proper, WellFormed, Fact, Object
    <3> HIDE DEF f
    <3> QED  BY <1>0, <3>2 DEF Types
  <2>3. /\ role' \in [Resource -> Roles \cup {"none"}] /\ told' \subseteq Resource
        /\ \A x \in timers' : x.editor \in DOMAIN editors
                              /\ x.scheme \in Resource /\ x.concept \in Resource
    BY <1>0, <1>1, <1>2 DEF Types
  <2>4. /\ IInv'
        /\ DOMAIN editors' = DOMAIN editors
        /\ \A i \in DOMAIN editors : editors'[i].actual = editors[i].actual
    <3> HIDE DEF facts
    <3> QED  BY <1>2, <2>1, <2>2, <2>3, RefreshKeeps
  <2>5. EditorsKeepTheirNames  BY <1>2, <2>4 DEF EditorsKeepTheirNames
  <2>6. StrayFactsArePropertyAxioms  BY <2>1 DEF StrayFactsArePropertyAxioms, Fact
  <2>7. own \subseteq own'  BY <2>1
  <2> QED  BY <2>4, <2>5, <2>6, <2>7, MoreReports DEF Sound
<1> QED  BY <1>3, <1>4

-----------------------------------------------------------------------------
(***************************************************************************)
(* The invariant, and the theorems.                                        *)
(***************************************************************************)
LEMMA Starts ==
  ASSUME Init
  PROVE  IInv
BY EditorAssumption DEF Init, IInv, Types, Drawn, FirstNamed

LEMMA EveryStepIsSound ==
  ASSUME IInv, Next
  PROVE  Sound
BY Kinds, EditSound, UntickSound, BindingSound, OpenEditorSound, ResourceDblClickSound,
   OnCloseSound, TypeNameSound, RenameSound, RemoveInverseOfSound,
   RemoveBroaderConceptSound, MakeTopConceptSound

LEMMA Invariant == Spec => []IInv
<1>1. Init => IInv  BY Starts
<1>2. IInv /\ [Next]_vars => IInv'
  <2>1. IInv /\ Next => IInv'  BY EveryStepIsSound DEF Sound
  <2>2. IInv /\ UNCHANGED vars => IInv'  BY DEF vars, IInv, Types, Drawn, FirstNamed
  <2> QED  BY <2>1, <2>2
<1> QED  BY <1>1, <1>2, PTL DEF Spec

(* What is drawn is what the name has.                                      *)
LEMMA DrawnIsCurrent ==
  ASSUME Types, Drawn
  PROVE  EditorsAreCurrent
<1> SUFFICES ASSUME NEW i \in DOMAIN editors
             PROVE  LET e == editors[i]
                        fs == About(e.of, e.src, own)
                        drawn == {Fact(e.of, it.rel, it.o, it.lang) : it \in e.shown}
                        long == \E p \in ValueProperty :
                                  IsLong(fs, p) /\ \E f \in fs : f.rel = p /\ f.o \in Typed
                    IN /\ drawn \subseteq fs
                       /\ \A f \in fs \ drawn :
                            f.rel = "facet" \/ (long /\ f.rel \in ValueProperty)
  BY DEF EditorsAreCurrent
<1> DEFINE e == editors[i]
           fs == About(e.of, e.src, own)
           drawn == {Fact(e.of, it.rel, it.o, it.lang) : it \in e.shown}
           long == \E p \in ValueProperty :
                     IsLong(fs, p) /\ \E f \in fs : f.rel = p /\ f.o \in Typed
<1>1. e.src \in Roles /\ Shows(e, own) /\ \A f \in own : Proper(f)
  <2>1. e \in Windows  BY ElementOfSeq DEF Types
  <2> QED  BY <2>1 DEF Types, Drawn, Windows
<1>2. \A f \in fs : f = Fact(e.of, f.rel, f.o, f.lang)
                    /\ f.rel \in FixedSections \cup ValueProperty
  BY <1>1, AboutIs
<1>3. drawn \subseteq fs
  <2> SUFFICES ASSUME NEW it \in e.shown
               PROVE  Fact(e.of, it.rel, it.o, it.lang) \in fs
    OBVIOUS
  <2>1. PICK f \in fs, b \in BOOLEAN : it = Row(f, b)
    BY <1>1, DrawnFromFacts DEF Shows
  <2>2. it.rel = f.rel /\ it.o = f.o /\ it.lang = f.lang  BY <2>1, RowIs
  <2> QED  BY <1>2, <2>1, <2>2
<1>4. ASSUME NEW f \in fs, NEW b \in BOOLEAN, Row(f, b) \in Description(e.of, e.src, own)
      PROVE  f \in drawn \/ f.rel = "facet"
  <2>1. Row(f, b).rel = f.rel /\ Row(f, b).o = f.o /\ Row(f, b).lang = f.lang  BY RowIs
  <2>2. CASE Row(f, b) \in e.shown
    <3>1. f = Fact(e.of, Row(f, b).rel, Row(f, b).o, Row(f, b).lang)  BY <1>2, <2>1
    <3> QED  BY <2>2, <3>1
  <2>3. CASE Row(f, b) \notin e.shown  BY <1>1, <1>4, <2>1, <2>3 DEF Shows
  <2> QED  BY <2>2, <2>3
<1>5. ASSUME NEW f \in fs \ drawn
      PROVE  f.rel = "facet" \/ (long /\ f.rel \in ValueProperty)
  <2>1. CASE f.rel \in FixedSections
    <3>1. \E b \in BOOLEAN : Row(f, b) \in Description(e.of, e.src, own)
      BY <1>1, <2>1, FixedIsDrawn
    <3> QED  BY <1>4, <1>5, <3>1
  <2>2. CASE f.rel \in ValueProperty
    <3>1. (\E b \in BOOLEAN : Row(f, b) \in Description(e.of, e.src, own)) \/ long
      BY <1>1, <2>2, ValueIsDrawn
    <3> QED  BY <1>4, <1>5, <2>2, <3>1
  <2> QED  BY <1>2, <1>5, <2>1, <2>2
<1> QED  BY <1>3, <1>5

(* However many windows are open, each shows what the name it last drew     *)
(* has, whichever of them the user edits in.                                *)
THEOREM EditorsStaySound == Spec => []EditorsAreSound
<1>1. IInv => EditorsAreSound
  <2> SUFFICES ASSUME IInv PROVE EditorsAreSound  OBVIOUS
  <2>1. Types /\ Drawn  BY DEF IInv
  <2>2. \A i \in DOMAIN editors : editors[i] \in Windows  BY <2>1, ElementOfSeq DEF Types
  <2>3. TypeOK
    BY <2>1, <2>2 DEF TypeOK, Types, Windows, Rows, Proper, WellFormed
  <2> QED  BY <2>1, <2>3, DrawnIsCurrent DEF EditorsAreSound
<1> QED  BY <1>1, Invariant, PTL

(* No step takes a name away from an editor that holds it, and a name that  *)
(* denotes nothing is first spoken of in the axioms of a property.          *)
THEOREM NamesStayHonoured == Spec => NamesAreHonoured
<1>1. IInv /\ [Next]_vars => [EditorsKeepTheirNames /\ StrayFactsArePropertyAxioms]_vars
  BY EveryStepIsSound DEF Sound
<1> QED  BY <1>1, Invariant, PTL DEF Spec, NamesAreHonoured

(* The window that takes away the last broader concept says so.             *)
THEOREM LastBroaderReported == Spec => LastBroaderIsReported
<1>1. IInv /\ [Next]_vars => [Reports]_vars  BY EveryStepIsSound DEF Sound
<1>2. Spec => [][Reports]_vars  BY <1>1, Invariant, PTL DEF Spec
<1> QED  BY <1>2 DEF LastBroaderIsReported, Reports
=============================================================================
