----------------------------- MODULE MCAnnotating -----------------------------
(* One class and one concept, two handlers that create and two that do not. *)
EXTENDS Annotating

MCRole == {"cls", "concept", "individual"}
MCMeaning == [True |-> MCRole, Cls |-> {"cls"}, Concept |-> {"concept"}]
MCBegins == {<<"an", "and">>, <<"C", "Cls">>}
MCHandlers == <<"createInstance", "createNarrowerConcept", "valueForProperty", "furtherAnn">>
MCDefault == [createInstance |-> <<"Cls">>, createNarrowerConcept |-> <<"Concept">>,
              valueForProperty |-> <<"True">>, furtherAnn |-> <<"True">>]
MCGiven == [k |-> "cls", c |-> "concept"]
MCProperty == [bind |-> "resource", note |-> "literal", any |-> "undetermined",
               range |-> "dataRange"]
MCFamilies == <<"rangeannotation", "bookmarking">>
MCPrefs == [offered |-> <<"en", "de">>, default |-> "en"]
MCBefore == {<<"de", "en">>}

(* The parts share few variables and are not varied together: words are    *)
(* typed before text is dropped, and only for the first two handlers; the  *)
(* dialogs of pages and of languages are used while nothing is dropped.    *)
Dropping == spent.drops > 0
HomePage == CHOOSE p \in Page : TRUE
Refining == options.open \/ used.edits > 0
Bookmarking == \/ \E p \in Page : topics[p] # {}
               \/ \E w \in Window : browser[w].icon \/ ~Idle(w)
Choosing == languages.open \/ spent.added > 0 \/ prefs # Prefs

AtHome == family = Families[1] /\ \A w \in Window : browser[w].page = HomePage

Bounds ==
  /\ editor.on # Kept => editor.on \in {Handlers[1], Handlers[2]} /\ ~working
  /\ editor.on = Handlers[2] \/ rushed => used.words <= 1
  /\ StateAfter(editor.text).error => used.words <= 2
  /\ used.words > 1 => ~working /\ options.ticked[Handlers[3]]
  /\ used.words > 3 => ~editor.blank
  /\ \A h \in Handler : h # Handlers[3] => options.ticked[h]
  /\ Dropping \/ Choosing \/ Refining => AtHome /\ ~Bookmarking
  /\ Choosing => ~Refining /\ ~Dropping /\ handler[Handlers[3]].enabled
  /\ Refining /\ Dropping => editor.on = Kept /\ ~rushed /\ used.words <= 1 /\ spent.drops <= 1
  /\ Bookmarking => handler[Handlers[3]].enabled
  /\ Cardinality(values) <= 1
=============================================================================
