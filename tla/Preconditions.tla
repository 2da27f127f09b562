---------------------------- MODULE Preconditions ----------------------------
(***************************************************************************)
(* The preconditions of the annotation functions, and the dialogs that     *)
(* refine them (preconditions_ll1.js, preconditions.js, options2.js, and   *)
(* parsePrecondition and EventHandler of AnnotationManager.jsm).           *)
(*                                                                         *)
(* A precondition is a formula over the roles of the resource something is *)
(* dropped on.  The user can only refine the precondition a handler was    *)
(* registered with: the dialog conjoins the text typed to it.  Two pieces  *)
(* of code read such a text: the tokenizer of the editor, a table of       *)
(* transitions that decides whether OK may be pressed, and the parser of   *)
(* the manager, with two stacks, whose function decides where the handler  *)
(* applies.  Here a text is a sequence of words and a precondition the set *)
(* of the roles at which it holds.                                         *)
(*                                                                         *)
(* The names of Object.prototype without a dot (toString) are not among    *)
(* the words: the editor marks them as unknown, but parsePrecondition finds*)
(* them in its tables of priorities and operators, and takes them for      *)
(* binary operators.                                                       *)
(***************************************************************************)
EXTENDS Naturals, Sequences, FiniteSets, SequencesExt

CONSTANTS
  Role,         \* the roles of resources
  Meaning,      \* [atom -> roles]: annotation.Preconditions
  Inherited,    \* dotted names of a method every object has (True.toString): atoms
                \* of the parser only, which hold anywhere
  Unknown,      \* words that name nothing
  Begins,       \* pairs <<word, longer word>> of a word and one it begins
  Handlers,     \* the handlers of the family, in the order of registration
  Default,      \* [handler -> text]: the default preconditions
  MaxWords,     \* bound: words the user types
  MaxEdits      \* bound: times the editor is opened

Keyword == {"(", ")", "and", "or", "not"}
Atom == DOMAIN Meaning
Word == Keyword \cup Atom \cup Inherited \cup Unknown
Text == Seq(Word)
Handler == Range(Handlers)
Kept == "none"    \* no handler is being edited

ASSUME MeaningAssumption == Meaning \in [Atom -> SUBSET Role]
ASSUME HandlersAssumption == Handlers \in Seq(Handler) /\ Kept \notin Handler

(* Every handler is registered with one atom (Role.Cls, Role.Concept, or   *)
(* Role.Any when nothing is given).  A default with an or in it would lose *)
(* its parentheses when the text of the user is conjoined.                 *)
ASSUME DefaultAssumption ==
  /\ Default \in [Handler -> Text]
  /\ \A h \in Handler : \E a \in Atom \ Keyword : Default[h] = <<a>>

ASSUME BoundsAssumption == MaxWords \in Nat /\ MaxEdits \in Nat

VARIABLES
  handler,  \* [Handler -> record]: the handlers, as the manager keeps them
  options,  \* the options dialog of the family
  editor,   \* the precondition editor
  rushed,   \* has a text been accepted before the editor had looked at it?
  used      \* words typed and editors opened so far

vars == <<handler, options, editor, rushed, used>>

-----------------------------------------------------------------------------
(* The editor: one transition per word, from a state that says whether an  *)
(* operand is expected (S0 at the start, S2 later) or not (S1).            *)

Start == [key |-> "S0", depth |-> 0, marked |-> FALSE, error |-> FALSE]

Category(w) == IF w \in Keyword THEN w ELSE "ATOM"

\* The transition table: the key after a word, none when there is none.
Transition == [S0 |-> [w \in {"(", "not", "ATOM"} |->
                         IF w = "ATOM" THEN "S1" ELSE "S2"],
               S1 |-> [w \in {")", "and", "or"} |->
                         IF w = ")" THEN "S1" ELSE "S2"],
               S2 |-> [w \in {"ATOM", "not", "("} |->
                         IF w = "ATOM" THEN "S1" ELSE "S2"]]

(* The categories the table has a transition for; a parenthesis is closed  *)
(* only when one is open.                                                  *)
Offered(s) == {c \in DOMAIN Transition[s.key] : c = ")" => s.depth > 0}

(* One word: after an error nothing is looked at, and an unknown atom is   *)
(* marked but followed.                                                    *)
TokenBase(s, w) ==
  LET c == Category(w)
      m == s.marked \/ (c = "ATOM" /\ w \notin Atom)
  IN IF s.error THEN s
     ELSE IF c \in Offered(s)
     THEN [key |-> Transition[s.key][c], marked |-> m, error |-> FALSE,
           depth |-> s.depth + (IF c = "(" THEN 1 ELSE 0)
                             - (IF c = ")" THEN 1 ELSE 0)]
     ELSE [s EXCEPT !.marked = TRUE, !.error = TRUE]

\* The state at the end of a text.
StateAfter(text) ==
  LET after[i \in 0..Len(text)] == IF i = 0 THEN Start
                                   ELSE TokenBase(after[i - 1], text[i])
  IN after[Len(text)]

IsValid(s) == ~s.error /\ ~s.marked /\ s.depth = 0 /\ s.key \in {"S0", "S1"}

\* What may follow, atoms named one by one.
Possibles(s) ==
  IF s.error THEN {}
  ELSE (Offered(s) \ {"ATOM"}) \cup (IF "ATOM" \in Offered(s) THEN Atom ELSE {})

-----------------------------------------------------------------------------
(* The parser: values and operators on two stacks.                         *)

Prio(op) == CASE op \in {"(", ")"} -> 0 [] op = "or" -> 1
              [] op = "and" -> 2 [] op = "not" -> 3

(* Definitions named Mut... are plausible mistakes.  No action uses them:  *)
(* each is checked to break a property when it replaces the definition it  *)
(* is named after.                                                         *)
MutYields(op, w) == op # "(" /\ w # "(" /\ Prio(op) >= Prio(w) /\ op # "not"

\* Does the operator on top of the stack go before the word that follows?
Yields(op, w) == /\ op # "(" /\ w # "("
                 /\ Prio(op) > Prio(w) \/ (Prio(op) = Prio(w) /\ op # "not")

\* The operator on top is applied to the values on top.
Reduce(p) ==
  LET op == Last(p.ops)
      v == p.values
      a == v[Len(v)]
  IN [p EXCEPT !.ops = Front(@),
               !.values = IF op = "not" THEN Append(Front(v), Role \ a)
                          ELSE LET b == v[Len(v) - 1] IN
                               Append(Front(Front(v)), IF op = "and" THEN b \cap a
                                                       ELSE b \cup a)]

\* One turn of the loop that applies the operators before w.
Popped(p, w) == IF p.ops # <<>> /\ Yields(Last(p.ops), w) THEN Reduce(p) ELSE p

\* The loop: it ends when there is nothing left that goes before w.
Unwound(p, w) ==
  LET popped[i \in 0..Len(p.ops)] == IF i = 0 THEN p ELSE Popped(popped[i - 1], w)
  IN popped[Len(p.ops)]

Failure(p) == [p EXCEPT !.failed = TRUE]

(* getPreconditionObject *)
Operand(p, w) ==
  IF p.wanted /\ w \in Atom \cup Inherited
  THEN [p EXCEPT !.wanted = FALSE,
                 !.values = Append(@, IF w \in Atom THEN Meaning[w] ELSE Role)]
  ELSE Failure(p)

Operator(p, w) ==
  LET q == Unwound(p, w)
  IN IF p.wanted # (w \in {"(", "not"}) THEN Failure(p)
     ELSE IF w # ")" THEN [q EXCEPT !.wanted = TRUE, !.ops = Append(@, w)]
     ELSE IF q.ops = <<>> THEN Failure(p)
     ELSE [q EXCEPT !.wanted = FALSE, !.ops = Front(@)]

ReadWord(p, w) == IF p.failed THEN p
                  ELSE IF w \in Keyword THEN Operator(p, w)
                  ELSE Operand(p, w)

\* The parser in state p reads a text.
Read(p, text) ==
  LET read[i \in 0..Len(text)] == IF i = 0 THEN p ELSE ReadWord(read[i - 1], text[i])
  IN read[Len(text)]

Nothing == [values |-> <<>>, ops |-> <<>>, wanted |-> TRUE, failed |-> FALSE]

(* What parsePrecondition returns, as a set of at most one precondition:   *)
(* none when it throws.  The end of the text goes after every operator, as *)
(* a closing parenthesis does, and an open parenthesis may not be left.    *)
ParsePrecondition(text) ==
  LET p == Read(Nothing, text)
      q == Unwound(p, ")")
  IN IF p.failed \/ (p.wanted /\ p.ops # <<>>) \/ q.ops # <<>> \/ Len(q.values) > 1
     THEN {}
     ELSE IF q.values = <<>> THEN {Role} ELSE {q.values[1]}

-----------------------------------------------------------------------------
(* The reference: the meaning of a formula by its structure.  The operator *)
(* applied last is the last or outside parentheses, then the last and,     *)
(* then a leading not.  An expression means a set of one precondition,     *)
(* anything else the empty set.                                            *)

Depth(t, i) == Cardinality({j \in 1..i : t[j] = "("})
               - Cardinality({j \in 1..i : t[j] = ")"})

\* The places of an operator outside parentheses, and the texts around one.
Tops(t, op) == {i \in DOMAIN t : t[i] = op /\ Depth(t, i) = 0}
Left(t, i) == SubSeq(t, 1, i - 1)
Right(t, i) == SubSeq(t, i + 1, Len(t))

Senses[t \in Text] ==
  LET Sides(op) == LET i == Max(Tops(t, op))
                   IN Senses[Left(t, i)] \X Senses[Right(t, i)]
  IN IF t = <<>> THEN {}
     ELSE IF Tops(t, "or") # {} THEN {s[1] \cup s[2] : s \in Sides("or")}
     ELSE IF Tops(t, "and") # {} THEN {s[1] \cap s[2] : s \in Sides("and")}
     ELSE IF Head(t) = "not" THEN {Role \ s : s \in Senses[Tail(t)]}
     ELSE IF Len(t) > 2 /\ Head(t) = "(" /\ Last(t) = ")" THEN Senses[Front(Tail(t))]
     ELSE IF Len(t) = 1 /\ Head(t) \in Atom THEN {Meaning[Head(t)]}
     ELSE {}

\* Nothing typed means no restriction.
Meant(t) == IF t = <<>> THEN {Role} ELSE Senses[t]

-----------------------------------------------------------------------------
(* The handlers and the dialogs.                                           *)

\* What a handler's precondition is read from.
PreconditionSpec(h, restriction) ==
  IF restriction = <<>> THEN Default[h]
  ELSE Default[h] \o <<"and", "(">> \o restriction \o <<")">>

Closed == [on |-> Kept, text |-> <<>>, blank |-> TRUE, enabled |-> FALSE,
           looked |-> FALSE]

Init ==
  /\ handler = [h \in Handler |-> [enabled |-> TRUE, restriction |-> <<>>,
                  precondition |-> CHOOSE p \in ParsePrecondition(Default[h]) : TRUE]]
  /\ options = [open |-> FALSE,
                ticked |-> [h \in Handler |-> TRUE],
                pending |-> [h \in Handler |-> <<>>]]
  /\ editor = Closed
  /\ rushed = FALSE
  /\ used = [words |-> 0, edits |-> 0]

InOptions == options.open /\ editor.on = Kept

(* options2.js, init: one check box and one text per handler.              *)
OpenOptions ==
  /\ ~options.open
  /\ options' = [open |-> TRUE,
                 ticked |-> [h \in Handler |-> handler[h].enabled],
                 pending |-> [h \in Handler |-> handler[h].restriction]]
  /\ UNCHANGED <<handler, editor, rushed, used>>

Tick(h) ==
  /\ InOptions
  /\ options' = [options EXCEPT !.ticked[h] = ~@]
  /\ UNCHANGED <<handler, editor, rushed, used>>

(* openPreconditionEditor, and onload of the editor: OK is disabled until  *)
(* the text has been looked at.                                            *)
OpenPreconditionEditor(h) ==
  /\ InOptions
  /\ used.edits < MaxEdits
  /\ used' = [used EXCEPT !.edits = @ + 1]
  /\ editor' = [Closed EXCEPT !.on = h, !.text = options.pending[h]]
  /\ UNCHANGED <<handler, options, rushed>>

(* The user types, at the end: a word ends at a blank or where the next    *)
(* one begins.  The button stays as it is.                                 *)
Write(text, blank) ==
  /\ editor' = [editor EXCEPT !.text = text, !.blank = blank, !.looked = FALSE]
  /\ UNCHANGED <<handler, options, rushed>>

TypeWord(w) ==
  /\ editor.on # Kept
  /\ used.words < MaxWords
  /\ used' = [used EXCEPT !.words = @ + 1]
  /\ Write(Append(editor.text, w), FALSE)

TypeBlank == editor.on # Kept /\ ~editor.blank /\ Write(editor.text, TRUE)
             /\ UNCHANGED used

Erase == editor.on # Kept /\ editor.text # <<>> /\ Write(Front(editor.text), TRUE)
         /\ UNCHANGED used

(* cmUpdate: run when the highlighter, started by a change after a tenth   *)
(* of a second, has gone through the text.                                 *)
CmUpdate ==
  /\ editor.on # Kept
  /\ ~editor.looked
  /\ editor' = [editor EXCEPT !.looked = TRUE,
                              !.enabled = IsValid(StateAfter(editor.text))]
  /\ UNCHANGED <<handler, options, rushed, used>>

(* startComplete: the words that may be inserted, and those that may       *)
(* replace the word under the cursor.  The state taken for the one before  *)
(* that word is the one at the end of the line (token.start.ch is not      *)
(* defined), so that keywords replace it by what may FOLLOW it.            *)
Current == IF editor.blank \/ editor.text = <<>> THEN "" ELSE Last(editor.text)
BeginsWith(p) == Current = "" \/ <<Current, p>> \in Begins
Replacing ==
  {p \in Possibles(StateAfter(editor.text)) : ~editor.blank /\ BeginsWith(p)}
  \cup {a \in Atom : Current # "" /\ Category(Current) = "ATOM" /\ BeginsWith(a)}
Inserting == Possibles(StateAfter(editor.text)) \ Replacing

(* insertReplacement, once one is picked: a blank is put between words.    *)
InsertWord ==
  /\ editor.on # Kept
  /\ used.words < MaxWords
  /\ used' = [used EXCEPT !.words = @ + 1]
  /\ \E w \in Inserting : Write(Append(editor.text, w), FALSE)

ReplaceWord ==
  /\ editor.on # Kept
  /\ Current # ""
  /\ \E w \in Replacing : Write(Append(Front(editor.text), w), FALSE)
  /\ UNCHANGED used

(* OK and Cancel of the editor.                                            *)
AcceptText ==
  /\ editor.on # Kept
  /\ editor.enabled
  /\ options' = [options EXCEPT !.pending[editor.on] = editor.text]
  /\ rushed' = (rushed \/ ~editor.looked)
  /\ editor' = Closed
  /\ UNCHANGED <<handler, used>>

CancelText ==
  /\ editor.on # Kept
  /\ editor' = Closed
  /\ UNCHANGED <<handler, options, rushed, used>>

MutConfigured(h) ==
  LET parsed == ParsePrecondition(Default[h] \o <<"and">> \o options.pending[h])
  IN [enabled |-> options.ticked[h], restriction |-> options.pending[h],
      precondition |-> IF parsed = {} THEN handler[h].precondition
                       ELSE CHOOSE p \in parsed : TRUE]

(* setEnabled and setPreconditionRestrictionSpec.  When the parser throws, *)
(* so does the recovery (annotation.Role is not defined): the text is      *)
(* kept, the precondition stays the old one.                               *)
Configured(h) ==
  LET r == options.pending[h]
      parsed == ParsePrecondition(PreconditionSpec(h, r))
  IN [enabled |-> options.ticked[h], restriction |-> r,
      precondition |-> IF parsed = {} THEN handler[h].precondition
                       ELSE CHOOSE p \in parsed : TRUE]

Throws(h) == ParsePrecondition(PreconditionSpec(h, options.pending[h])) = {}

(* onAccept of options2.js: the handlers in order, up to the first that    *)
(* throws.                                                                 *)
AcceptOptions ==
  /\ InOptions
  /\ handler' = [h \in Handler |->
       IF \E i \in DOMAIN Handlers :
            Handlers[i] = h /\ \A j \in 1..(i - 1) : ~Throws(Handlers[j])
       THEN Configured(h) ELSE handler[h]]
  /\ options' = [options EXCEPT !.open = FALSE]
  /\ UNCHANGED <<editor, rushed, used>>

CancelOptions ==
  /\ InOptions
  /\ options' = [options EXCEPT !.open = FALSE]
  /\ UNCHANGED <<handler, editor, rushed, used>>

Next ==
  \/ OpenOptions
  \/ \E h \in Handler : Tick(h) \/ OpenPreconditionEditor(h)
  \/ \E w \in Word : TypeWord(w)
  \/ TypeBlank \/ Erase \/ CmUpdate \/ InsertWord \/ ReplaceWord
  \/ AcceptText \/ CancelText
  \/ AcceptOptions \/ CancelOptions

Spec == Init /\ [][Next]_vars

-----------------------------------------------------------------------------
(* Properties.                                                             *)

TypeOK ==
  /\ handler \in [Handler -> [enabled : BOOLEAN, restriction : Text,
                              precondition : SUBSET Role]]
  /\ options \in [open : BOOLEAN, ticked : [Handler -> BOOLEAN],
                  pending : [Handler -> Text]]
  /\ editor \in [on : Handler \cup {Kept}, text : Text, blank : BOOLEAN,
                 enabled : BOOLEAN, looked : BOOLEAN]
  /\ rushed \in BOOLEAN
  /\ used \in [words : 0..MaxWords, edits : 0..MaxEdits]

(* The two readers of a text agree, with each other and with the usual     *)
(* reading of formulas: a text the editor accepts is parsed, to what its   *)
(* structure means (nothing typed means no restriction), and what is       *)
(* parsed from known words is accepted by the editor                       *)
(* (preconditions_ll1.js and parsePrecondition of AnnotationManager.jsm).  *)
ReadersAgree ==
  LET t == editor.text
  IN /\ IsValid(StateAfter(t)) =>
          ParsePrecondition(t) = Meant(t)
     /\ (ParsePrecondition(t) # {} /\ Range(t) \cap Inherited = {}) =>
          IsValid(StateAfter(t))

\* What a default and the text conjoined to it mean, by their structure.
Conjoined(h, r) == {d \cap s : d \in Senses[Default[h]], s \in Meant(r)}

(* When OK is pressed only after the editor has looked at the text, the    *)
(* precondition of every handler is the one it was registered with and     *)
(* the text the user saw accepted for it, whatever was saved or cancelled  *)
(* in between (setPreconditionRestrictionSpec and onAccept of options2.js).*)
RefinementsAreTheTexts ==
  ~rushed => \A h \in Handler :
    {handler[h].precondition} = Conjoined(h, handler[h].restriction)
=============================================================================
