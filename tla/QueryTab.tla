------------------------------ MODULE QueryTab ------------------------------
(***************************************************************************)
(* The SPARQL tab (sparql.js) and the tokenizer of its editor              *)
(* (sparqlmode_ll1.js): the editor reads the query with a table of a       *)
(* grammar, draws the button of a query it takes for wrong or unfinished   *)
(* grey, and offers completions; the server's answer is shown as a table   *)
(* whose cells open editors.                                               *)
(*                                                                         *)
(* A text is a sequence of words and blanks (a line break is a blank).     *)
(* Words are written at the end.  Only the answers in JSON are modelled:   *)
(* the service asks for nothing else (SERVICE_SPARQL.jsm).                 *)
(***************************************************************************)
EXTENDS Integers, Sequences, FiniteSets, SequencesExt

CONSTANTS
  Table,     (* [nonterminal -> [terminal -> symbols]]: ll1_table           *)
  Keyword,   (* terminals that are keywords                                 *)
  Punct,     (* terminals that are punctuation                              *)
  Opener,    (* [beginning -> terminal]: the characters literals start with *)
  Begins,    (* pairs <<beginning, terminal>> of what may be typed          *)
  MaxWords,  (* bound on the words of the text                              *)
  Answers    (* what the server may answer to a query: records with a kind  *)

Blank == " "
Nonterminal == DOMAIN Table
Terminal == UNION {DOMAIN Table[n] : n \in Nonterminal}
              \cup (UNION {UNION {Range(Table[n][t]) : t \in DOMAIN Table[n]} : n \in Nonterminal}
                      \ Nonterminal)
Symbol == Nonterminal \cup Terminal
Beginning == {b[1] : b \in Begins}
End == "$"   (* the end of the input, which no word stands for             *)
Word == (Terminal \ {End}) \cup Beginning

ASSUME QueryAssumption ==
  /\ MaxWords \in Nat
  /\ {"query"} \cup Keyword \cup Punct \subseteq Symbol
  /\ Beginning \cap Terminal = {} /\ Blank \notin Word
  /\ \A o \in DOMAIN Opener : <<o, Opener[o]>> \in Begins

ASSUME AnswersAssumption ==
  \A a \in Answers :
    /\ a.kind \in {"tuple", "graph", "boolean"}
    /\ a.kind = "tuple" => /\ a.vars \in Seq(Range(a.vars))
                           /\ a.bindings \in Seq(Range(a.bindings))

VARIABLES
  tab,       (* not open, or whether its button works                       *)
  text,      (* what is written in the editor                               *)
  read,      (* the state of the tokenizer at its end                       *)
  mappings,  (* how many prefixes it knows, from the time it was opened     *)
  answer,    (* history: the last answer of the server, or none             *)
  results    (* the columns and rows of SPARQLTree                          *)

queryVars == <<tab, text, read, mappings, answer, results>>

-----------------------------------------------------------------------------
(***************************************************************************)
(* Reading a query.                                                        *)
(***************************************************************************)
GetPossibles(stack) ==
  IF stack = <<>> THEN {}
  ELSE IF Last(stack) \in Nonterminal THEN DOMAIN Table[Last(stack)] ELSE {Last(stack)}

StartState == [stack |-> <<"query">>, ok |-> TRUE,
               current |-> DOMAIN Table["query"], next |-> DOMAIN Table["query"]]

(* The loop of tokenBase: a terminal on top is taken off whether it is the *)
(* one read or not, a nonterminal without an entry is put back, and with   *)
(* nothing left on the stack no word is looked at any more.                *)
Digest(stack, w) ==
  LET digest[s \in Seq(Symbol)] ==
        IF s = <<>> THEN [stack |-> s, ok |-> TRUE]
        ELSE LET top == Last(s)
                 rest == Front(s)
             IN IF top \notin Nonterminal THEN [stack |-> rest, ok |-> top = w]
                ELSE IF w \in DOMAIN Table[top] THEN digest[rest \o Reverse(Table[top][w])]
                ELSE [stack |-> s, ok |-> FALSE]
  IN digest[stack]

(* "<" alone is punctuation, any other beginning an invalid token.         *)
Invalid(w) == w \in Beginning \ {"<"}

TokenBase(s, w) ==
  IF Invalid(w) THEN [s EXCEPT !.ok = FALSE]
  ELSE IF w = Blank THEN [s EXCEPT !.current = s.next]
  ELSE LET d == IF s.ok THEN Digest(s.stack, w) ELSE [stack |-> s.stack, ok |-> FALSE]
       IN [stack |-> d.stack, ok |-> d.ok, current |-> s.next, next |-> GetPossibles(d.stack)]

StateAfter(t) ==
  LET after[i \in 0..Len(t)] == IF i = 0 THEN StartState ELSE TokenBase(after[i - 1], t[i])
  IN after[Len(t)]

(* Definitions named Mut... are plausible mistakes.  No action uses them:  *)
(* each stands in for the definition that follows it when a run is         *)
(* repeated to see that its property can fail.                             *)
MutQueryValid == read.ok /\ Len(read.stack) <= 1

(* cmUpdate: the parser is not told of the end of the input; what is left  *)
(* must be one of the symbols that may be empty.  The button works all the *)
(* same; it is drawn when the highlighter has gone through the text.       *)
QueryValid ==
  /\ read.ok
  /\ \/ Len(read.stack) = 0
     \/ /\ Len(read.stack) = 1
        /\ read.stack[1] \in {"solutionModifier", "?limitOffsetClauses", "?offsetClause"}

-----------------------------------------------------------------------------
(***************************************************************************)
(* Completions, with the cursor at the end.                                *)
(***************************************************************************)
Prefixed == {"PNAME_NS", "PNAME_LN"}

(* getPossiblesAtCursor: how the word before the cursor is dealt with.  A  *)
(* beginning is to be replaced, and what may stand there is asked of the   *)
(* state before it; after any other word something is to be inserted.      *)
Cursor ==
  LET w == Last(text)
  IN IF text = <<>> \/ w = Blank
     THEN [mode |-> "insert", start |-> "", possibles |-> read.next]
     ELSE IF Invalid(w) \/ w \in Prefixed \/ (w = "<" /\ "IRI_REF" \in read.current)
     THEN [mode |-> "replace", start |-> w, possibles |-> read.current]
     ELSE [mode |-> "append", start |-> "", possibles |-> read.next]

InGraphContext(stack) ==
  \/ stack # <<>> /\ Last(stack) = "sourceSelector"
  \/ Len(stack) > 1 /\ stack[Len(stack) - 1] = "groupGraphPattern"

InPrefixDecl(stack) ==
  LET n == Len(stack)
  IN n >= 3 /\ stack[n - 1] = "IRI_REF" /\ stack[n - 2] = "*prefixDecl"

Mapping == <<"PNAME_NS", Blank, "IRI_REF">>

(* The item "All prefixes" ends in a line break.                           *)
AllPrefixes ==
  FlattenSeq([k \in 1..mappings |->
                (IF k = 1 THEN <<>> ELSE <<"PREFIX", Blank>>) \o Mapping \o <<Blank>>])

(* gatherCompletions: the texts offered for one terminal.                  *)
Gathered(stack, p, start) ==
  CASE p \in Keyword \cup Punct -> {<<p>>}
    [] p = "IRI_REF" -> IF InGraphContext(stack) THEN {<<"IRI_REF">>}
                        ELSE IF start # "<" THEN {<<"<">>} ELSE {}
    [] p = "PNAME_NS" -> IF ~InPrefixDecl(stack) THEN {}
                         ELSE {AllPrefixes} \cup (IF mappings > 0 THEN {Mapping} ELSE {})
    [] p \in Range(Opener) \ {"IRI_REF"} -> {<<o>> : o \in {o \in DOMAIN Opener : Opener[o] = p}}
    [] OTHER -> {}

StartsWith(c, start) == start = "" \/ (c # <<>> /\ <<start, c[1]>> \in Begins)

GetCompletions ==
  LET c == Cursor
  IN {x \in UNION {Gathered(read.stack, p, c.start) : p \in c.possibles} : StartsWith(x, c.start)}

(* Blanks are put before what is inserted after a word, and behind a word  *)
(* of letters (several blanks are one).                                    *)
InsertOrReplace(x) ==
  LET letters == Len(x) = 1 /\ x[1] \in Keyword \cup {"*"}
      y == IF letters THEN Append(x, Blank) ELSE x
  IN CASE Cursor.mode = "insert" -> text \o y
       [] Cursor.mode = "append" -> text \o <<Blank>> \o y
       [] Cursor.mode = "replace" -> Front(text) \o y

-----------------------------------------------------------------------------
(***************************************************************************)
(* The table of results.  A cell has the text and the type of what a       *)
(* variable is bound to; in the rows of a graph or a truth value no cell   *)
(* has a type.                                                             *)
(***************************************************************************)
Unbound == [label |-> "", type |-> "unbound"]
Plain(label) == [label |-> label, type |-> "none"]
Empty == [cols |-> <<>>, rows |-> <<>>]
None == [kind |-> "none"]
Lost == [kind |-> "lost"]   (* an answer that is not one: a failing request *)
Bare == [kind |-> "fail"]   (* a refused query, or an exception              *)

MutCells(vars, b) ==
  LET bound == SelectSeq(vars, LAMBDA v : v \in DOMAIN b)
  IN [i \in DOMAIN bound |-> b[bound[i]]]

Cells(vars, b) == [i \in DOMAIN vars |-> IF vars[i] \in DOMAIN b THEN b[vars[i]] ELSE Unbound]

(* resolveQuery_RESPONSE: the old results go first.                        *)
Resolved(a) ==
  CASE a.kind = "tuple" ->
         [cols |-> a.vars, rows |-> [k \in DOMAIN a.bindings |-> Cells(a.vars, a.bindings[k])]]
    [] a.kind = "graph" ->
         [cols |-> <<"subject", "predicate", "object">>,
          rows |-> [k \in DOMAIN a.stms |-> [i \in 1..3 |-> Plain(a.stms[k][i])]]]
    [] a.kind = "boolean" -> [cols |-> <<"Result">>, rows |-> <<<<Plain(a.value)>>>>]
    [] OTHER -> Empty

(* SPARQLResourcedblClick: the resource an editor is opened for, if any.   *)
Opens(k, i) ==
  LET row == results.rows[k]
  IN IF i \in DOMAIN row /\ row[i].type \in {"uri", "bnode"} THEN {row[i].label} ELSE {}

-----------------------------------------------------------------------------
(***************************************************************************)
(* The tab.                                                                *)
(***************************************************************************)
QueryInit ==
  /\ tab = "closed" /\ text = <<>> /\ read = StartState /\ mappings = 0
  /\ answer = None /\ results = Empty

Closed == /\ tab' = "closed" /\ text' = <<>> /\ read' = StartState /\ mappings' = 0
          /\ answer' = None /\ results' = Empty

(* onload: the button works if there is a project; the prefixes are asked  *)
(* for once, and none are known when the server refuses.                   *)
OpenQueryTab(project, prefixes) ==
  /\ tab = "closed"
  /\ tab' = IF project THEN "enabled" ELSE "disabled"
  /\ mappings' = prefixes
  /\ UNCHANGED <<text, read, answer, results>>

CloseQueryTab == tab # "closed" /\ Closed

(* The listeners for projectOpened and projectClosed.                      *)
EnableSubmit == /\ tab' = IF tab = "closed" THEN tab ELSE "enabled"
                /\ UNCHANGED <<text, read, mappings, answer, results>>
DisableSubmit == /\ tab' = IF tab = "closed" THEN tab ELSE "disabled"
                 /\ UNCHANGED <<text, read, mappings, answer, results>>

Write(t, state) ==
  /\ tab # "closed"
  /\ Cardinality({i \in DOMAIN t : t[i] # Blank}) <= MaxWords
  /\ text' = t /\ read' = state
  /\ UNCHANGED <<tab, mappings, answer, results>>

Rewrite(t) == Write(t, StateAfter(t))

(* Words of letters are kept apart; nothing is written after an error (a   *)
(* bound).                                                                 *)
TypeWord(w) ==
  /\ read.ok
  /\ text # <<>> => {Last(text), w} \cap (Punct \cup {Blank}) # {}
  /\ Write(Append(text, w), TokenBase(read, w))

TypeBlank == text # <<>> /\ Last(text) # Blank /\ read.ok /\ Write(Append(text, Blank), TokenBase(read, Blank))

(* The rest of a word that was begun.                                      *)
FinishWord(w) ==
  /\ text # <<>> /\ <<Last(text), w>> \in Begins
  /\ Rewrite(Append(Front(text), w))

Erase == text # <<>> /\ Rewrite(Front(text))

(* startComplete, and pick when there is more than one.                    *)
Complete == \E x \in GetCompletions : Rewrite(InsertOrReplace(x))

(* submitQuery: a request that fails leaves the old results.               *)
SubmitQuery ==
  /\ tab = "enabled"
  /\ \E a \in Answers \cup {Bare, Lost} :
       /\ answer' = IF a = Lost THEN answer ELSE a
       /\ results' = IF a = Lost THEN results ELSE Resolved(a)
  /\ UNCHANGED <<tab, text, read, mappings>>

QueryStep ==
  \/ CloseQueryTab
  \/ \E w \in Word : TypeWord(w) \/ FinishWord(w)
  \/ TypeBlank \/ Erase \/ Complete \/ SubmitQuery

-----------------------------------------------------------------------------
(***************************************************************************)
(* Properties.                                                             *)
(***************************************************************************)
(* The reference: the terminals that come after t in the sentences of the  *)
(* table's grammar, read without looking ahead.                            *)
Rules(n) == {Table[n][t] : t \in DOMAIN Table[n]}

Following[symbols \in Seq(Symbol), t \in Seq(Word)] ==
  IF symbols = <<>> THEN {End : x \in {t} \cap {<<>>}}
  ELSE IF Head(symbols) \in Nonterminal
  THEN UNION {Following[r \o Tail(symbols), t] : r \in Rules(Head(symbols))}
  ELSE IF t = <<>> THEN {Head(symbols)}
  ELSE IF Head(t) = Head(symbols) THEN Following[Tail(symbols), Tail(t)] ELSE {}

Follow(t) == Following[<<"query">>, SelectSeq(t, LAMBDA w : w # Blank)]
IsQuery(t) == End \in Follow(t)

(* After a query to which nothing may be added the editor does not look at *)
(* what is written any more.                                               *)
Ended(t) == StateAfter(t).stack = <<>>

(* The text before what a completion replaces, when a blank separates it.  *)
Base == IF Cursor.mode = "replace" THEN Front(text) ELSE text
Spaced == Base = text \/ Base = <<>> \/ Last(Base) = Blank

Offered == {x[1] : x \in GetCompletions \ {<<>>}}
Reaches(w) == <<Cursor.start, w>> \in Begins \/ Cursor.start = ""

(* The editor knows the grammar, although it reads words one by one from a *)
(* table, is not told where the text ends and forgets what it reads after  *)
(* an error: what it takes without an error may stand there in a query,    *)
(* and a query that is not grey is one, up to the point where nothing may  *)
(* follow; and every keyword and punctuation that may come next is offered *)
(* (tokenBase of sparqlmode_ll1.js, cmUpdate and getCompletions of         *)
(* sparql.js).                                                             *)
EditorKnowsTheGrammar ==
  text # <<>> /\ ~Ended(Front(text)) =>
    /\ Last(text) # Blank /\ StateAfter(Front(text)).ok =>
         (read.ok <=> Last(text) \in Follow(Front(text)))
    /\ QueryValid <=> IsQuery(text)
    /\ Spaced /\ read.stack # <<>> /\ StateAfter(Base).ok =>
         \A w \in Follow(Base) \cap (Keyword \cup Punct) : Reaches(w) => w \in Offered

(* A row shows what its query bound to the variable of every column, also  *)
(* when some are not bound, and opens exactly the resources among them; an *)
(* answer without rows leaves none of an earlier one (resolveQuery_RESPONSE*)
(* and SPARQLResourcedblClick).                                            *)
RowsShowTheBindings ==
  /\ answer.kind \in {"none", "fail"} => results = Empty
  /\ answer.kind = "tuple" =>
       /\ results.cols = answer.vars /\ Len(results.rows) = Len(answer.bindings)
       /\ \A k \in DOMAIN results.rows, i \in DOMAIN results.cols :
            LET b == answer.bindings[k]
                v == results.cols[i]
            IN IF v \in DOMAIN b
               THEN /\ results.rows[k][i].label = b[v].label
                    /\ Opens(k, i) = {b[v].label : x \in {b[v].type} \cap {"uri", "bnode"}}
               ELSE Opens(k, i) = {}
=============================================================================
