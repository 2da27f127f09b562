------------------------------- MODULE MCTabs -------------------------------
(* Instances of Tabs.  Of the properties there are two projects: one with  *)
(* imported ones only, and one with a property below two others, and below *)
(* one of those twice.  The grammar is a part of ll1_table: its rows and   *)
(* columns for prologues, SELECT and ASK, data sets, one group of triples  *)
(* of variables, limits and offsets.                                       *)
EXTENDS Tabs, TLC

CONSTANTS imp, upper, left, low

Few == [live |-> {imp}, supers |-> [p \in Property |-> {}]]

Diamond ==
  [live |-> {imp, upper, left, low},
   supers |-> [p \in Property |-> CASE p = left -> {upper} [] p = low -> {upper, left, imp} [] OTHER -> {}]]

MCStart == {Few, Diamond}

On(terminals, symbols) == [t \in terminals |-> symbols]

LL1Table ==
  "*[,, object]" :> On({".", "}", "{"}, <<>>)
  @@ "*[;, ?[verb, objectList]]" :> On({".", "}", "{"}, <<>>)
  @@ "*[or([graphPatternNotTriples, filter]), ?., ?triplesBlock]" :> On({"}"}, <<>>)
  @@ "*datasetClause" :> (On({"FROM"}, <<"datasetClause", "*datasetClause">>) @@ On({"{"}, <<>>))
  @@ "*prefixDecl" :>
       (On({"PREFIX"}, <<"prefixDecl", "*prefixDecl">>) @@ On({"SELECT", "ASK"}, <<>>))
  @@ "*var" :> (On({"VAR1"}, <<"var", "*var">>) @@ On({"{", "FROM"}, <<>>))
  @@ "+var" :> On({"VAR1"}, <<"var", "*var">>)
  @@ "?WHERE" :> On({"{"}, <<>>)
  @@ "?[., ?triplesBlock]" :> (On({"."}, <<"[., ?triplesBlock]">>) @@ On({"}", "{"}, <<>>))
  @@ "?baseDecl" :> On({"SELECT", "ASK", "PREFIX"}, <<>>)
  @@ "?limitOffsetClauses" :> (On({"LIMIT"}, <<"limitOffsetClauses">>) @@ On({"$"}, <<>>))
  @@ "?offsetClause" :> (On({"OFFSET"}, <<"offsetClause">>) @@ On({"$"}, <<>>))
  @@ "?or([DISTINCT, REDUCED])" :> On({"*", "VAR1"}, <<>>)
  @@ "?orderClause" :> On({"LIMIT", "$"}, <<>>)
  @@ "?triplesBlock" :> (On({"VAR1"}, <<"triplesBlock">>) @@ On({"}"}, <<>>))
  @@ "[., ?triplesBlock]" :> On({"."}, <<".", "?triplesBlock">>)
  @@ "askQuery" :> On({"ASK"}, <<"ASK", "*datasetClause", "whereClause", "solutionModifier">>)
  @@ "datasetClause" :> On({"FROM"}, <<"FROM", "or([defaultGraphClause, namedGraphClause])">>)
  @@ "defaultGraphClause" :> On({"IRI_REF"}, <<"sourceSelector">>)
  @@ "graphNode" :> On({"VAR1"}, <<"varOrTerm">>)
  @@ "groupGraphPattern" :>
       On({"{"}, <<"{", "?triplesBlock", "*[or([graphPatternNotTriples, filter]), ?., ?triplesBlock]", "}">>)
  @@ "iriRef" :> On({"IRI_REF"}, <<"IRI_REF">>)
  @@ "limitClause" :> On({"LIMIT"}, <<"LIMIT", "INTEGER">>)
  @@ "limitOffsetClauses" :> On({"LIMIT"}, <<"limitClause", "?offsetClause">>)
  @@ "namedGraphClause" :> On({"NAMED"}, <<"NAMED", "sourceSelector">>)
  @@ "object" :> On({"VAR1"}, <<"graphNode">>)
  @@ "objectList" :> On({"VAR1"}, <<"object", "*[,, object]">>)
  @@ "offsetClause" :> On({"OFFSET"}, <<"OFFSET", "INTEGER">>)
  @@ "or([+var, *])" :> (On({"VAR1"}, <<"+var">>) @@ On({"*"}, <<"*">>))
  @@ "or([defaultGraphClause, namedGraphClause])" :>
       (On({"IRI_REF"}, <<"defaultGraphClause">>) @@ On({"NAMED"}, <<"namedGraphClause">>))
  @@ "or([selectQuery, constructQuery, describeQuery, askQuery])" :>
       (On({"SELECT"}, <<"selectQuery">>) @@ On({"ASK"}, <<"askQuery">>))
  @@ "prefixDecl" :> On({"PREFIX"}, <<"PREFIX", "PNAME_NS", "IRI_REF">>)
  @@ "prologue" :> On({"PREFIX", "SELECT", "ASK"}, <<"?baseDecl", "*prefixDecl">>)
  @@ "propertyListNotEmpty" :> On({"VAR1"}, <<"verb", "objectList", "*[;, ?[verb, objectList]]">>)
  @@ "query" :>
       On({"SELECT", "ASK", "PREFIX"}, <<"prologue", "or([selectQuery, constructQuery, describeQuery, askQuery])">>)
  @@ "selectQuery" :>
       On({"SELECT"}, <<"SELECT", "?or([DISTINCT, REDUCED])", "or([+var, *])", "*datasetClause", "whereClause", "solutionModifier">>)
  @@ "solutionModifier" :> On({"LIMIT", "$"}, <<"?orderClause", "?limitOffsetClauses">>)
  @@ "sourceSelector" :> On({"IRI_REF"}, <<"iriRef">>)
  @@ "triplesBlock" :> On({"VAR1"}, <<"triplesSameSubject", "?[., ?triplesBlock]">>)
  @@ "triplesSameSubject" :> On({"VAR1"}, <<"varOrTerm", "propertyListNotEmpty">>)
  @@ "var" :> On({"VAR1"}, <<"VAR1">>)
  @@ "varOrIRIref" :> On({"VAR1"}, <<"var">>)
  @@ "varOrTerm" :> On({"VAR1"}, <<"var">>)
  @@ "verb" :> On({"VAR1"}, <<"varOrIRIref">>)
  @@ "whereClause" :> On({"{"}, <<"?WHERE", "groupGraphPattern">>)

MCTable == LL1Table
MCKeyword == {"PREFIX", "SELECT", "ASK", "FROM", "NAMED", "LIMIT", "OFFSET"}
MCPunct == {"*", "{", "}", "."}
MCOpener == "?" :> "VAR1" @@ "<" :> "IRI_REF"
MCBegins == {<<"?", "VAR1">>, <<"<", "IRI_REF">>, <<"p", "PNAME_NS">>,
             <<"OF", "OFFSET">>, <<"AS", "ASK">>}

(* One row binds both variables, one only one of them.                     *)
MCAnswers ==
  LET uri == [label |-> "u", type |-> "uri"]
      literal == [label |-> "l", type |-> "literal"]
  IN {[kind |-> "tuple", vars |-> <<"x", "y">>,
       bindings |-> <<"x" :> uri @@ "y" :> literal, "y" :> uri>>],
      [kind |-> "graph", stms |-> <<<<"u", "v", "l">>>>],
      [kind |-> "boolean", value |-> "true"]}

(* The tabs share the events of projects only: properties are not edited   *)
(* while the SPARQL tab is open.  What is written matters to none of these *)
(* events and to no answer: it is looked at with the rest at one value.    *)
OneAtATime ==
  /\ tab # "closed" => model \in {Few, NoModel}
  /\ text # <<>> => /\ started /\ model = Few /\ panel = "unloaded"
                   /\ tab = "enabled" /\ mappings > 0 /\ answer = None
=============================================================================
