--------------------------- MODULE Sidebar_proofs ---------------------------
(***************************************************************************)
(* Proofs about the panels of the sidebar: the property tree and the SPARQL *)
(* tab next to each other, and the class panel.                            *)
(***************************************************************************)
EXTENDS Tabs, ClassPanel, Induction

-----------------------------------------------------------------------------
(* The SPARQL tab *)

(* There is no project before the extension is started, a query can be      *)
(* submitted only when there is one, and the table is that of the last      *)
(* answer.                                                                  *)
QueryInv ==
  /\ current \in BOOLEAN /\ ~started => ~current
  /\ tab \in {"closed", "enabled", "disabled"}
  /\ tab = "enabled" => current
  /\ answer \in Answers \cup {None, Bare}
  /\ results = Resolved(answer)

LEMMA NothingResolved == Resolved(None) = Empty /\ Resolved(Bare) = Empty
  BY DEF Resolved, None, Bare

LEMMA QueryStart == TabsInit => QueryInv
<1> SUFFICES ASSUME TabsInit PROVE QueryInv
  OBVIOUS
<1>1. current = FALSE /\ tab = "closed" /\ answer = None /\ results = Empty
  BY DEF TabsInit, Init, QueryInit
<1>2. QED
  BY <1>1, NothingResolved DEF QueryInv

\* What is written in the editor changes nothing else.
LEMMA WriteKeeps ==
  ASSUME NEW t, NEW s, Write(t, s)
  PROVE  UNCHANGED <<tab, mappings, answer, results>>
  BY DEF Write

LEMMA QueryStepIs ==
  QueryStep => \/ CloseQueryTab
               \/ SubmitQuery
               \/ UNCHANGED <<tab, mappings, answer, results>>
<1> SUFFICES ASSUME QueryStep, ~CloseQueryTab, ~SubmitQuery
             PROVE  UNCHANGED <<tab, mappings, answer, results>>
  OBVIOUS
<1>1. ASSUME NEW w \in Word, TypeWord(w) PROVE UNCHANGED <<tab, mappings, answer, results>>
  BY <1>1, WriteKeeps DEF TypeWord
<1>2. ASSUME NEW w \in Word, FinishWord(w) PROVE UNCHANGED <<tab, mappings, answer, results>>
  BY <1>2, WriteKeeps DEF FinishWord, Rewrite
<1>3. ASSUME TypeBlank PROVE UNCHANGED <<tab, mappings, answer, results>>
  BY <1>3, WriteKeeps DEF TypeBlank
<1>4. ASSUME Erase PROVE UNCHANGED <<tab, mappings, answer, results>>
  BY <1>4, WriteKeeps DEF Erase, Rewrite
<1>5. ASSUME Complete PROVE UNCHANGED <<tab, mappings, answer, results>>
  BY <1>5, WriteKeeps DEF Complete, Rewrite
<1>6. QED
  BY <1>1, <1>2, <1>3, <1>4, <1>5 DEF QueryStep

LEMMA CommandsKeepTheProject == Commands => UNCHANGED <<current, started>>
<1> SUFFICES ASSUME Commands PROVE UNCHANGED <<current, started>>
  OBVIOUS
<1>1. ASSUME OnLoad \/ OnUnload \/ ReplaceData PROVE UNCHANGED <<current, started>>
  BY <1>1 DEF OnLoad, OnUnload, ReplaceData
<1>2. ASSUME NEW p \in Property, CreateProperty(p) PROVE UNCHANGED <<current, started>>
  BY <1>2 DEF CreateProperty
<1>3. ASSUME NEW i \in DOMAIN rows, RemoveProperty(i) PROVE UNCHANGED <<current, started>>
  BY <1>3 DEF RemoveProperty
<1>4. ASSUME NEW i \in DOMAIN rows, NEW p \in Property, CreateSubProperty(i, p)
      PROVE UNCHANGED <<current, started>>
  BY <1>4 DEF CreateSubProperty
<1>5. ASSUME NEW i \in DOMAIN rows, NEW p \in Property, EditSuperProperty(i, p)
      PROVE UNCHANGED <<current, started>>
  BY <1>5 DEF EditSuperProperty
<1>6. QED
  BY <1>1, <1>2, <1>3, <1>4, <1>5 DEF Commands

LEMMA QueryInvNext == QueryInv /\ [TabsNext]_<<vars, queryVars>> => QueryInv'
<1> SUFFICES ASSUME QueryInv, [TabsNext]_<<vars, queryVars>> PROVE QueryInv'
  OBVIOUS
<1>1. CASE Started
  <2>1. ~current /\ tab # "enabled" /\ current' \in BOOLEAN /\ started' = TRUE
    BY <1>1 DEF Started, StartST, QueryInv
  <2>2. CASE EnableSubmit /\ current'
    BY <2>1, <2>2 DEF EnableSubmit, QueryInv
  <2>3. CASE UNCHANGED queryVars
    BY <2>1, <2>3 DEF queryVars, QueryInv
  <2>4. QED
    BY <1>1, <2>2, <2>3 DEF Started
<1>2. CASE Switch
  <2>1. current' \in BOOLEAN /\ started' = started /\ started
    BY <1>2 DEF Switch, OpenProject
  <2>2. CASE EnableSubmit /\ current'
    BY <2>1, <2>2 DEF EnableSubmit, QueryInv
  <2>3. CASE DisableSubmit
    BY <2>1, <2>3 DEF DisableSubmit, QueryInv
  <2>4. QED
    BY <1>2, <2>2, <2>3 DEF Switch, Announced
<1>3. CASE OpenTab
  <2>1. PICK n \in PrefixCounts \cup {0} : OpenQueryTab(current, n)
    BY <1>3 DEF OpenTab
  <2>2. QED
    BY <1>3, <2>1 DEF OpenTab, OpenQueryTab, vars, QueryInv
<1>4. CASE Commands /\ UNCHANGED queryVars
  BY <1>4, CommandsKeepTheProject DEF queryVars, QueryInv
<1>5. CASE QueryStep /\ UNCHANGED vars
  <2>1. UNCHANGED <<current, started>>
    BY <1>5 DEF vars
  <2>2. CASE CloseQueryTab
    BY <2>1, <2>2, NothingResolved DEF CloseQueryTab, Closed, QueryInv
  <2>3. CASE SubmitQuery
    <3>1. PICK a \in Answers \cup {Bare, Lost} :
            /\ answer' = IF a = Lost THEN answer ELSE a
            /\ results' = IF a = Lost THEN results ELSE Resolved(a)
      BY <2>3 DEF SubmitQuery
    <3>2. tab' = tab
      BY <2>3 DEF SubmitQuery
    <3>3. CASE a = Lost
      BY <2>1, <3>1, <3>2, <3>3 DEF QueryInv
    <3>4. CASE a # Lost
      <4>1. answer' \in Answers \cup {None, Bare} /\ results' = Resolved(answer')
        BY <3>1, <3>4
      <4>2. QED
        BY <2>1, <3>2, <4>1 DEF QueryInv
    <3>5. QED
      BY <3>3, <3>4
  <2>4. CASE UNCHANGED <<tab, mappings, answer, results>>
    BY <2>1, <2>4 DEF QueryInv
  <2>5. QED
    BY <1>5, <2>2, <2>3, <2>4, QueryStepIs
<1>6. CASE UNCHANGED <<vars, queryVars>>
  BY <1>6 DEF vars, queryVars, QueryInv
<1>7. QED
  BY <1>1, <1>2, <1>3, <1>4, <1>5, <1>6 DEF TabsNext

(* A table made of an answer shows it.                                      *)
LEMMA RowsFollow == QueryInv => RowsShowTheBindings
<1> SUFFICES ASSUME QueryInv PROVE RowsShowTheBindings
  OBVIOUS
<1>1. results = Resolved(answer) /\ answer \in Answers \cup {None, Bare}
  BY DEF QueryInv
<1>2. ASSUME answer.kind \in {"none", "fail"} PROVE results = Empty
  BY <1>1, <1>2 DEF Resolved
<1>3. ASSUME answer.kind = "tuple"
      PROVE  /\ results.cols = answer.vars /\ Len(results.rows) = Len(answer.bindings)
             /\ \A k \in DOMAIN results.rows, i \in DOMAIN results.cols :
                  LET b == answer.bindings[k]
                      v == results.cols[i]
                  IN IF v \in DOMAIN b
                     THEN /\ results.rows[k][i].label = b[v].label
                          /\ Opens(k, i) = {b[v].label : x \in {b[v].type} \cap {"uri", "bnode"}}
                     ELSE Opens(k, i) = {}
  <2>1. answer \in Answers
    BY <1>1, <1>3 DEF None, Bare
  <2>2. answer.bindings \in Seq(Range(answer.bindings))
    BY <1>3, <2>1, AnswersAssumption
  <2>3. results = [cols |-> answer.vars,
                   rows |-> [k \in DOMAIN answer.bindings |-> Cells(answer.vars, answer.bindings[k])]]
    BY <1>1, <1>3 DEF Resolved
  <2>4. results.cols = answer.vars
    BY <2>3
  <2>5. results.rows = [k \in DOMAIN answer.bindings |-> Cells(answer.vars, answer.bindings[k])]
    BY <2>3
  <2> DEFINE n == Len(answer.bindings)
  <2>6. n \in Nat /\ DOMAIN answer.bindings = 1..n
    BY <2>2
  <2> HIDE DEF n
  <2>7. Len(results.rows) = n
    BY <2>5, <2>6
  <2>8. ASSUME NEW k \in DOMAIN results.rows, NEW i \in DOMAIN results.cols
        PROVE  LET b == answer.bindings[k]
                   v == results.cols[i]
               IN IF v \in DOMAIN b
                  THEN /\ results.rows[k][i].label = b[v].label
                       /\ Opens(k, i) = {b[v].label : x \in {b[v].type} \cap {"uri", "bnode"}}
                  ELSE Opens(k, i) = {}
    <3> DEFINE b == answer.bindings[k]
               v == results.cols[i]
    <3>1. results.rows[k] = Cells(answer.vars, b)
      BY <2>5
    <3>2. i \in DOMAIN results.rows[k]
      BY <2>4, <3>1 DEF Cells
    <3>3. results.rows[k][i] = IF v \in DOMAIN b THEN b[v] ELSE Unbound
      BY <2>4, <3>1 DEF Cells
    <3>4. Opens(k, i) = IF results.rows[k][i].type \in {"uri", "bnode"}
                        THEN {results.rows[k][i].label} ELSE {}
      BY <3>2 DEF Opens
    <3> HIDE DEF b, v
    <3>5. CASE v \in DOMAIN b
      <4>1. Opens(k, i) = {b[v].label : x \in {b[v].type} \cap {"uri", "bnode"}}
        BY <3>3, <3>4, <3>5
      <4>2. QED
        BY <3>3, <3>5, <4>1 DEF b, v
    <3>6. CASE v \notin DOMAIN b
      <4>1. Unbound.type \notin {"uri", "bnode"} /\ results.rows[k][i] = Unbound
        BY <3>3, <3>6 DEF Unbound
      <4>2. Opens(k, i) = {}
        BY <3>4, <4>1
      <4>3. QED
        BY <3>6, <4>2 DEF b, v
    <3>7. QED
      BY <3>5, <3>6
  <2>9. QED
    BY <2>4, <2>7, <2>8 DEF n
<1>4. QED
  BY <1>2, <1>3 DEF RowsShowTheBindings

(* A query can be submitted only while a project is open, and the table is  *)
(* the last answer's: whatever is opened, cloned, closed, refused or lost,  *)
(* and also when the tab is there before the extension is started           *)
(* (enableSPARQLSubmitQuery, disableSPARQLSubmitQuery and                   *)
(* resolveQuery_RESPONSE of sparql.js).                                     *)
THEOREM QueryTabStaysSound == TabsSpec => []QueryTabIsSound
<1>1. TabsInit => QueryInv
  BY QueryStart
<1>2. QueryInv /\ [TabsNext]_<<vars, queryVars>> => QueryInv'
  BY QueryInvNext
<1>3. QueryInv => QueryTabIsSound
  BY RowsFollow DEF QueryTabIsSound, QueryInv
<1>4. QED
  BY <1>1, <1>2, <1>3, PTL DEF TabsSpec
-----------------------------------------------------------------------------
(* The tree as a list of rows *)

LEMMA RowsType ==
  ASSUME NEW t \in Seq(Row)
  PROVE  /\ Len(t) \in Nat /\ DOMAIN t = 1..Len(t)
         /\ \A k \in 1..Len(t) : /\ t[k] \in Row /\ t[k].prop \in Property /\ t[k].depth \in Nat
                                 /\ t[k].container \in BOOLEAN
<1>1. Len(t) \in Nat /\ DOMAIN t = 1..Len(t) /\ \A k \in 1..Len(t) : t[k] \in Row
  OBVIOUS
<1>2. \A r \in Row : r.prop \in Property /\ r.depth \in Nat /\ r.container \in BOOLEAN
  BY DEF Row
<1>3. QED
  BY <1>1, <1>2

\* The item at i is the parent of the one at j.
Above(t, i, j) ==
  /\ i < j /\ t[j].depth = t[i].depth + 1
  /\ \A k \in (i + 1)..j : t[k].depth > t[i].depth

(* The list is that of a tree: it starts at the top, and no row is more     *)
(* than one level below the row before it.                                  *)
Nested(t) ==
  /\ t \in Seq(Row)
  /\ \A i \in DOMAIN t : t[i].depth <= IF i = 1 THEN 0 ELSE t[i - 1].depth + 1

\* A row is a container exactly when the next one is below it.
Opened(t) ==
  \A i \in DOMAIN t : t[i].container <=> (i < Len(t) /\ t[i + 1].depth > t[i].depth)

(* A property is not found again among the later siblings of one of its     *)
(* rows, nor among those of what that row is below.                         *)
Apart(t) ==
  \A i, j \in DOMAIN t :
    (i < j /\ \A k \in i..j : t[k].depth >= t[j].depth) => t[i].prop # t[j].prop

Tidy(t) == Nested(t) /\ Opened(t) /\ Apart(t)

Props(t) == {t[i].prop : i \in DOMAIN t}

\* Every row is where the hierarchy has its property.
Right(t, m) ==
  /\ \A i \in DOMAIN t : /\ t[i].prop \in m.live
                         /\ t[i].depth = 0 => t[i].prop \in Roots(m)
  /\ \A i, j \in DOMAIN t : Above(t, i, j) => t[j].prop \in DirectSubs(m, t[i].prop)

(* The row a row below the top is a child of: the nearest one before it     *)
(* that is higher.                                                          *)
LEMMA ParentExists ==
  ASSUME NEW t \in Seq(Row), NEW i \in DOMAIN t,
         \A k \in 2..i : t[k].depth <= t[k - 1].depth + 1,
         NEW c \in 1..(i - 1), t[c].depth < t[i].depth
  PROVE  \E j \in c..(i - 1) : /\ Above(t, j, i)
                               /\ \A k \in (j + 1)..(i - 1) : t[k].depth >= t[i].depth
<1> DEFINE S == {k \in 1..(i - 1) : t[k].depth < t[i].depth}
<1>1. i \in 1..Len(t) /\ i - 1 \in Nat /\ \A k \in 1..i : t[k].depth \in Nat
  BY RowsType
<1>2. S \in SUBSET (1..(i - 1)) /\ c \in S
  OBVIOUS
<1>3. PICK j \in S : \A k \in S : j >= k
  BY <1>1, <1>2, MaxOf
<1>4. j \in c..(i - 1) /\ j \in Nat /\ j < i /\ j + 1 \in 2..i
  BY <1>1, <1>2, <1>3
<1>5. /\ t[j].depth < t[i].depth
      /\ t[j].depth \in Nat /\ t[j + 1].depth \in Nat /\ t[i].depth \in Nat
  BY <1>1, <1>3, <1>4
<1>6. \A k \in (j + 1)..(i - 1) : t[k].depth >= t[i].depth
  <2>1. SUFFICES ASSUME NEW k \in (j + 1)..(i - 1), ~(t[k].depth >= t[i].depth) PROVE FALSE
    OBVIOUS
  <2>2. k \in 1..(i - 1) /\ k > j /\ t[k].depth \in Nat
    BY <1>1, <1>4
  <2>3. k \in S
    BY <2>1, <2>2, <1>5
  <2>4. j >= k
    BY <2>3, <1>3
  <2>5. QED
    BY <2>2, <2>4, <1>4
<1>7. t[j + 1].depth <= t[j].depth + 1
  <2>1. t[j + 1].depth <= t[(j + 1) - 1].depth + 1
    BY <1>4
  <2>2. (j + 1) - 1 = j
    BY <1>4
  <2>3. QED
    BY <2>1, <2>2
<1>8. t[j + 1].depth >= t[i].depth
  <2>1. CASE j + 1 = i
    BY <2>1, <1>5
  <2>2. CASE j + 1 # i
    <3>1. j + 1 \in (j + 1)..(i - 1)
      BY <2>2, <1>1, <1>4
    <3>2. QED
      BY <3>1, <1>6
  <2>3. QED
    BY <2>1, <2>2
<1> HIDE DEF S
<1>9. t[i].depth = t[j].depth + 1
  <2> DEFINE x == t[i].depth
             y == t[j].depth
             z == t[j + 1].depth
  <2>1. x \in Nat /\ y \in Nat /\ z \in Nat /\ y < x /\ z <= y + 1 /\ z >= x
    BY <1>5, <1>7, <1>8
  <2> HIDE DEF x, y, z
  <2>2. x = y + 1
    BY <2>1
  <2>3. QED
    BY <2>2 DEF x, y
<1>10. \A k \in (j + 1)..i : t[k].depth > t[j].depth
  <2>1. SUFFICES ASSUME NEW k \in (j + 1)..i PROVE t[k].depth > t[j].depth
    OBVIOUS
  <2>2. CASE k = i
    BY <2>2, <1>5
  <2>3. CASE k # i
    <3>1. k \in (j + 1)..(i - 1) /\ t[k].depth \in Nat
      BY <2>3, <1>1, <1>4
    <3>2. t[k].depth >= t[i].depth
      BY <3>1, <1>6
    <3>3. QED
      BY <3>1, <3>2, <1>5
  <2>4. QED
    BY <2>2, <2>3
<1>11. Above(t, j, i)
  BY <1>4, <1>9, <1>10 DEF Above
<1>12. QED
  BY <1>4, <1>6, <1>11

LEMMA ParentIs ==
  ASSUME NEW t, Nested(t), NEW i \in DOMAIN t
  PROVE  IF t[i].depth = 0 THEN ParentOf(t, i) = 0
         ELSE ParentOf(t, i) \in 1..(i - 1) /\ Above(t, ParentOf(t, i), i)
<1>1. t \in Seq(Row) /\ i \in 1..Len(t) /\ Len(t) \in Nat
  BY RowsType DEF Nested
<1>2. \A k \in 1..Len(t) : t[k].depth \in Nat
  BY <1>1, RowsType
<1>3. CASE t[i].depth = 0
  BY <1>3 DEF ParentOf
<1>4. CASE t[i].depth # 0
  <2>1. \A k \in 2..i : t[k].depth <= t[k - 1].depth + 1
    <3>1. SUFFICES ASSUME NEW k \in 2..i PROVE t[k].depth <= t[k - 1].depth + 1
      OBVIOUS
    <3>2. k \in DOMAIN t /\ k # 1
      BY <1>1, RowsType
    <3>3. QED
      BY <3>2 DEF Nested
  <2>2. t[1].depth = 0 /\ i # 1
    <3>1. 1 \in DOMAIN t
      BY <1>1, RowsType
    <3>2. t[1].depth <= 0
      BY <3>1 DEF Nested
    <3>3. QED
      BY <3>2, <1>1, <1>2, <1>4
  <2>3. 1 \in 1..(i - 1) /\ t[1].depth < t[i].depth
    BY <1>1, <1>2, <1>4, <2>2
  <2>4. PICK j \in 1..(i - 1) : Above(t, j, i) /\ \A k \in (j + 1)..(i - 1) : t[k].depth >= t[i].depth
    BY <1>1, <2>1, <2>3, ParentExists
  <2> DEFINE P(x) == /\ t[x].depth = t[i].depth - 1
                     /\ \A k \in (x + 1)..(i - 1) : t[k].depth >= t[i].depth
             p == CHOOSE x \in 1..(i - 1) : P(x)
  <2>5. P(j)
    BY <1>1, <1>2, <2>4 DEF Above
  <2>6. p \in 1..(i - 1) /\ P(p)
    BY <2>5
  <2>7. ParentOf(t, i) = p
    BY <1>4 DEF ParentOf
  <2> HIDE DEF p
  <2>8. t[i].depth = t[p].depth + 1 /\ p < i /\ p \in 1..Len(t)
    BY <1>1, <1>2, <2>6
  <2>12. p \in Nat /\ i \in Nat /\ t[p].depth < t[i].depth /\ \A k \in (p + 1)..(i - 1) : t[k].depth >= t[i].depth
    <3>1. p \in Nat /\ i \in Nat /\ p \in 1..Len(t) /\ i \in 1..Len(t)
      BY <1>1, <2>6, <2>8
    <3>2. t[p].depth \in Nat /\ t[i].depth \in Nat
      BY <1>2, <3>1
    <3>3. t[p].depth < t[i].depth
      BY <2>8, <3>2
    <3>4. QED
      BY <2>6, <3>1, <3>3
  <2>9. ASSUME NEW k \in (p + 1)..i PROVE t[k].depth > t[p].depth
    <3>1. CASE k = i
      BY <3>1, <2>12
    <3>2. CASE k # i
      <4>1. k \in (p + 1)..(i - 1) /\ k \in 1..Len(t)
        BY <3>2, <1>1, <2>12
      <4>2. t[k].depth >= t[i].depth /\ t[k].depth \in Nat /\ t[i].depth \in Nat /\ t[p].depth \in Nat
        BY <4>1, <2>8, <2>12, <1>1, <1>2
      <4>3. QED
        BY <4>2, <2>12
    <3>3. QED
      BY <3>1, <3>2
  <2>10. Above(t, p, i)
    BY <2>8, <2>9 DEF Above
  <2>11. QED
    BY <1>4, <2>6, <2>7, <2>10
<1>5. QED
  BY <1>3, <1>4

LEMMA LastBelowIs ==
  ASSUME NEW t \in Seq(Row), NEW i \in DOMAIN t
  PROVE  /\ LastBelow(t, i) \in i..Len(t)
         /\ \A k \in (i + 1)..LastBelow(t, i) : t[k].depth > t[i].depth
         /\ LastBelow(t, i) < Len(t) => t[LastBelow(t, i) + 1].depth <= t[i].depth
<1>1. i \in 1..Len(t) /\ Len(t) \in Nat /\ \A k \in 1..Len(t) : t[k].depth \in Nat
  BY RowsType
<1> DEFINE S == {j \in i..Len(t) : \A k \in (i + 1)..j : t[k].depth > t[i].depth}
           j == Max(S)
<1>2. S \in SUBSET (1..Len(t)) /\ i \in S
  BY <1>1
<1>3. j \in S /\ \A k \in S : j >= k
  BY <1>1, <1>2, MaxOf
<1> HIDE DEF j
<1>4. j < Len(t) => t[j + 1].depth <= t[i].depth
  <2>1. SUFFICES ASSUME j < Len(t), t[j + 1].depth > t[i].depth PROVE FALSE
    BY <1>1, <1>3
  <2>2. j + 1 \in S
    BY <2>1, <1>1, <1>3
  <2>3. QED
    BY <2>2, <1>1, <1>3
<1> DEFINE P(x) == /\ \A k \in (i + 1)..x : t[k].depth > t[i].depth
                   /\ x < Len(t) => t[x + 1].depth <= t[i].depth
<1>5. j \in i..Len(t) /\ P(j)
  BY <1>3, <1>4
<1>6. LastBelow(t, i) = CHOOSE x \in i..Len(t) : P(x)
  BY DEF LastBelow
<1>7. QED
  BY <1>5, <1>6

LEMMA HasChildrenIs ==
  ASSUME NEW t \in Seq(Row), NEW i \in DOMAIN t
  PROVE  HasChildren(t, i) <=> (i < Len(t) /\ t[i + 1].depth > t[i].depth)
<1>1. i \in 1..Len(t) /\ Len(t) \in Nat /\ \A k \in 1..Len(t) : t[k].depth \in Nat
  BY RowsType
<1> DEFINE b == LastBelow(t, i)
<1>2. /\ b \in i..Len(t) /\ \A k \in (i + 1)..b : t[k].depth > t[i].depth
      /\ b < Len(t) => t[b + 1].depth <= t[i].depth
  BY LastBelowIs
<1>3. HasChildren(t, i) <=> b > i
  BY DEF HasChildren
<1> HIDE DEF b
<1>4. CASE b = i
  BY <1>1, <1>2, <1>3, <1>4
<1>5. CASE b > i
  BY <1>1, <1>2, <1>3, <1>5
<1>6. QED
  BY <1>1, <1>2, <1>4, <1>5

-----------------------------------------------------------------------------
(* Taking a row away with what is below it *)

\* The w rows from i on are a row and all rows below it.
Branch(t, i, w) ==
  /\ t \in Seq(Row) /\ i \in DOMAIN t /\ w \in Nat \ {0} /\ i + w <= Len(t) + 1
  /\ \A k \in i..(i + w - 1) : t[k].depth >= t[i].depth
  /\ i + w <= Len(t) => t[i + w].depth <= t[i].depth

\* Where the row at k was before w rows were taken out at i.
From(k, i, w) == IF k < i THEN k ELSE k + w

\* The rows of v are those of t without w rows at i, but for twisties.
Less(v, t, i, w) ==
  /\ v \in Seq(Row) /\ Len(v) = Len(t) - w
  /\ \A k \in 1..Len(v) : /\ v[k].prop = t[From(k, i, w)].prop
                          /\ v[k].depth = t[From(k, i, w)].depth

LEMMA BranchBelow ==
  ASSUME NEW t \in Seq(Row), NEW i \in DOMAIN t
  PROVE  Branch(t, i, LastBelow(t, i) - i + 1)
<1> DEFINE b == LastBelow(t, i)
           w == b - i + 1
<1>1. i \in 1..Len(t) /\ Len(t) \in Nat /\ \A k \in 1..Len(t) : t[k].depth \in Nat
  BY RowsType
<1>2. /\ b \in i..Len(t) /\ \A k \in (i + 1)..b : t[k].depth > t[i].depth
      /\ b < Len(t) => t[b + 1].depth <= t[i].depth
  BY LastBelowIs
<1> HIDE DEF b
<1>3. b \in Nat /\ i \in Nat /\ Len(t) \in Nat /\ i <= b /\ b <= Len(t)
  BY <1>1, <1>2
<1>4. w \in Nat \ {0} /\ i + w = b + 1 /\ i + w - 1 = b
  BY <1>3
<1>5. \A k \in i..b : t[k].depth >= t[i].depth
  BY <1>1, <1>2
<1> HIDE DEF w
<1>6. i + w <= Len(t) + 1 /\ (i + w <= Len(t) => b < Len(t))
  <2> DEFINE x == i + w
  <2>1. x = b + 1
    BY <1>4
  <2> HIDE DEF x
  <2>2. x <= Len(t) + 1 /\ (x <= Len(t) => b < Len(t))
    BY <2>1, <1>3
  <2>3. QED
    BY <2>2 DEF x
<1>7. Branch(t, i, w)
  BY <1>1, <1>2, <1>4, <1>5, <1>6 DEF Branch
<1>8. QED
  BY <1>7 DEF w, b

LEMMA CutOut ==
  ASSUME NEW S, NEW t \in Seq(S), NEW i \in 1..Len(t), NEW b \in i..Len(t)
  PROVE  LET u == SubSeq(t, 1, i - 1) \o SubSeq(t, b + 1, Len(t))
         IN /\ u \in Seq(S) /\ Len(u) = Len(t) - (b - i + 1)
            /\ \A k \in 1..Len(u) : u[k] = t[From(k, i, b - i + 1)]
<1> DEFINE x == SubSeq(t, 1, i - 1)
           y == SubSeq(t, b + 1, Len(t))
           u == x \o y
<1>1. Len(t) \in Nat /\ i \in Nat /\ b \in Nat
  OBVIOUS
<1>2. x \in Seq(S) /\ Len(x) = i - 1 /\ \A k \in 1..(i - 1) : x[k] = t[k]
  BY <1>1, SubSeqProperties
<1>3. y \in Seq(S) /\ Len(y) = Len(t) - b /\ \A k \in 1..(Len(t) - b) : y[k] = t[b + k]
  BY <1>1, SubSeqProperties
<1> HIDE DEF x, y
<1>4. /\ u \in Seq(S) /\ Len(u) = Len(x) + Len(y)
      /\ \A k \in 1..(Len(x) + Len(y)) : u[k] = IF k <= Len(x) THEN x[k] ELSE y[k - Len(x)]
  BY <1>2, <1>3, ConcatProperties
<1> HIDE DEF u
<1>5. Len(u) = Len(t) - (b - i + 1)
  BY <1>1, <1>2, <1>3, <1>4
<1>6. ASSUME NEW k \in 1..Len(u) PROVE u[k] = t[From(k, i, b - i + 1)]
  <2>1. CASE k < i
    <3>1. k \in 1..(i - 1) /\ k <= Len(x) /\ k \in 1..(Len(x) + Len(y))
      BY <2>1, <1>1, <1>2, <1>4
    <3>2. QED
      BY <2>1, <3>1, <1>2, <1>4 DEF From
  <2>2. CASE k >= i
    <3>1. /\ k \in 1..(Len(x) + Len(y)) /\ ~(k <= Len(x))
          /\ k - Len(x) \in 1..(Len(t) - b)
      BY <2>2, <1>1, <1>2, <1>3, <1>4
    <3>2. u[k] = t[b + (k - Len(x))]
      BY <3>1, <1>3, <1>4
    <3>3. b + (k - Len(x)) = k + (b - i + 1) /\ ~(k < i)
      BY <2>2, <1>1, <1>2
    <3>4. QED
      BY <3>2, <3>3 DEF From
  <2>3. QED
    BY <2>1, <2>2, <1>1
<1>7. QED
  BY <1>4, <1>5, <1>6 DEF u, x, y

(* What lay between two rows that are left lay between them before, and     *)
(* what was taken out there is below neither.                               *)
LEMMA LessBetween ==
  ASSUME NEW t, NEW i, NEW w, Branch(t, i, w), NEW v, Less(v, t, i, w),
         NEW k \in 1..Len(v), NEW l \in 1..Len(v), k < l, NEW d \in Nat,
         \A x \in (k + 1)..l : v[x].depth >= d
  PROVE  /\ From(k, i, w) \in 1..Len(t) /\ From(l, i, w) \in 1..Len(t)
         /\ From(k, i, w) < From(l, i, w)
         /\ \A x \in (From(k, i, w) + 1)..From(l, i, w) : t[x].depth >= d
<1>1. /\ t \in Seq(Row) /\ v \in Seq(Row) /\ w \in Nat \ {0} /\ i \in 1..Len(t)
      /\ i + w <= Len(t) + 1 /\ Len(v) = Len(t) - w /\ Len(t) \in Nat
      /\ \A x \in 1..Len(t) : t[x].depth \in Nat
  BY RowsType DEF Branch, Less
<1>2. k \in Nat /\ l \in Nat /\ Len(v) \in Nat /\ i \in Nat
  BY <1>1
<1>3. /\ From(k, i, w) \in 1..Len(t) /\ From(l, i, w) \in 1..Len(t)
      /\ From(k, i, w) < From(l, i, w)
  BY <1>1, <1>2 DEF From
<1>4. \A x \in (k + 1)..l : t[From(x, i, w)].depth >= d
  BY <1>1, <1>2 DEF Less
<1>5. ASSUME NEW x \in (From(k, i, w) + 1)..From(l, i, w) PROVE t[x].depth >= d
  <2>1. x \in Nat /\ x <= Len(t) /\ x >= 1
    BY <1>1, <1>3
  <2>2. CASE x < i
    <3>1. x \in (k + 1)..l /\ From(x, i, w) = x
      BY <2>1, <2>2, <1>1, <1>2 DEF From
    <3>2. QED
      BY <3>1, <1>4
  <2>3. CASE x >= i + w
    <3>1. x - w \in (k + 1)..l /\ From(x - w, i, w) = x
      BY <2>1, <2>3, <1>1, <1>2 DEF From
    <3>2. QED
      BY <3>1, <1>4
  <2>4. CASE x >= i /\ x < i + w
    <3>1. k < i /\ l >= i
      BY <2>1, <2>4, <1>1, <1>2 DEF From
    <3>2. i \in (k + 1)..l /\ From(i, i, w) = i + w /\ i + w <= Len(t) /\ x \in i..(i + w - 1)
      BY <3>1, <2>1, <2>4, <1>1, <1>2 DEF From
    <3>3. t[i + w].depth >= d /\ t[i + w].depth <= t[i].depth /\ t[x].depth >= t[i].depth
      BY <3>2, <1>4 DEF Branch
    <3>4. i + w \in 1..Len(t)
      BY <3>2, <1>1, <1>2
    <3>5. t[i + w].depth \in Nat /\ t[i].depth \in Nat /\ t[x].depth \in Nat
      BY <3>4, <2>1, <1>1
    <3>6. QED
      BY <3>3, <3>5
  <2>5. QED
    BY <2>1, <2>2, <2>3, <2>4, <1>1, <1>2
<1>6. QED
  BY <1>3, <1>5

LEMMA LessAbove ==
  ASSUME NEW t, NEW i, NEW w, Branch(t, i, w), NEW v, Less(v, t, i, w),
         NEW k \in 1..Len(v), NEW l \in 1..Len(v), Above(v, k, l)
  PROVE  Above(t, From(k, i, w), From(l, i, w))
<1>1. k < l /\ v[l].depth = v[k].depth + 1 /\ \A x \in (k + 1)..l : v[x].depth > v[k].depth
  BY DEF Above
<1>2. \A x \in 1..Len(v) : v[x].depth \in Nat
  BY RowsType DEF Less
<1>3. k \in Nat /\ l \in Nat /\ Len(v) \in Nat
  BY RowsType DEF Less
<1> DEFINE d == v[k].depth + 1
<1>4. d \in Nat /\ \A x \in (k + 1)..l : v[x].depth >= d
  <2>1. d \in Nat
    BY <1>2
  <2>2. ASSUME NEW x \in (k + 1)..l PROVE v[x].depth >= d
    <3>1. x \in 1..Len(v)
      BY <1>3
    <3>2. v[x].depth \in Nat /\ v[k].depth \in Nat /\ v[x].depth > v[k].depth
      BY <3>1, <1>1, <1>2
    <3>3. QED
      BY <3>2
  <2>3. QED
    BY <2>1, <2>2
<1>5. /\ From(k, i, w) < From(l, i, w)
      /\ \A x \in (From(k, i, w) + 1)..From(l, i, w) : t[x].depth >= d
      /\ From(k, i, w) \in 1..Len(t) /\ From(l, i, w) \in 1..Len(t)
  <2> HIDE DEF d
  <2>1. QED
    BY <1>1, <1>4, LessBetween
<1>6. v[k].depth = t[From(k, i, w)].depth /\ v[l].depth = t[From(l, i, w)].depth
  BY DEF Less
<1>7. t \in Seq(Row) /\ \A x \in 1..Len(t) : t[x].depth \in Nat
  BY RowsType DEF Branch
<1>8. \A x \in (From(k, i, w) + 1)..From(l, i, w) : t[x].depth > t[From(k, i, w)].depth
  <2>1. SUFFICES ASSUME NEW x \in (From(k, i, w) + 1)..From(l, i, w)
                 PROVE  t[x].depth > t[From(k, i, w)].depth
    OBVIOUS
  <2>2. x \in 1..Len(t)
    BY <1>5, <1>7, RowsType
  <2>3. t[x].depth \in Nat /\ v[k].depth \in Nat /\ t[x].depth >= v[k].depth + 1
    BY <2>2, <1>2, <1>5, <1>7
  <2>4. QED
    BY <2>3, <1>6
<1>9. QED
  BY <1>1, <1>5, <1>6, <1>8 DEF Above

LEMMA LessNested ==
  ASSUME NEW t, Nested(t), NEW i, NEW w, Branch(t, i, w), NEW v, Less(v, t, i, w)
  PROVE  Nested(v)
<1>1. /\ t \in Seq(Row) /\ v \in Seq(Row) /\ w \in Nat \ {0} /\ i \in 1..Len(t) /\ i \in Nat
      /\ Len(v) = Len(t) - w /\ Len(t) \in Nat /\ DOMAIN v = 1..Len(v) /\ DOMAIN t = 1..Len(t)
      /\ i + w <= Len(t) + 1
      /\ \A x \in 1..Len(t) : t[x].depth \in Nat
  <2>1. t \in Seq(Row) /\ i \in DOMAIN t /\ w \in Nat \ {0} /\ i + w <= Len(t) + 1
    BY DEF Branch
  <2>2. v \in Seq(Row) /\ Len(v) = Len(t) - w
    BY DEF Less
  <2>3. /\ Len(t) \in Nat /\ DOMAIN t = 1..Len(t)
        /\ \A x \in 1..Len(t) : t[x].depth \in Nat
    BY <2>1, RowsType
  <2>4. DOMAIN v = 1..Len(v)
    BY <2>2, RowsType
  <2>5. i \in 1..Len(t) /\ i \in Nat
    BY <2>1, <2>3
  <2>6. QED
    BY <2>1, <2>2, <2>3, <2>4, <2>5
<1>2. \A x \in 1..Len(t) : t[x].depth <= IF x = 1 THEN 0 ELSE t[x - 1].depth + 1
  BY <1>1 DEF Nested
<1>3. ASSUME NEW k \in 1..Len(v)
      PROVE  v[k].depth <= IF k = 1 THEN 0 ELSE v[k - 1].depth + 1
  <2>1. v[k].depth = t[From(k, i, w)].depth /\ k \in Nat
    BY <1>1 DEF Less
  <2>2. k # 1 => v[k - 1].depth = t[From(k - 1, i, w)].depth
    <3>1. SUFFICES ASSUME k # 1 PROVE v[k - 1].depth = t[From(k - 1, i, w)].depth
      OBVIOUS
    <3>2. k - 1 \in 1..Len(v)
      BY <3>1, <1>1
    <3>3. QED
      BY <3>2 DEF Less
  <2>3. CASE k < i
    <3>1. From(k, i, w) = k /\ (k # 1 => From(k - 1, i, w) = k - 1) /\ k \in 1..Len(t)
      BY <2>3, <1>1 DEF From
    <3>2. QED
      BY <3>1, <2>1, <2>2, <1>2
  <2>4. CASE k > i
    <3>1. /\ From(k, i, w) = k + w /\ From(k - 1, i, w) = (k + w) - 1
          /\ k + w \in 1..Len(t) /\ k + w # 1 /\ k # 1
      BY <2>4, <2>1, <1>1 DEF From
    <3>2. QED
      BY <3>1, <2>1, <2>2, <1>2
  <2>5. CASE k = i
    <3>1. From(k, i, w) = i + w /\ i + w <= Len(t) /\ i + w \in 1..Len(t)
      BY <2>5, <1>1 DEF From
    <3>2. v[k].depth <= t[i].depth
      BY <3>1, <2>1 DEF Branch
    <3>3. v[k].depth \in Nat /\ t[i].depth \in Nat
      BY <3>1, <2>1, <1>1
    <3>4. CASE k = 1
      <4>1. t[i].depth <= 0
        BY <3>4, <2>5, <1>1, <1>2
      <4>2. QED
        BY <3>2, <3>3, <3>4, <4>1
    <3>5. CASE k # 1
      <4>1. From(k - 1, i, w) = i - 1 /\ i - 1 \in 1..Len(t)
        BY <2>5, <3>5, <1>1 DEF From
      <4>2. t[i].depth <= t[i - 1].depth + 1 /\ t[i - 1].depth \in Nat
        BY <2>5, <3>5, <4>1, <1>1, <1>2
      <4>3. v[k - 1].depth = t[i - 1].depth
        BY <2>2, <3>5, <4>1
      <4>4. QED
        BY <3>2, <3>3, <3>5, <4>2, <4>3
    <3>6. QED
      BY <3>4, <3>5
  <2>6. QED
    BY <2>3, <2>4, <2>5, <2>1, <1>1
<1>4. QED
  BY <1>1, <1>3 DEF Nested

LEMMA LessApart ==
  ASSUME NEW t, Apart(t), NEW i, NEW w, Branch(t, i, w), NEW v, Less(v, t, i, w)
  PROVE  Apart(v)
<1>1. t \in Seq(Row) /\ v \in Seq(Row) /\ DOMAIN t = 1..Len(t) /\ DOMAIN v = 1..Len(v)
      /\ Len(v) \in Nat
  BY RowsType DEF Branch, Less
<1>2. SUFFICES ASSUME NEW k \in 1..Len(v), NEW l \in 1..Len(v), k < l,
                      \A x \in k..l : v[x].depth >= v[l].depth
               PROVE  v[k].prop # v[l].prop
  BY <1>1 DEF Apart
<1> DEFINE a == From(k, i, w)
           b == From(l, i, w)
           d == v[l].depth
<1>3. d \in Nat
  BY <1>1, RowsType
<1>4. \A x \in (k + 1)..l : v[x].depth >= d
  BY <1>1, <1>2
<1>5. a \in 1..Len(t) /\ b \in 1..Len(t) /\ a < b /\ \A x \in (a + 1)..b : t[x].depth >= d
  <2> HIDE DEF d
  <2>1. QED
    BY <1>2, <1>3, <1>4, LessBetween
<1>6. /\ v[k].prop = t[a].prop /\ v[k].depth = t[a].depth
      /\ v[l].prop = t[b].prop /\ v[l].depth = t[b].depth
  BY DEF Less
<1>7. t[a].depth >= t[b].depth
  BY <1>1, <1>2, <1>6
<1>8. d = t[b].depth
  BY <1>6
<1> HIDE DEF a, b, d
<1>9. \A x \in a..b : t[x].depth >= t[b].depth
  <2>1. SUFFICES ASSUME NEW x \in a..b PROVE t[x].depth >= t[b].depth
    OBVIOUS
  <2>2. CASE x = a
    BY <2>2, <1>7
  <2>3. CASE x # a
    <3>1. x \in (a + 1)..b
      BY <2>3, <1>5
    <3>2. QED
      BY <3>1, <1>5, <1>8
  <2>4. QED
    BY <2>2, <2>3
<1>10. QED
  BY <1>1, <1>5, <1>6, <1>9 DEF Apart

\* The place of a parent is what ParentOf finds.
LEMMA NextIsParent ==
  ASSUME NEW t, Nested(t), NEW i \in DOMAIN t, i # 1, t[i].depth > t[i - 1].depth
  PROVE  ParentOf(t, i) = i - 1
<1>1. t \in Seq(Row) /\ i \in 1..Len(t) /\ \A x \in 1..Len(t) : t[x].depth \in Nat
  BY RowsType DEF Nested
<1>2. t[i].depth # 0 /\ t[i - 1].depth \in Nat /\ t[i].depth \in Nat
  BY <1>1
<1> DEFINE p == ParentOf(t, i)
<1>3. p \in 1..(i - 1) /\ Above(t, p, i)
  BY <1>2, ParentIs
<1> HIDE DEF p
<1>4. SUFFICES ASSUME p # i - 1 PROVE FALSE
  BY DEF p
<1>5. t[i].depth = t[p].depth + 1 /\ t[p].depth \in Nat
  BY <1>1, <1>3 DEF Above
<1>6. i - 1 \in (p + 1)..i
  BY <1>1, <1>3, <1>4
<1>7. t[i - 1].depth > t[p].depth
  BY <1>3, <1>6 DEF Above
<1>8. QED
  BY <1>2, <1>5, <1>7

(* checkAndRemoveProp takes the branch out, and the twisties of what is     *)
(* left are right again.                                                    *)
LEMMA CheckedIs ==
  ASSUME NEW t, Nested(t), Opened(t), NEW i \in DOMAIN t
  PROVE  /\ Less(CheckAndRemoveProp(t, i), t, i, LastBelow(t, i) - i + 1)
         /\ Opened(CheckAndRemoveProp(t, i))
<1> DEFINE b == LastBelow(t, i)
           w == b - i + 1
           u == SubSeq(t, 1, i - 1) \o SubSeq(t, b + 1, Len(t))
           p == ParentOf(t, i)
           v == CheckAndRemoveProp(t, i)
<1>1. t \in Seq(Row) /\ DOMAIN t = 1..Len(t) /\ Len(t) \in Nat /\ i \in 1..Len(t) /\ i \in Nat
      /\ \A x \in 1..Len(t) : /\ t[x] \in Row /\ t[x].depth \in Nat
                              /\ t[x].container \in BOOLEAN
  BY RowsType DEF Nested
<1>2. Branch(t, i, w)
  BY <1>1, BranchBelow
<1>3. b \in i..Len(t)
  BY <1>1, LastBelowIs
<1>4. v = IF p # 0 /\ ~HasChildren(u, p) THEN [u EXCEPT ![p].container = FALSE] ELSE u
  BY DEF CheckAndRemoveProp
<1>5. u \in Seq(Row) /\ Len(u) = Len(t) - w /\ \A k \in 1..Len(u) : u[k] = t[From(k, i, w)]
  BY <1>1, <1>3, CutOut
<1>6. IF t[i].depth = 0 THEN p = 0 ELSE p \in 1..(i - 1) /\ Above(t, p, i)
  BY ParentIs
<1>7. i # 1 /\ t[i].depth > t[i - 1].depth => p = i - 1
  BY NextIsParent
<1> HIDE DEF b, w, u, p, v
<1>8. w \in Nat \ {0} /\ i + w <= Len(t) + 1 /\ (i + w <= Len(t) => t[i + w].depth <= t[i].depth)
  BY <1>2 DEF Branch
<1>9. DOMAIN u = 1..Len(u) /\ Len(u) \in Nat
      /\ \A k \in 1..Len(u) : /\ u[k] \in Row /\ u[k].depth \in Nat
                              /\ u[k].container \in BOOLEAN
  BY <1>5, RowsType
<1>10. p # 0 => p \in 1..(i - 1) /\ p \in DOMAIN u
  BY <1>1, <1>5, <1>6, <1>8, <1>9
<1>11. p # 0 => (HasChildren(u, p) <=> (p < Len(u) /\ u[p + 1].depth > u[p].depth))
  BY <1>5, <1>10, HasChildrenIs
<1>12. /\ v \in Seq(Row) /\ Len(v) = Len(u)
       /\ \A k \in 1..Len(u) : /\ v[k].prop = u[k].prop /\ v[k].depth = u[k].depth
                               /\ v[k].container = IF k = p /\ ~HasChildren(u, p) THEN FALSE
                                                   ELSE u[k].container
  <2>1. CASE p = 0 \/ HasChildren(u, p)
    <3>1. v = u
      BY <2>1, <1>4
    <3>2. \A k \in 1..Len(u) : ~(k = p /\ ~HasChildren(u, p))
      BY <2>1
    <3>3. QED
      BY <3>1, <3>2, <1>5
  <2>2. CASE p # 0 /\ ~HasChildren(u, p)
    <3>1. v = [u EXCEPT ![p] = [u[p] EXCEPT !.container = FALSE]] /\ p \in DOMAIN u
      BY <2>2, <1>4, <1>10
    <3>2. u[p] \in Row
      BY <3>1, <1>9
    <3>3. /\ [u[p] EXCEPT !.container = FALSE] \in Row
          /\ [u[p] EXCEPT !.container = FALSE].prop = u[p].prop
          /\ [u[p] EXCEPT !.container = FALSE].depth = u[p].depth
          /\ [u[p] EXCEPT !.container = FALSE].container = FALSE
      BY <3>2 DEF Row
    <3>4. DOMAIN v = DOMAIN u /\ \A k \in DOMAIN u : v[k] = IF k = p THEN [u[p] EXCEPT !.container = FALSE] ELSE u[k]
      BY <3>1
    <3>5. v \in Seq(Row)
      BY <3>1, <3>3, <1>5
    <3>6. Len(v) = Len(u)
      BY <3>4, <3>5, <1>9
    <3>7. QED
      BY <3>3, <3>4, <3>5, <3>6, <2>2, <1>9
  <2>3. QED
    BY <2>1, <2>2
<1>13. Less(v, t, i, w)
  BY <1>5, <1>12 DEF Less
<1>14. ASSUME NEW k \in 1..Len(u)
       PROVE  v[k].container <=> (k < Len(u) /\ u[k + 1].depth > u[k].depth)
  <2> DEFINE Leads(x) == x < Len(t) /\ t[x + 1].depth > t[x].depth
  <2>1. \A x \in 1..Len(t) : t[x].container <=> Leads(x)
    BY <1>1 DEF Opened
  <2>2. u[k] = t[From(k, i, w)] /\ k \in Nat
    BY <1>5
  <2>3. k < Len(u) => u[k + 1] = t[From(k + 1, i, w)]
    <3>1. k < Len(u) => k + 1 \in 1..Len(u)
      BY <1>9
    <3>2. QED
      BY <3>1, <1>5
  <2>4. v[k].container = IF k = p /\ ~HasChildren(u, p) THEN FALSE ELSE u[k].container
    BY <1>12
  <2>5. CASE k >= i
    <3>1. From(k, i, w) = k + w /\ From(k + 1, i, w) = (k + w) + 1 /\ k + w \in 1..Len(t)
          /\ (k < Len(u) <=> k + w < Len(t))
      BY <2>5, <2>2, <1>1, <1>5, <1>8 DEF From
    <3>2. k # p
      BY <2>5, <1>1, <1>10
    <3>3. v[k].container = t[k + w].container
      BY <2>2, <2>4, <3>1, <3>2
    <3>4. QED
      BY <2>1, <2>2, <2>3, <3>1, <3>3
  <2>6. CASE k + 1 < i
    <3>1. From(k, i, w) = k /\ From(k + 1, i, w) = k + 1 /\ k \in 1..Len(t) /\ k < Len(u)
          /\ k < Len(t)
      BY <2>6, <2>2, <1>1, <1>5, <1>8 DEF From
    <3>2. u[k].container <=> u[k + 1].depth > u[k].depth
      BY <2>1, <2>2, <2>3, <3>1
    <3>3. CASE k = p
      <4>1. HasChildren(u, p) <=> u[k + 1].depth > u[k].depth
        BY <3>1, <3>3, <1>11, <2>2
      <4>2. v[k].container <=> u[k + 1].depth > u[k].depth
        BY <2>4, <3>2, <3>3, <4>1
      <4>3. QED
        BY <3>1, <4>2
    <3>4. CASE k # p
      BY <2>4, <3>1, <3>2, <3>4
    <3>5. QED
      BY <3>3, <3>4
  <2>7. CASE k + 1 = i
    <3>1. From(k, i, w) = k /\ From(k + 1, i, w) = i + w /\ k \in 1..Len(t) /\ k < Len(t) /\ i # 1
          /\ k = i - 1 /\ (k < Len(u) => i + w <= Len(t))
      BY <2>7, <2>2, <1>1, <1>5, <1>8 DEF From
    <3>2. u[k].container <=> t[i].depth > t[k].depth
      BY <2>1, <2>2, <2>7, <3>1
    <3>3. CASE t[i].depth > t[k].depth
      <4>1. p = k /\ p # 0
        BY <1>7, <2>2, <3>1, <3>3
      <4>2. HasChildren(u, p) <=> (k < Len(u) /\ u[k + 1].depth > u[k].depth)
        BY <4>1, <1>11
      <4>3. QED
        BY <2>4, <3>2, <3>3, <4>1, <4>2
    <3>4. CASE ~(t[i].depth > t[k].depth)
      <4>1. ~u[k].container /\ u[k].container \in BOOLEAN
        BY <3>2, <3>4, <1>9
      <4>2. v[k].container = FALSE
        BY <2>4, <4>1
      <4>3. k < Len(u) => ~(u[k + 1].depth > u[k].depth)
        <5>1. SUFFICES ASSUME k < Len(u) PROVE ~(t[i + w].depth > t[k].depth)
          BY <2>2, <2>3, <3>1
        <5>2. t[i + w].depth <= t[i].depth /\ i + w \in 1..Len(t)
          BY <5>1, <3>1, <1>1, <1>8
        <5>3. t[i + w].depth \in Nat /\ t[i].depth \in Nat /\ t[k].depth \in Nat
          BY <5>2, <3>1, <1>1
        <5>4. QED
          BY <5>2, <5>3, <3>4
      <4>4. QED
        BY <4>2, <4>3
    <3>5. QED
      BY <3>3, <3>4
  <2>8. QED
    BY <2>2, <2>5, <2>6, <2>7, <1>1
<1>15. Opened(v)
  <2>1. DOMAIN v = 1..Len(u)
    BY <1>12, RowsType
  <2>2. ASSUME NEW k \in DOMAIN v
        PROVE  v[k].container <=> (k < Len(v) /\ v[k + 1].depth > v[k].depth)
    <3>1. v[k].container <=> (k < Len(u) /\ u[k + 1].depth > u[k].depth)
      BY <2>1, <2>2, <1>14
    <3>2. k < Len(u) => k + 1 \in 1..Len(u)
      BY <2>1, <1>9
    <3>3. QED
      BY <2>1, <3>1, <3>2, <1>12
  <2>3. QED
    BY <2>2 DEF Opened
<1>16. QED
  BY <1>13, <1>15 DEF v, w, b

-----------------------------------------------------------------------------
(* The hierarchy *)

LEMMA AncestorsUp ==
  ASSUME NEW m \in Model, NEW p \in Property
  PROVE  /\ Ancestors(m, p) \subseteq Property /\ m.supers[p] \subseteq Ancestors(m, p)
         /\ UpwardClosed(m, Ancestors(m, p))
         /\ \A S \in SUBSET Property :
              m.supers[p] \subseteq S /\ UpwardClosed(m, S) => Ancestors(m, p) \subseteq S
<1>1. m.supers \in [Property -> SUBSET Property]
  BY DEF Model
<1>2. Ancestors(m, p) \subseteq Property /\ m.supers[p] \subseteq Ancestors(m, p)
  BY <1>1 DEF Ancestors
<1>3. ASSUME NEW q \in Ancestors(m, p), NEW r \in m.supers[q] PROVE r \in Ancestors(m, p)
  <2>1. r \in Property /\ q \in Property
    BY <1>1, <1>2
  <2>2. ASSUME NEW S \in SUBSET Property, m.supers[p] \subseteq S, UpwardClosed(m, S) PROVE r \in S
    <3>1. q \in S
      BY <2>2 DEF Ancestors
    <3>2. QED
      BY <3>1, <2>2 DEF UpwardClosed
  <2>3. QED
    BY <2>1, <2>2 DEF Ancestors
<1>4. UpwardClosed(m, Ancestors(m, p))
  BY <1>3 DEF UpwardClosed
<1>5. ASSUME NEW S \in SUBSET Property, m.supers[p] \subseteq S, UpwardClosed(m, S)
      PROVE  Ancestors(m, p) \subseteq S
  BY <1>5 DEF Ancestors
<1>6. QED
  BY <1>2, <1>4, <1>5

LEMMA AncestorsOfAncestors ==
  ASSUME NEW m \in Model, NEW p \in Property, NEW q \in Ancestors(m, p)
  PROVE  Ancestors(m, q) \subseteq Ancestors(m, p)
<1>1. /\ Ancestors(m, p) \in SUBSET Property /\ q \in Property
      /\ UpwardClosed(m, Ancestors(m, p))
  BY AncestorsUp
<1>2. m.supers[q] \subseteq Ancestors(m, p)
  BY <1>1 DEF UpwardClosed
<1>3. QED
  BY <1>1, <1>2, AncestorsUp

(* Taking superproperties away makes no property an ancestor.               *)
LEMMA AncestorsShrink ==
  ASSUME NEW m \in Model, NEW n \in Model, NEW p \in Property,
         \A q \in Ancestors(m, p) \cup {p} : n.supers[q] \subseteq m.supers[q]
  PROVE  Ancestors(n, p) \subseteq Ancestors(m, p)
<1>1. /\ Ancestors(m, p) \in SUBSET Property /\ m.supers[p] \subseteq Ancestors(m, p)
      /\ UpwardClosed(m, Ancestors(m, p))
  BY AncestorsUp
<1>2. n.supers[p] \subseteq Ancestors(m, p) /\ UpwardClosed(n, Ancestors(m, p))
  BY <1>1 DEF UpwardClosed
<1>3. QED
  BY <1>1, <1>2, AncestorsUp

LEMMA AncestorsLive ==
  ASSUME NEW m \in Model, Sound(m), NEW p \in Property
  PROVE  Ancestors(m, p) \subseteq m.live
<1>1. m.live \in SUBSET Property
  BY DEF Model
<1>2. m.supers[p] \subseteq m.live /\ UpwardClosed(m, m.live)
  BY <1>1 DEF Sound, UpwardClosed
<1>3. QED
  BY <1>1, <1>2, AncestorsUp

LEMMA NestedSteps ==
  ASSUME NEW t, Nested(t)
  PROVE  \A k \in 2..Len(t) : t[k].depth <= t[k - 1].depth + 1
<1>1. SUFFICES ASSUME NEW k \in 2..Len(t) PROVE t[k].depth <= t[k - 1].depth + 1
  OBVIOUS
<1>2. k \in DOMAIN t /\ k # 1
  BY RowsType DEF Nested
<1>3. QED
  BY <1>2 DEF Nested

\* What is right below an item is a direct subproperty of it.
Linked(t, m) ==
  \A i, j \in DOMAIN t : Above(t, i, j) => t[j].prop \in DirectSubs(m, t[i].prop)

(* What is anywhere below an item is a subproperty of it.                   *)
LEMMA Beneath ==
  ASSUME NEW m \in Model, NEW t, Nested(t), Linked(t, m)
  PROVE  \A i \in DOMAIN t, x \in DOMAIN t :
           (x < i /\ \A k \in (x + 1)..i : t[k].depth > t[x].depth) =>
              t[x].prop \in Ancestors(m, t[i].prop)
<1>1. t \in Seq(Row) /\ DOMAIN t = 1..Len(t) /\ Len(t) \in Nat
      /\ \A k \in 1..Len(t) : t[k].prop \in Property /\ t[k].depth \in Nat
  BY RowsType DEF Nested
<1> DEFINE P == {n \in Nat : \A i \in DOMAIN t, x \in DOMAIN t :
                   (i <= n /\ x < i /\ \A k \in (x + 1)..i : t[k].depth > t[x].depth) =>
                      t[x].prop \in Ancestors(m, t[i].prop)}
<1>2. 0 \in P
  BY <1>1
<1>3. ASSUME NEW n \in P PROVE n + 1 \in P
  <2>1. SUFFICES ASSUME NEW i \in DOMAIN t, NEW x \in DOMAIN t, i = n + 1, x < i,
                        \A k \in (x + 1)..i : t[k].depth > t[x].depth
                 PROVE  t[x].prop \in Ancestors(m, t[i].prop)
    BY <1>1, <1>3
  <2>2. i \in 1..Len(t) /\ x \in 1..(i - 1) /\ t[x].depth < t[i].depth
    <3>1. i \in 1..Len(t) /\ x \in 1..Len(t) /\ i \in Nat /\ x \in Nat
      BY <1>1
    <3>2. i \in (x + 1)..i /\ x \in 1..(i - 1)
      BY <3>1, <2>1
    <3>3. t[i].depth > t[x].depth
      BY <3>2, <2>1
    <3>4. QED
      BY <3>1, <3>2, <3>3, <1>1
  <2>3. \A k \in 2..i : t[k].depth <= t[k - 1].depth + 1
    <3>1. \A k \in 2..i : k \in 2..Len(t)
      BY <1>1, <2>2
    <3>2. QED
      BY <3>1, NestedSteps
  <2>4. PICK y \in x..(i - 1) : Above(t, y, i)
    BY <1>1, <2>2, <2>3, ParentExists
  <2>5. y \in DOMAIN t /\ y <= n /\ y \in Nat /\ x \in Nat
    BY <1>1, <1>3, <2>1, <2>2
  <2>6. t[y].prop \in m.supers[t[i].prop]
    BY <2>4, <2>5 DEF Linked, DirectSubs
  <2>7. t[y].prop \in Ancestors(m, t[i].prop)
    BY <2>6, <2>2, <1>1, AncestorsUp
  <2>8. CASE y = x
    BY <2>7, <2>8
  <2>9. CASE y # x
    <3>1. x < y /\ \A k \in (x + 1)..y : t[k].depth > t[x].depth
      BY <2>1, <2>2, <2>5, <2>9, <1>1
    <3>2. t[x].prop \in Ancestors(m, t[y].prop)
      BY <3>1, <2>5, <1>3
    <3>3. QED
      BY <3>2, <2>2, <2>7, <1>1, AncestorsOfAncestors
  <2>10. QED
    BY <2>8, <2>9
<1> HIDE DEF P
<1>4. P = Nat
  <2>1. P \in SUBSET Nat
    BY DEF P
  <2>2. QED
    BY <2>1, <1>2, <1>3, UpTo
<1>5. QED
  BY <1>1, <1>4 DEF P

-----------------------------------------------------------------------------
(* The loop that removes a property *)

LEMMA CheckedStep ==
  ASSUME NEW t, Tidy(t), NEW i \in DOMAIN t, NEW v, v = CheckAndRemoveProp(t, i)
  PROVE  /\ Tidy(v) /\ Len(v) <= Len(t) /\ Props(v) \subseteq Props(t)
         /\ \A k \in 1..(i - 1) : k <= Len(v) => v[k].prop = t[k].prop
         /\ i <= Len(v) => v[i].prop # t[i].prop
         /\ \A m \in Model : Right(t, m) =>
              /\ Right(v, m)
              /\ \A x \in Props(t) :
                   (x # t[i].prop /\ t[i].prop \notin Ancestors(m, x)) => x \in Props(v)
<1> DEFINE w == LastBelow(t, i) - i + 1
<1>1. /\ t \in Seq(Row) /\ DOMAIN t = 1..Len(t) /\ Len(t) \in Nat /\ i \in 1..Len(t) /\ i \in Nat
      /\ \A x \in 1..Len(t) : t[x].depth \in Nat
  BY RowsType DEF Tidy, Nested
<1>2. Branch(t, i, w)
  BY <1>1, BranchBelow
<1>3. Less(v, t, i, w) /\ Opened(v)
  BY CheckedIs DEF Tidy
<1>4. \A k \in (i + 1)..(i + w - 1) : t[k].depth > t[i].depth
  <2>1. LastBelow(t, i) \in i..Len(t) /\ \A k \in (i + 1)..LastBelow(t, i) : t[k].depth > t[i].depth
    BY <1>1, LastBelowIs
  <2>2. i + w - 1 = LastBelow(t, i)
    BY <1>1, <2>1
  <2>3. QED
    BY <2>1, <2>2
<1> HIDE DEF w
<1>5. Tidy(v)
  BY <1>2, <1>3, LessNested, LessApart DEF Tidy
<1>6. /\ v \in Seq(Row) /\ DOMAIN v = 1..Len(v) /\ Len(v) = Len(t) - w /\ Len(v) \in Nat
      /\ \A k \in 1..Len(v) : /\ v[k].prop = t[From(k, i, w)].prop
                              /\ v[k].depth = t[From(k, i, w)].depth
  BY <1>3, RowsType DEF Less
<1>7. w \in Nat \ {0} /\ i + w <= Len(t) + 1 /\ (i + w <= Len(t) => t[i + w].depth <= t[i].depth)
      /\ \A k \in i..(i + w - 1) : t[k].depth >= t[i].depth
  BY <1>2 DEF Branch
<1>8. \A k \in 1..Len(v) : From(k, i, w) \in DOMAIN t
  BY <1>1, <1>6, <1>7 DEF From
<1>9. Props(v) \subseteq Props(t)
  BY <1>6, <1>8 DEF Props
<1>10. \A k \in 1..(i - 1) : k <= Len(v) => v[k].prop = t[k].prop
  BY <1>1, <1>6 DEF From
<1>11. ASSUME i <= Len(v) PROVE v[i].prop # t[i].prop
  <2>1. i + w <= Len(t) /\ i + w \in DOMAIN t /\ i < i + w
    BY <1>1, <1>6, <1>7, <1>11
  <2>2. \A k \in i..(i + w) : t[k].depth >= t[i + w].depth
    <3>1. SUFFICES ASSUME NEW k \in i..(i + w) PROVE t[k].depth >= t[i + w].depth
      OBVIOUS
    <3>2. t[k].depth \in Nat /\ t[i + w].depth \in Nat /\ t[i].depth \in Nat
      BY <2>1, <1>1, <1>7
    <3>3. CASE k = i + w
      BY <3>2, <3>3
    <3>4. CASE k # i + w
      <4>1. k \in i..(i + w - 1)
        <5>1. k \in Int /\ k >= i /\ k <= i + w /\ i \in Int /\ w \in Int
          BY <1>1, <1>7
        <5>2. QED
          BY <5>1, <3>4
      <4>2. QED
        BY <4>1, <3>2, <2>1, <1>7
    <3>5. QED
      BY <3>3, <3>4
  <2>3. t[i].prop # t[i + w].prop
    BY <2>1, <2>2 DEF Tidy, Apart
  <2>4. v[i].prop = t[i + w].prop
    BY <1>1, <1>6, <1>11 DEF From
  <2>5. QED
    BY <2>3, <2>4
<1>12. ASSUME NEW m \in Model, Right(t, m)
       PROVE  /\ Right(v, m)
              /\ \A x \in Props(t) :
                   (x # t[i].prop /\ t[i].prop \notin Ancestors(m, x)) => x \in Props(v)
  <2>1. ASSUME NEW k \in DOMAIN v
        PROVE  v[k].prop \in m.live /\ (v[k].depth = 0 => v[k].prop \in Roots(m))
    BY <2>1, <1>6, <1>8, <1>12 DEF Right
  <2>2. ASSUME NEW k \in DOMAIN v, NEW l \in DOMAIN v, Above(v, k, l)
        PROVE  v[l].prop \in DirectSubs(m, v[k].prop)
    <3>1. Above(t, From(k, i, w), From(l, i, w))
      BY <2>2, <1>2, <1>3, <1>6, LessAbove
    <3>2. From(k, i, w) \in DOMAIN t /\ From(l, i, w) \in DOMAIN t
      BY <2>2, <1>6, <1>8
    <3>3. t[From(l, i, w)].prop \in DirectSubs(m, t[From(k, i, w)].prop)
      BY <3>1, <3>2, <1>12 DEF Right
    <3>4. QED
      BY <3>3, <2>2, <1>6
  <2>3. Right(v, m)
    BY <2>1, <2>2 DEF Right
  <2>4. ASSUME NEW x \in Props(t), x # t[i].prop, t[i].prop \notin Ancestors(m, x)
        PROVE  x \in Props(v)
    <3>1. PICK j \in DOMAIN t : x = t[j].prop
      BY <2>4 DEF Props
    <3>2. j \in Nat /\ j # i
      BY <3>1, <2>4, <1>1
    <3>3. CASE j < i
      <4>1. j \in 1..Len(v) /\ From(j, i, w) = j
        BY <3>2, <3>3, <1>1, <1>6, <1>7 DEF From
      <4>2. QED
        BY <4>1, <3>1, <1>6 DEF Props
    <3>4. CASE j >= i + w
      <4>1. j - w \in 1..Len(v) /\ From(j - w, i, w) = j
        BY <3>2, <3>4, <1>1, <1>6, <1>7 DEF From
      <4>2. v[j - w].prop = x /\ j - w \in DOMAIN v
        BY <4>1, <3>1, <1>6
      <4>3. QED
        BY <4>2 DEF Props
    <3>5. CASE j > i /\ j < i + w
      <4>1. \A k \in (i + 1)..j : t[k].depth > t[i].depth
        BY <3>2, <3>5, <1>1, <1>4, <1>7
      <4>2. Linked(t, m) /\ Nested(t)
        BY <1>12 DEF Right, Linked, Tidy
      <4>3. t[i].prop \in Ancestors(m, t[j].prop)
        BY <4>1, <4>2, <3>5, Beneath
      <4>4. QED
        BY <4>3, <3>1, <2>4
    <3>6. QED
      BY <3>2, <3>3, <3>4, <3>5, <1>1, <1>7
  <2>5. QED
    BY <2>3, <2>4
<1>13. Len(v) <= Len(t)
  BY <1>1, <1>6, <1>7
<1>14. QED
  BY <1>5, <1>9, <1>10, <1>11, <1>12, <1>13

LookLoop(f, t, p, N) ==
  f = [i \in 0..N |-> IF i = 0 THEN t ELSE Looked(f[i - 1], i, p)]

LEMMA LookLoopExists ==
  ASSUME NEW t, NEW p, NEW N \in Nat
  PROVE  \E f : LookLoop(f, t, p, N)
<1> DEFINE P == {n \in Nat : \E f : LookLoop(f, t, p, n)}
<1>1. 0 \in P
  <2> DEFINE f == [i \in 0..0 |-> t]
  <2>1. LookLoop(f, t, p, 0)
    BY DEF LookLoop
  <2>2. QED
    BY <2>1
<1>2. ASSUME NEW n \in P PROVE n + 1 \in P
  <2>1. PICK f : LookLoop(f, t, p, n)
    BY <1>2
  <2> DEFINE g == [i \in 0..(n + 1) |-> IF i = 0 THEN t ELSE Looked(f[i - 1], i, p)]
  <2>2. \A i \in 0..n : g[i] = f[i]
    BY <2>1 DEF LookLoop
  <2>3. \A i \in 0..(n + 1) : i # 0 => i - 1 \in 0..n
    OBVIOUS
  <2>4. LookLoop(g, t, p, n + 1)
    BY <2>2, <2>3 DEF LookLoop
  <2> HIDE DEF g
  <2>5. QED
    BY <2>4
<1> HIDE DEF P
<1>3. P = Nat
  BY <1>1, <1>2, UpTo DEF P
<1>4. QED
  BY <1>3 DEF P

(* After n rows of the list were looked at: none of the first n is of p,    *)
(* although the list is live, and nothing is gone but p and what is below.  *)
LookedAt(t, u, p, n) ==
  /\ Tidy(u) /\ Len(u) <= Len(t) /\ Props(u) \subseteq Props(t)
  /\ \A k \in 1..n : k <= Len(u) => u[k].prop # p
  /\ \A m \in Model : Right(t, m) =>
       /\ Right(u, m)
       /\ \A x \in Props(t) : (x # p /\ p \notin Ancestors(m, x)) => x \in Props(u)

LEMMA LookedKeeps ==
  ASSUME NEW t, NEW u, NEW p, NEW n \in Nat, Len(t) \in Nat, LookedAt(t, u, p, n)
  PROVE  LookedAt(t, Looked(u, n + 1, p), p, n + 1)
<1> DEFINE v == Looked(u, n + 1, p)
<1>1. /\ DOMAIN u = 1..Len(u) /\ Len(u) \in Nat
  BY RowsType DEF LookedAt, Tidy, Nested
<1>2. CASE n + 1 <= Len(u) /\ u[n + 1].prop = p
  <2>1. v = CheckAndRemoveProp(u, n + 1) /\ n + 1 \in DOMAIN u /\ Tidy(u)
    BY <1>1, <1>2 DEF Looked, LookedAt
  <2> HIDE DEF v
  <2>2. /\ Tidy(v) /\ Len(v) <= Len(u) /\ Props(v) \subseteq Props(u)
        /\ \A k \in 1..((n + 1) - 1) : k <= Len(v) => v[k].prop = u[k].prop
        /\ n + 1 <= Len(v) => v[n + 1].prop # p
        /\ \A m \in Model : Right(u, m) =>
             /\ Right(v, m)
             /\ \A x \in Props(u) :
                  (x # p /\ p \notin Ancestors(m, x)) => x \in Props(v)
    <3>1. PICK j : j = n + 1
      OBVIOUS
    <3>2. v = CheckAndRemoveProp(u, j) /\ j \in DOMAIN u /\ Tidy(u) /\ u[j].prop = p
      BY <2>1, <1>2, <3>1
    <3>3. QED
      BY <3>1, <3>2, CheckedStep
  <2>3. Len(v) \in Nat
    BY <2>2, RowsType DEF Tidy, Nested
  <2>4. Len(v) <= Len(t) /\ Props(v) \subseteq Props(t)
    BY <2>2, <2>3, <1>1 DEF LookedAt
  <2>5. ASSUME NEW k \in 1..(n + 1), k <= Len(v) PROVE v[k].prop # p
    <3>1. CASE k = n + 1
      BY <3>1, <2>2, <2>5
    <3>2. CASE k # n + 1
      <4>1. k \in 1..n /\ k \in 1..((n + 1) - 1) /\ k <= Len(u)
        BY <3>2, <2>2, <2>3, <2>5, <1>1
      <4>2. v[k].prop = u[k].prop /\ u[k].prop # p
        BY <4>1, <2>2, <2>5 DEF LookedAt
      <4>3. QED
        BY <4>2
    <3>3. QED
      BY <3>1, <3>2
  <2>6. ASSUME NEW m \in Model, Right(t, m)
        PROVE  /\ Right(v, m)
               /\ \A x \in Props(t) : (x # p /\ p \notin Ancestors(m, x)) => x \in Props(v)
    BY <2>2, <2>6 DEF LookedAt
  <2>7. LookedAt(t, v, p, n + 1)
    BY <2>2, <2>4, <2>5, <2>6 DEF LookedAt
  <2>8. QED
    BY <2>7 DEF v
<1>3. CASE ~(n + 1 <= Len(u) /\ u[n + 1].prop = p)
  <2>1. v = u
    BY <1>3 DEF Looked
  <2>2. ASSUME NEW k \in 1..(n + 1), k <= Len(u) PROVE u[k].prop # p
    <3>1. CASE k = n + 1
      BY <3>1, <2>2, <1>3
    <3>2. CASE k # n + 1
      <4>1. k \in 1..n
        BY <3>2
      <4>2. QED
        BY <4>1, <2>2 DEF LookedAt
    <3>3. QED
      BY <3>1, <3>2
  <2>3. LookedAt(t, u, p, n + 1)
    BY <2>2 DEF LookedAt
  <2>4. QED
    BY <2>1, <2>3
<1>4. QED
  BY <1>2, <1>3

(* removeProperty_RESPONSE removes every row of the property, although it   *)
(* goes through a list that changes under it.                               *)
LEMMA RemovedIs ==
  ASSUME NEW t, Tidy(t), NEW p, NEW u, u = RemovedProperty(t, p)
  PROVE  /\ Tidy(u) /\ Props(u) \subseteq Props(t) \ {p}
         /\ \A m \in Model : Right(t, m) =>
              /\ Right(u, m)
              /\ \A x \in Props(t) : (x # p /\ p \notin Ancestors(m, x)) => x \in Props(u)
<1>1. Len(t) \in Nat
  BY RowsType DEF Tidy, Nested
<1> DEFINE f == CHOOSE f : LookLoop(f, t, p, Len(t))
<1>2. LookLoop(f, t, p, Len(t))
  BY <1>1, LookLoopExists
<1>3. u = f[Len(t)]
  BY DEF RemovedProperty, LookLoop
<1> HIDE DEF f
<1> DEFINE P == {n \in Nat : n <= Len(t) => LookedAt(t, f[n], p, n)}
<1>4. 0 \in P
  <2>1. f[0] = t
    BY <1>1, <1>2 DEF LookLoop
  <2>2. LookedAt(t, t, p, 0)
    BY <1>1 DEF LookedAt
  <2>3. QED
    BY <2>1, <2>2
<1>5. ASSUME NEW n \in P PROVE n + 1 \in P
  <2>1. SUFFICES ASSUME n + 1 <= Len(t) PROVE LookedAt(t, f[n + 1], p, n + 1)
    BY <1>5
  <2>2. n \in Nat /\ n <= Len(t) /\ n + 1 \in 0..Len(t) /\ n + 1 # 0 /\ (n + 1) - 1 = n
    BY <1>1, <1>5, <2>1
  <2>3. LookedAt(t, f[n], p, n)
    BY <1>5, <2>2
  <2>4. f[n + 1] = Looked(f[n], n + 1, p)
    BY <1>2, <2>2 DEF LookLoop
  <2> HIDE DEF P
  <2>5. LookedAt(t, Looked(f[n], n + 1, p), p, n + 1)
    BY <1>1, <2>2, <2>3, LookedKeeps
  <2>6. QED
    BY <2>4, <2>5
<1> HIDE DEF P
<1>6. P = Nat
  BY <1>4, <1>5, UpTo DEF P
<1>7. LookedAt(t, u, p, Len(t))
  BY <1>1, <1>3, <1>6 DEF P
<1>8. p \notin Props(u)
  <2>1. SUFFICES ASSUME NEW k \in DOMAIN u, u[k].prop = p PROVE FALSE
    BY DEF Props
  <2>2. k \in 1..Len(u) /\ Len(u) \in Nat /\ Len(u) <= Len(t)
    BY <1>7, RowsType DEF LookedAt, Tidy, Nested
  <2>3. k \in 1..Len(t) /\ k <= Len(u)
    BY <2>2, <1>1
  <2>4. QED
    BY <2>1, <2>3, <1>7 DEF LookedAt
<1>9. QED
  BY <1>7, <1>8 DEF LookedAt

-----------------------------------------------------------------------------
(* Adding a row *)

\* After b a child of the item at i can be added: behind all that is below
\* it.  A row at the top (i is 0) is added at the end.
Place(t, i, b) ==
  \/ i = 0 /\ b = Len(t)
  \/ /\ i \in DOMAIN t /\ b \in i..Len(t)
     /\ \A k \in (i + 1)..b : t[k].depth > t[i].depth
     /\ b < Len(t) => t[b + 1].depth <= t[i].depth

Level(t, i) == IF i = 0 THEN 0 ELSE t[i].depth + 1

\* Where the row at k was before one was added after b.
Was(k, b) == IF k <= b THEN k ELSE k - 1

\* The rows of u are those of t and, after b, one of p.
More(u, t, i, b, p) ==
  /\ u \in Seq(Row) /\ Len(u) = Len(t) + 1 /\ u[b + 1] = NewRow(p, Level(t, i))
  /\ \A k \in 1..Len(u) : k # b + 1 =>
       /\ u[k].prop = t[Was(k, b)].prop /\ u[k].depth = t[Was(k, b)].depth
       /\ u[k].container = (k = i \/ t[Was(k, b)].container)

\* What is used of all these in the lemmas below.
Grown(u, t, i, b, p) ==
  /\ Len(t) \in Nat /\ Len(u) = Len(t) + 1 /\ i \in 0..Len(t) /\ b \in 0..Len(t) /\ i <= b
  /\ Level(t, i) \in Nat /\ DOMAIN t = 1..Len(t) /\ DOMAIN u = 1..(Len(t) + 1)
  /\ \A k \in 1..Len(t) : t[k].depth \in Nat /\ t[k].container \in BOOLEAN
  /\ u[b + 1].prop = p /\ u[b + 1].depth = Level(t, i) /\ u[b + 1].container = FALSE
  /\ b < Len(t) => i # 0 /\ t[b + 1].depth < Level(t, i)
  /\ \A k \in (i + 1)..b : i # 0 => t[k].depth >= Level(t, i)

LEMMA MoreFacts ==
  ASSUME NEW t \in Seq(Row), NEW i, NEW b, Place(t, i, b), NEW p, NEW u, More(u, t, i, b, p)
  PROVE  Grown(u, t, i, b, p)
<1>1. /\ Len(t) \in Nat /\ DOMAIN t = 1..Len(t)
      /\ \A k \in 1..Len(t) : t[k].depth \in Nat /\ t[k].container \in BOOLEAN
  BY RowsType
<1>2. Len(u) = Len(t) + 1 /\ DOMAIN u = 1..(Len(t) + 1) /\ u[b + 1] = NewRow(p, Level(t, i))
  BY RowsType DEF More
<1>3. u[b + 1].prop = p /\ u[b + 1].depth = Level(t, i) /\ u[b + 1].container = FALSE
  BY <1>2 DEF NewRow
<1>4. CASE i = 0 /\ b = Len(t)
  <2>1. Level(t, i) = 0 /\ i \in 0..Len(t) /\ b \in 0..Len(t) /\ i <= b /\ ~(b < Len(t))
    BY <1>1, <1>4 DEF Level
  <2>2. QED
    BY <1>1, <1>2, <1>3, <1>4, <2>1 DEF Grown
<1>5. CASE /\ i \in DOMAIN t /\ b \in i..Len(t)
           /\ \A k \in (i + 1)..b : t[k].depth > t[i].depth
           /\ b < Len(t) => t[b + 1].depth <= t[i].depth
  <2>1. /\ Level(t, i) = t[i].depth + 1 /\ t[i].depth \in Nat /\ i # 0
        /\ i \in 0..Len(t) /\ b \in 0..Len(t) /\ i <= b /\ Level(t, i) \in Nat
    BY <1>1, <1>5 DEF Level
  <2>2. b < Len(t) => t[b + 1].depth < Level(t, i)
    BY <1>1, <1>5, <2>1
  <2>3. \A k \in (i + 1)..b : t[k].depth >= Level(t, i)
    BY <1>1, <1>5, <2>1
  <2>4. QED
    BY <1>1, <1>2, <1>3, <2>1, <2>2, <2>3 DEF Grown
<1>6. QED
  BY <1>4, <1>5 DEF Place

LEMMA MoreNested ==
  ASSUME NEW t, Nested(t), NEW i, NEW b, Place(t, i, b), NEW p, NEW u, More(u, t, i, b, p)
  PROVE  Nested(u)
<1>1. t \in Seq(Row) /\ \A k \in 1..Len(t) : t[k].depth <= IF k = 1 THEN 0 ELSE t[k - 1].depth + 1
  BY RowsType DEF Nested
<1> DEFINE N == Len(t)
           d == Level(t, i)
<1>2. /\ N \in Nat /\ i \in 0..N /\ b \in 0..N /\ i <= b /\ d \in Nat
      /\ DOMAIN u = 1..(N + 1) /\ \A k \in 1..N : t[k].depth \in Nat
      /\ u[b + 1].depth = d /\ (b < N => t[b + 1].depth < d)
      /\ \A k \in (i + 1)..b : i # 0 => t[k].depth >= d
  <2> HIDE DEF N, d
  <2>1. /\ Len(t) \in Nat /\ i \in 0..Len(t) /\ b \in 0..Len(t) /\ i <= b /\ Level(t, i) \in Nat
        /\ DOMAIN u = 1..(Len(t) + 1) /\ \A k \in 1..Len(t) : t[k].depth \in Nat
        /\ u[b + 1].depth = Level(t, i) /\ (b < Len(t) => t[b + 1].depth < Level(t, i))
        /\ \A k \in (i + 1)..b : i # 0 => t[k].depth >= Level(t, i)
    <3>1. Grown(u, t, i, b, p)
      BY <1>1, MoreFacts
    <3>2. QED
      BY <3>1 DEF Grown
  <2>2. QED
    BY <2>1 DEF N, d
<1>3. i # 0 => d = t[i].depth + 1
  BY DEF Level
<1>4. i = 0 => d = 0
  BY DEF Level
<1>5. \A k \in 1..(N + 1) : k # b + 1 => u[k].depth = t[Was(k, b)].depth
  BY <1>2 DEF More
<1> HIDE DEF N, d
<1>6. ASSUME NEW k \in 1..(N + 1)
      PROVE  u[k].depth <= IF k = 1 THEN 0 ELSE u[k - 1].depth + 1
  <2>1. CASE k <= b
    <3>1. k \in 1..N /\ k # b + 1 /\ Was(k, b) = k /\ k - 1 # b + 1
          /\ (k # 1 => k - 1 \in 1..(N + 1) /\ Was(k - 1, b) = k - 1)
      BY <2>1, <1>2 DEF Was
    <3>2. u[k].depth = t[k].depth /\ (k # 1 => u[k - 1].depth = t[k - 1].depth)
      BY <3>1, <1>5
    <3>3. QED
      BY <3>1, <3>2, <1>1 DEF N
  <2>2. CASE k = b + 1
    <3>1. u[k].depth = d
      BY <2>2, <1>2
    <3>2. CASE i = 0
      <4>1. d = 0 /\ (k # 1 => k - 1 \in 1..N /\ k - 1 # b + 1 /\ Was(k - 1, b) = k - 1
                               /\ k - 1 \in 1..(N + 1))
        BY <3>2, <2>2, <1>2, <1>4 DEF Was
      <4>2. k # 1 => u[k - 1].depth = t[k - 1].depth /\ t[k - 1].depth \in Nat
        BY <4>1, <1>2, <1>5
      <4>3. QED
        BY <3>1, <4>1, <4>2
    <3>3. CASE i # 0
      <4>1. k # 1 /\ k - 1 = b /\ b \in 1..N /\ b \in 1..(N + 1) /\ b # b + 1 /\ Was(b, b) = b
            /\ i \in 1..N
        <5>1. N \in Nat /\ i \in Nat /\ b \in Nat /\ i # 0 /\ i <= b /\ b <= N /\ k = b + 1
          BY <3>3, <2>2, <1>2
        <5>2. QED
          BY <5>1 DEF Was
      <4>2. u[k - 1].depth = t[b].depth
        BY <4>1, <1>5
      <4>3. t[b].depth + 1 >= d
        <5>1. CASE b = i
          BY <5>1, <3>3, <4>1, <1>2, <1>3
        <5>2. CASE b # i
          <6>1. b \in (i + 1)..b
            BY <5>2, <4>1, <1>2
          <6>2. t[b].depth >= d /\ t[b].depth \in Nat
            BY <6>1, <4>1, <3>3, <1>2
          <6>3. QED
            BY <6>2, <1>2
        <5>3. QED
          BY <5>1, <5>2
      <4>4. t[b].depth \in Nat
        BY <4>1, <1>2
      <4>5. QED
        BY <3>1, <4>1, <4>2, <4>3, <4>4, <1>2
    <3>4. QED
      BY <3>2, <3>3
  <2>3. CASE k = b + 2
    <3>1. k # b + 1 /\ Was(k, b) = b + 1 /\ b < N /\ b + 1 \in 1..N /\ k - 1 = b + 1 /\ k # 1
      BY <2>3, <1>2 DEF Was
    <3>2. u[k].depth = t[b + 1].depth /\ t[b + 1].depth < d /\ t[b + 1].depth \in Nat
      BY <3>1, <1>2, <1>5
    <3>3. u[k - 1].depth = d
      BY <3>1, <1>2
    <3>4. QED
      BY <3>1, <3>2, <3>3, <1>2
  <2>4. CASE k > b + 2
    <3>1. /\ k # b + 1 /\ k # 1 /\ k - 1 # b + 1 /\ k - 1 \in 1..N /\ k - 1 # 1 /\ k - 1 \in 1..(N + 1)
          /\ Was(k, b) = k - 1 /\ Was(k - 1, b) = (k - 1) - 1
      BY <2>4, <1>2 DEF Was
    <3>2. u[k].depth = t[k - 1].depth /\ u[k - 1].depth = t[(k - 1) - 1].depth
      BY <3>1, <1>5
    <3>3. t[k - 1].depth <= t[(k - 1) - 1].depth + 1
      BY <3>1, <1>1 DEF N
    <3>4. QED
      BY <3>1, <3>2, <3>3
  <2>5. QED
    BY <2>1, <2>2, <2>3, <2>4, <1>2
<1>7. u \in Seq(Row)
  BY DEF More
<1>8. QED
  BY <1>2, <1>6, <1>7 DEF Nested

LEMMA MoreOpened ==
  ASSUME NEW t \in Seq(Row), Opened(t), NEW i, NEW b, Place(t, i, b), NEW p, NEW u,
         More(u, t, i, b, p)
  PROVE  Opened(u)
<1> DEFINE N == Len(t)
           d == Level(t, i)
<1>1. /\ N \in Nat /\ i \in 0..N /\ b \in 0..N /\ i <= b /\ d \in Nat
      /\ DOMAIN u = 1..(N + 1) /\ Len(u) = N + 1 /\ DOMAIN t = 1..N
      /\ \A k \in 1..N : t[k].depth \in Nat /\ t[k].container \in BOOLEAN
      /\ u[b + 1].depth = d /\ u[b + 1].container = FALSE /\ (b < N => t[b + 1].depth < d /\ i # 0)
      /\ \A k \in (i + 1)..b : i # 0 => t[k].depth >= d
  <2> HIDE DEF N, d
  <2>1. /\ Len(t) \in Nat /\ i \in 0..Len(t) /\ b \in 0..Len(t) /\ i <= b /\ Level(t, i) \in Nat
        /\ DOMAIN u = 1..(Len(t) + 1) /\ Len(u) = Len(t) + 1 /\ DOMAIN t = 1..Len(t)
        /\ \A k \in 1..Len(t) : t[k].depth \in Nat /\ t[k].container \in BOOLEAN
        /\ u[b + 1].depth = Level(t, i) /\ u[b + 1].container = FALSE
        /\ (b < Len(t) => t[b + 1].depth < Level(t, i) /\ i # 0)
        /\ \A k \in (i + 1)..b : i # 0 => t[k].depth >= Level(t, i)
    <3>1. Grown(u, t, i, b, p)
      BY MoreFacts
    <3>2. QED
      BY <3>1 DEF Grown
  <2>2. QED
    BY <2>1 DEF N, d
<1>2. i # 0 => d = t[i].depth + 1
  BY DEF Level
<1>3. i = 0 => d = 0 /\ b = N
  BY <1>1 DEF Level, Place
<1>4. \A k \in 1..(N + 1) : k # b + 1 =>
        /\ u[k].depth = t[Was(k, b)].depth
        /\ u[k].container = (k = i \/ t[Was(k, b)].container)
  BY <1>1 DEF More
<1>5. \A k \in 1..N : t[k].container <=> (k < N /\ t[k + 1].depth > t[k].depth)
  BY <1>1 DEF Opened
<1> HIDE DEF N, d
<1>6. ASSUME NEW k \in 1..(N + 1)
      PROVE  u[k].container <=> (k < N + 1 /\ u[k + 1].depth > u[k].depth)
  <2>1. CASE k < b
    <3>1. /\ k \in 1..N /\ k # b + 1 /\ Was(k, b) = k /\ k < N /\ k + 1 \in 1..N
          /\ k + 1 # b + 1 /\ Was(k + 1, b) = k + 1 /\ k + 1 \in 1..(N + 1) /\ k < N + 1
      BY <2>1, <1>1 DEF Was
    <3>2. u[k].depth = t[k].depth /\ u[k + 1].depth = t[k + 1].depth
          /\ (u[k].container <=> (k = i \/ t[k].container))
      BY <3>1, <1>4
    <3>3. k = i => t[k + 1].depth > t[k].depth
      <4>1. SUFFICES ASSUME k = i PROVE t[k + 1].depth > t[k].depth
        OBVIOUS
      <4>2. i # 0 /\ k + 1 \in (i + 1)..b
        BY <2>1, <4>1, <1>1
      <4>3. t[k + 1].depth >= d /\ d = t[k].depth + 1
        BY <4>1, <4>2, <1>1, <1>2
      <4>4. t[k + 1].depth \in Nat /\ t[k].depth \in Nat
        BY <3>1, <1>1
      <4>5. QED
        BY <4>3, <4>4
    <3>4. QED
      BY <3>1, <3>2, <3>3, <1>5
  <2>2. CASE k = b
    <3>1. /\ k \in 1..N /\ k # b + 1 /\ Was(k, b) = k /\ k < N + 1 /\ k + 1 = b + 1
      BY <2>2, <1>1 DEF Was
    <3>2. u[k].depth = t[k].depth /\ u[k + 1].depth = d
          /\ (u[k].container <=> (k = i \/ t[k].container))
      BY <3>1, <1>1, <1>4
    <3>3. t[k].depth \in Nat
      BY <3>1, <1>1
    <3>4. CASE k = i
      <4>1. d > t[k].depth
        BY <3>1, <3>3, <3>4, <1>2
      <4>2. QED
        BY <3>1, <3>2, <3>4, <4>1
    <3>5. CASE k # i
      <4>1. ~(d > t[k].depth)
        <5>1. CASE i = 0
          BY <5>1, <3>3, <1>3
        <5>2. CASE i # 0
          <6>1. k \in (i + 1)..b
            BY <2>2, <3>1, <3>5, <1>1
          <6>2. t[k].depth >= d
            BY <5>2, <6>1, <1>1
          <6>3. QED
            BY <6>2, <3>3, <1>1
        <5>3. QED
          BY <5>1, <5>2
      <4>2. ~t[k].container
        <5>1. SUFFICES ASSUME k < N PROVE ~(t[k + 1].depth > t[k].depth)
          BY <3>1, <1>5
        <5>2. t[k + 1].depth < d /\ k + 1 \in 1..N
          BY <2>2, <5>1, <3>1, <1>1
        <5>3. t[k + 1].depth \in Nat
          BY <5>2, <1>1
        <5>4. QED
          BY <3>3, <4>1, <5>2, <5>3, <1>1
      <4>3. QED
        BY <3>1, <3>2, <3>5, <4>1, <4>2
    <3>6. QED
      BY <3>4, <3>5
  <2>3. CASE k = b + 1
    <3>1. SUFFICES ASSUME k < N + 1 PROVE ~(u[k + 1].depth > u[k].depth)
      BY <2>3, <1>1
    <3>2. b < N /\ b + 1 \in 1..N /\ k + 1 # b + 1 /\ Was(k + 1, b) = b + 1 /\ k + 1 \in 1..(N + 1)
      BY <2>3, <3>1, <1>1 DEF Was
    <3>3. u[k + 1].depth = t[b + 1].depth /\ t[b + 1].depth < d /\ t[b + 1].depth \in Nat
      BY <3>2, <1>1, <1>4
    <3>4. QED
      BY <2>3, <3>3, <1>1
  <2>4. CASE k > b + 1
    <3>1. /\ k # b + 1 /\ k + 1 # b + 1 /\ k - 1 \in 1..N /\ Was(k, b) = k - 1 /\ Was(k + 1, b) = (k - 1) + 1
          /\ (k < N + 1 <=> k - 1 < N) /\ (k < N + 1 => k + 1 \in 1..(N + 1)) /\ k # i
      BY <2>4, <1>1 DEF Was
    <3>2. u[k].depth = t[k - 1].depth /\ (u[k].container <=> t[k - 1].container)
      BY <3>1, <1>4
    <3>3. k < N + 1 => u[k + 1].depth = t[(k - 1) + 1].depth
      BY <3>1, <1>4
    <3>4. QED
      BY <3>1, <3>2, <3>3, <1>5
  <2>5. QED
    BY <2>1, <2>2, <2>3, <2>4, <1>1
<1>7. QED
  BY <1>1, <1>6 DEF Opened

\* What is between two old rows was between them before.
LEMMA MoreBetween ==
  ASSUME NEW t \in Seq(Row), NEW i, NEW b, Place(t, i, b), NEW p, NEW u, More(u, t, i, b, p),
         NEW k \in DOMAIN u, NEW l \in DOMAIN u, k < l, k # b + 1, l # b + 1,
         NEW d \in Nat, \A x \in (k + 1)..l : u[x].depth >= d
  PROVE  /\ Was(k, b) \in DOMAIN t /\ Was(l, b) \in DOMAIN t /\ Was(k, b) < Was(l, b)
         /\ \A y \in (Was(k, b) + 1)..Was(l, b) : t[y].depth >= d
<1>1. Grown(u, t, i, b, p)
  BY MoreFacts
<1>2. /\ Len(t) \in Nat /\ b \in Nat /\ b <= Len(t) /\ DOMAIN t = 1..Len(t)
      /\ DOMAIN u = 1..(Len(t) + 1) /\ Len(u) = Len(t) + 1
  BY <1>1 DEF Grown
<1>3. k \in Nat /\ l \in Nat /\ k >= 1 /\ l <= Len(t) + 1
  BY <1>2
<1>4. Was(k, b) \in DOMAIN t /\ Was(l, b) \in DOMAIN t /\ Was(k, b) < Was(l, b)
  BY <1>2, <1>3 DEF Was
<1>5. ASSUME NEW y \in (Was(k, b) + 1)..Was(l, b) PROVE t[y].depth >= d
  <2>1. y \in Nat
    BY <1>2, <1>4
  <2>2. PICK x \in Nat : x = IF y <= b THEN y ELSE y + 1
    BY <2>1
  <2>3. x \in (k + 1)..l /\ x # b + 1 /\ Was(x, b) = y
    BY <1>2, <1>3, <2>1, <2>2 DEF Was
  <2>4. x \in 1..Len(u)
    BY <1>2, <1>3, <2>3
  <2>5. u[x].depth = t[y].depth
    BY <2>3, <2>4 DEF More
  <2>6. QED
    BY <2>3, <2>5
<1>6. QED
  BY <1>4, <1>5

\* The rows that stand for one another, and whose parent is whose.
LEMMA MoreAbove ==
  ASSUME NEW t \in Seq(Row), NEW i, NEW b, Place(t, i, b), NEW p, NEW u, More(u, t, i, b, p),
         NEW k \in DOMAIN u, NEW l \in DOMAIN u, Above(u, k, l)
  PROVE  /\ k # b + 1
         /\ l = b + 1 => k = i /\ i # 0
         /\ l # b + 1 => Above(t, Was(k, b), Was(l, b))
<1>1. Grown(u, t, i, b, p)
  BY MoreFacts
<1>2. /\ Len(t) \in Nat /\ b \in Nat /\ b <= Len(t) /\ DOMAIN t = 1..Len(t) /\ i \in Nat /\ i <= b
      /\ DOMAIN u = 1..(Len(t) + 1) /\ Len(u) = Len(t) + 1 /\ Level(t, i) \in Nat
      /\ \A x \in 1..Len(t) : t[x].depth \in Nat
      /\ u[b + 1].depth = Level(t, i) /\ (b < Len(t) => t[b + 1].depth < Level(t, i))
      /\ \A x \in (i + 1)..b : i # 0 => t[x].depth >= Level(t, i)
  BY <1>1 DEF Grown
<1>3. \A x \in DOMAIN u : x # b + 1 =>
        /\ Was(x, b) \in DOMAIN t /\ u[x].depth = t[Was(x, b)].depth
        /\ u[x].depth \in Nat
  <2>1. SUFFICES ASSUME NEW x \in DOMAIN u, x # b + 1
                 PROVE  /\ Was(x, b) \in DOMAIN t /\ u[x].depth = t[Was(x, b)].depth
                        /\ u[x].depth \in Nat
    OBVIOUS
  <2>2. Was(x, b) \in DOMAIN t
    BY <1>2, <2>1 DEF Was
  <2>3. x \in 1..Len(u)
    BY <1>2
  <2>4. u[x].depth = t[Was(x, b)].depth
    BY <2>1, <2>3 DEF More
  <2>5. QED
    BY <2>2, <2>4, <1>2
<1>4. \A x \in DOMAIN u : u[x].depth \in Nat
  BY <1>2, <1>3
<1>5. k < l /\ u[l].depth = u[k].depth + 1 /\ \A x \in (k + 1)..l : u[x].depth > u[k].depth
  BY DEF Above
<1>6. k \in Nat /\ l \in Nat /\ k >= 1 /\ l <= Len(t) + 1
  BY <1>2
<1>7. k # b + 1
  <2>1. SUFFICES ASSUME k = b + 1 PROVE FALSE
    OBVIOUS
  <2>2. b + 2 \in (k + 1)..l /\ b + 2 \in DOMAIN u /\ b + 2 # b + 1 /\ Was(b + 2, b) = b + 1
        /\ b < Len(t) /\ b + 1 \in 1..Len(t)
    BY <2>1, <1>2, <1>5, <1>6 DEF Was
  <2>3. t[b + 1].depth > Level(t, i)
    BY <2>1, <2>2, <1>2, <1>3, <1>5
  <2>4. t[b + 1].depth \in Nat
    BY <2>2, <1>2
  <2>5. QED
    BY <2>2, <2>3, <2>4, <1>2
<1>8. ASSUME l = b + 1 PROVE k = i /\ i # 0
  <2>1. k <= b /\ Was(k, b) = k /\ k \in 1..Len(t)
    BY <1>2, <1>5, <1>6, <1>8 DEF Was
  <2>2. u[k].depth = t[k].depth /\ t[k].depth \in Nat
    BY <2>1, <1>2, <1>3, <1>7
  <2>3. Level(t, i) = t[k].depth + 1
    BY <2>2, <1>2, <1>5, <1>8
  <2>4. i # 0
    <3>1. SUFFICES ASSUME i = 0 PROVE FALSE
      OBVIOUS
    <3>2. Level(t, i) = 0
      BY <3>1 DEF Level
    <3>3. QED
      BY <3>2, <2>2, <2>3
  <2>5. Level(t, i) = t[i].depth + 1 /\ i \in 1..Len(t)
    BY <2>4, <1>2 DEF Level
  <2>6. t[i].depth \in Nat
    BY <2>5, <1>2
  <2>7. ~(i < k)
    <3>1. SUFFICES ASSUME i < k PROVE FALSE
      OBVIOUS
    <3>2. k \in (i + 1)..b
      BY <3>1, <2>1, <1>2, <1>6
    <3>3. QED
      BY <3>2, <2>2, <2>3, <2>4, <1>2
  <2>8. ~(k < i)
    <3>1. SUFFICES ASSUME k < i PROVE FALSE
      OBVIOUS
    <3>2. i \in (k + 1)..l /\ i # b + 1 /\ Was(i, b) = i /\ i \in DOMAIN u
      BY <3>1, <2>5, <1>2, <1>6, <1>8 DEF Was
    <3>3. t[i].depth > t[k].depth
      BY <3>2, <2>2, <1>3, <1>5
    <3>4. QED
      BY <3>3, <2>2, <2>3, <2>5, <2>6
  <2>9. QED
    BY <2>4, <2>7, <2>8, <1>2, <1>6
<1>9. ASSUME l # b + 1 PROVE Above(t, Was(k, b), Was(l, b))
  <2>1. u[k].depth \in Nat /\ u[l].depth \in Nat
    BY <1>4
  <2>2. PICK d \in Nat : d = u[k].depth + 1
    BY <2>1
  <2>3. \A x \in (k + 1)..l : u[x].depth >= d
    <3>1. \A x \in (k + 1)..l : x \in DOMAIN u
      BY <1>2, <1>6
    <3>2. QED
      BY <3>1, <2>1, <2>2, <1>4, <1>5
  <2>4. /\ Was(k, b) \in DOMAIN t /\ Was(l, b) \in DOMAIN t /\ Was(k, b) < Was(l, b)
        /\ \A y \in (Was(k, b) + 1)..Was(l, b) : t[y].depth >= d
    BY <2>3, <1>5, <1>7, <1>9, MoreBetween
  <2>5. u[k].depth = t[Was(k, b)].depth /\ u[l].depth = t[Was(l, b)].depth
    BY <1>3, <1>7, <1>9
  <2>6. \A y \in (Was(k, b) + 1)..Was(l, b) : t[y].depth > t[Was(k, b)].depth
    <3>1. SUFFICES ASSUME NEW y \in (Was(k, b) + 1)..Was(l, b) PROVE t[y].depth > t[Was(k, b)].depth
      OBVIOUS
    <3>2. y \in 1..Len(t)
      BY <2>4, <1>2
    <3>3. t[y].depth \in Nat /\ t[y].depth >= u[k].depth + 1
      BY <3>2, <2>2, <2>4, <1>2
    <3>4. QED
      BY <3>3, <2>1, <2>5
  <2>7. QED
    BY <2>4, <2>5, <2>6, <1>5 DEF Above
<1>10. QED
  BY <1>7, <1>8, <1>9

LEMMA MoreApart ==
  ASSUME NEW t \in Seq(Row), Apart(t), NEW i, NEW b, Place(t, i, b), NEW p, p \notin Props(t),
         NEW u, More(u, t, i, b, p)
  PROVE  Apart(u) /\ Props(u) = Props(t) \cup {p}
<1>1. Grown(u, t, i, b, p)
  BY MoreFacts
<1>2. /\ Len(t) \in Nat /\ b \in Nat /\ b <= Len(t) /\ DOMAIN t = 1..Len(t)
      /\ DOMAIN u = 1..(Len(t) + 1) /\ Len(u) = Len(t) + 1
      /\ \A x \in 1..Len(t) : t[x].depth \in Nat
      /\ u[b + 1].prop = p /\ b + 1 \in DOMAIN u
  BY <1>1 DEF Grown
<1>3. ASSUME NEW x \in DOMAIN u, x # b + 1
      PROVE  /\ Was(x, b) \in DOMAIN t /\ u[x].depth = t[Was(x, b)].depth
             /\ u[x].prop = t[Was(x, b)].prop
  <2>1. Was(x, b) \in DOMAIN t
    BY <1>2, <1>3 DEF Was
  <2>2. x \in 1..Len(u)
    BY <1>2
  <2>3. QED
    BY <2>1, <2>2, <1>3 DEF More
<1>4. ASSUME NEW x \in DOMAIN u, x # b + 1 PROVE u[x].prop \in Props(t) /\ u[x].prop # p
  BY <1>3, <1>4 DEF Props
<1>5. Props(u) = Props(t) \cup {p}
  <2>1. Props(u) \subseteq Props(t) \cup {p}
    BY <1>2, <1>4 DEF Props
  <2>2. ASSUME NEW y \in DOMAIN t PROVE t[y].prop \in Props(u)
    <3>1. y \in Nat
      BY <1>2
    <3>2. PICK x \in Nat : x = IF y <= b THEN y ELSE y + 1
      BY <3>1
    <3>3. x \in DOMAIN u /\ x # b + 1 /\ Was(x, b) = y
      BY <1>2, <3>1, <3>2 DEF Was
    <3>4. QED
      BY <3>3, <1>3 DEF Props
  <2>3. p \in Props(u)
    BY <1>2 DEF Props
  <2>4. QED
    BY <2>1, <2>2, <2>3 DEF Props
<1>6. ASSUME NEW k \in DOMAIN u, NEW l \in DOMAIN u, k < l, \A x \in k..l : u[x].depth >= u[l].depth
      PROVE  u[k].prop # u[l].prop
  <2>1. CASE k = b + 1
    BY <2>1, <1>2, <1>4, <1>6
  <2>2. CASE l = b + 1
    BY <2>2, <1>2, <1>4, <1>6
  <2>3. CASE k # b + 1 /\ l # b + 1
    <3>1. /\ u[k].prop = t[Was(k, b)].prop /\ u[k].depth = t[Was(k, b)].depth
          /\ u[l].prop = t[Was(l, b)].prop /\ u[l].depth = t[Was(l, b)].depth
      BY <2>3, <1>3
    <3>2. u[l].depth \in Nat /\ k \in Nat /\ l \in Nat
      BY <2>3, <1>2, <1>3
    <3>3. PICK d \in Nat : d = u[l].depth
      BY <3>2
    <3>4. \A x \in (k + 1)..l : u[x].depth >= d
      BY <3>2, <3>3, <1>6
    <3>5. /\ Was(k, b) \in DOMAIN t /\ Was(l, b) \in DOMAIN t /\ Was(k, b) < Was(l, b)
          /\ \A y \in (Was(k, b) + 1)..Was(l, b) : t[y].depth >= d
      BY <2>3, <3>4, <1>6, MoreBetween
    <3>6. t[Was(k, b)].depth >= d
      BY <3>1, <3>2, <3>3, <1>6
    <3>7. \A y \in Was(k, b)..Was(l, b) : t[y].depth >= t[Was(l, b)].depth
      <4>1. SUFFICES ASSUME NEW y \in Was(k, b)..Was(l, b) PROVE t[y].depth >= d
        BY <3>1, <3>3
      <4>2. y = Was(k, b) \/ y \in (Was(k, b) + 1)..Was(l, b)
        BY <3>5, <1>2
      <4>3. QED
        BY <4>2, <3>5, <3>6
    <3>8. QED
      BY <3>1, <3>5, <3>7 DEF Apart
  <2>4. QED
    BY <2>1, <2>2, <2>3
<1>7. QED
  BY <1>5, <1>6 DEF Apart

(* A row more leaves the tree in order, and if the row is in its place and  *)
(* the others stay in theirs, it is right again.                            *)
LEMMA MoreIs ==
  ASSUME NEW t, Tidy(t), NEW i, NEW b, Place(t, i, b), NEW p, p \notin Props(t),
         NEW u, More(u, t, i, b, p)
  PROVE  /\ Tidy(u) /\ Props(u) = Props(t) \cup {p}
         /\ \A m \in Model, n \in Model :
              (/\ Right(t, m) /\ m.live \subseteq n.live /\ Roots(m) \subseteq Roots(n)
               /\ \A q \in Property : DirectSubs(m, q) \subseteq DirectSubs(n, q)
               /\ p \in n.live
               /\ IF i = 0 THEN p \in Roots(n) ELSE p \in DirectSubs(n, t[i].prop)) => Right(u, n)
<1>1. t \in Seq(Row)
  BY DEF Tidy, Nested
<1>2. Grown(u, t, i, b, p)
  BY <1>1, MoreFacts
<1>3. Tidy(u) /\ Props(u) = Props(t) \cup {p}
  BY <1>1, MoreNested, MoreOpened, MoreApart DEF Tidy
<1>4. /\ Len(t) \in Nat /\ b \in Nat /\ b <= Len(t) /\ DOMAIN t = 1..Len(t) /\ i \in Nat /\ i <= b
      /\ DOMAIN u = 1..(Len(t) + 1) /\ Len(u) = Len(t) + 1
      /\ u[b + 1].prop = p /\ u[b + 1].depth = Level(t, i)
      /\ \A x \in 1..Len(t) : t[x].prop \in Property /\ t[x].depth \in Nat
  BY <1>1, <1>2, RowsType DEF Grown
<1>5. ASSUME NEW x \in DOMAIN u, x # b + 1
      PROVE  /\ Was(x, b) \in DOMAIN t /\ u[x].depth = t[Was(x, b)].depth
             /\ u[x].prop = t[Was(x, b)].prop
  <2>1. Was(x, b) \in DOMAIN t
    BY <1>4, <1>5 DEF Was
  <2>2. x \in 1..Len(u)
    BY <1>4
  <2>3. QED
    BY <2>1, <2>2, <1>5 DEF More
<1>6. ASSUME NEW m \in Model, NEW n \in Model,
             Right(t, m), m.live \subseteq n.live, Roots(m) \subseteq Roots(n),
             \A q \in Property : DirectSubs(m, q) \subseteq DirectSubs(n, q),
             p \in n.live,
             IF i = 0 THEN p \in Roots(n) ELSE p \in DirectSubs(n, t[i].prop)
      PROVE  Right(u, n)
  <2>1. ASSUME NEW k \in DOMAIN u
        PROVE  u[k].prop \in n.live /\ (u[k].depth = 0 => u[k].prop \in Roots(n))
    <3>1. CASE k # b + 1
      BY <3>1, <1>5, <1>6 DEF Right
    <3>2. CASE k = b + 1
      <4>1. Level(t, i) = 0 => i = 0
        <5>1. SUFFICES ASSUME i # 0, t[i].depth + 1 = 0 PROVE FALSE
          BY DEF Level
        <5>2. i \in 1..Len(t)
          BY <5>1, <1>4
        <5>3. t[i].depth \in Nat
          BY <5>2, <1>4
        <5>4. QED
          BY <5>1, <5>3
      <4>2. QED
        BY <3>2, <4>1, <1>4, <1>6
    <3>3. QED
      BY <3>1, <3>2
  <2>2. ASSUME NEW k \in DOMAIN u, NEW l \in DOMAIN u, Above(u, k, l)
        PROVE  u[l].prop \in DirectSubs(n, u[k].prop)
    <3>1. /\ k # b + 1
          /\ l = b + 1 => k = i /\ i # 0
          /\ l # b + 1 => Above(t, Was(k, b), Was(l, b))
      BY <2>2, <1>1, MoreAbove
    <3>2. u[k].prop = t[Was(k, b)].prop /\ Was(k, b) \in DOMAIN t
      BY <3>1, <1>5
    <3>3. CASE l = b + 1
      <4>1. k = i /\ i # 0 /\ u[l].prop = p /\ Was(k, b) = i
        BY <3>1, <3>3, <1>4 DEF Was
      <4>2. QED
        BY <4>1, <3>2, <1>6
    <3>4. CASE l # b + 1
      <4>1. u[l].prop = t[Was(l, b)].prop /\ Was(l, b) \in DOMAIN t
        BY <3>4, <1>5
      <4>2. t[Was(l, b)].prop \in DirectSubs(m, t[Was(k, b)].prop)
        BY <3>1, <3>2, <3>4, <4>1, <1>6 DEF Right
      <4>3. t[Was(k, b)].prop \in Property
        BY <3>2, <1>4
      <4>4. QED
        BY <3>2, <4>1, <4>2, <4>3, <1>6
    <3>5. QED
      BY <3>3, <3>4
  <2>3. QED
    BY <2>1, <2>2 DEF Right
<1>7. QED
  BY <1>3, <1>6

PutAt(u, b, r) == SubSeq(u, 1, b) \o <<r>> \o SubSeq(u, b + 1, Len(u))

Put(v, u, b, r) ==
  /\ Len(v) = Len(u) + 1 /\ v[b + 1] = r
  /\ \A k \in 1..(Len(u) + 1) : k # b + 1 => v[k] = u[Was(k, b)]

LEMMA PutIn ==
  ASSUME NEW S, NEW u \in Seq(S), NEW b \in 0..Len(u), NEW r \in S
  PROVE  PutAt(u, b, r) \in Seq(S) /\ Put(PutAt(u, b, r), u, b, r)
<1> DEFINE v == PutAt(u, b, r)
           x == SubSeq(u, 1, b)
           y == SubSeq(u, b + 1, Len(u))
           z == <<r>>
           w == x \o z
<1>1. Len(u) \in Nat /\ b \in Nat /\ b <= Len(u) /\ \A k \in 1..Len(u) : u[k] \in S
  OBVIOUS
<1>2. x \in Seq(S) /\ Len(x) = b /\ \A k \in 1..b : x[k] = u[k]
  BY <1>1, SubSeqProperties
<1>3. y \in Seq(S) /\ Len(y) = Len(u) - b /\ \A k \in 1..(Len(u) - b) : y[k] = u[b + k]
  BY <1>1, SubSeqProperties
<1>4. z \in Seq(S) /\ Len(z) = 1 /\ z[1] = r
  OBVIOUS
<1> HIDE DEF x, y, z
<1>5. /\ w \in Seq(S) /\ Len(w) = Len(x) + Len(z)
      /\ \A k \in 1..(Len(x) + Len(z)) : w[k] = IF k <= Len(x) THEN x[k] ELSE z[k - Len(x)]
  BY <1>2, <1>4, ConcatProperties
<1>11. v = w \o y
  BY DEF PutAt, x, y, z
<1> HIDE DEF w, v
<1>12. w \in Seq(S) /\ y \in Seq(S)
  BY <1>3, <1>5
<1>6. /\ v \in Seq(S) /\ Len(v) = Len(w) + Len(y)
      /\ \A k \in 1..(Len(w) + Len(y)) : v[k] = IF k <= Len(w) THEN w[k] ELSE y[k - Len(w)]
  BY <1>11, <1>12, ConcatProperties
<1>7. Len(w) = b + 1 /\ Len(v) = Len(u) + 1
  BY <1>1, <1>2, <1>3, <1>4, <1>5, <1>6
<1>8. v[b + 1] = r
  <2>1. b + 1 \in 1..(Len(w) + Len(y)) /\ b + 1 <= Len(w) /\ b + 1 \in 1..(Len(x) + Len(z))
        /\ ~(b + 1 <= Len(x)) /\ b + 1 - Len(x) = 1
    BY <1>1, <1>2, <1>3, <1>4, <1>7
  <2>2. QED
    BY <2>1, <1>4, <1>5, <1>6
<1>9. ASSUME NEW k \in 1..(Len(u) + 1), k # b + 1 PROVE v[k] = u[Was(k, b)]
  <2>1. CASE k <= b
    <3>1. k \in 1..(Len(w) + Len(y)) /\ k <= Len(w) /\ k \in 1..(Len(x) + Len(z)) /\ k <= Len(x)
          /\ k \in 1..b
      BY <2>1, <1>1, <1>2, <1>3, <1>4, <1>7
    <3>2. QED
      BY <2>1, <3>1, <1>2, <1>5, <1>6 DEF Was
  <2>2. CASE k > b
    <3>1. k \in 1..(Len(w) + Len(y)) /\ ~(k <= Len(w)) /\ k - Len(w) \in 1..(Len(u) - b) /\ ~(k <= b)
      BY <2>2, <1>1, <1>2, <1>3, <1>4, <1>6, <1>7, <1>9
    <3>2. v[k] = u[b + (k - Len(w))]
      BY <3>1, <1>3, <1>6
    <3>3. b + (k - Len(w)) = k - 1
      BY <1>1, <1>7
    <3>4. QED
      BY <3>1, <3>2, <3>3 DEF Was
  <2>3. QED
    BY <2>1, <2>2, <1>1
<1>10. QED
  <2>1. v \in Seq(S) /\ Put(v, u, b, r)
    BY <1>6, <1>7, <1>8, <1>9 DEF Put
  <2>2. QED
    BY <2>1 DEF v

LEMMA FirstOfIs ==
  ASSUME NEW t \in Seq(Row), NEW s \in Props(t)
  PROVE  FirstOf(t, s) \in DOMAIN t /\ t[FirstOf(t, s)].prop = s
<1>1. DOMAIN t = 1..Len(t) /\ Len(t) \in Nat
  BY RowsType
<1> DEFINE T == {i \in DOMAIN t : t[i].prop = s}
<1>2. T # {} /\ T \in SUBSET Nat
  BY <1>1 DEF Props
<1>3. PICK i \in T : \A j \in T : i <= j
  BY <1>2, Least
<1>4. \A j \in 1..(i - 1) : t[j].prop # s
  <2>1. SUFFICES ASSUME NEW j \in 1..(i - 1), t[j].prop = s PROVE FALSE
    OBVIOUS
  <2>2. j \in T /\ j < i
    BY <2>1, <1>1
  <2>3. QED
    BY <2>2, <1>1, <1>3
<1>5. QED
  BY <1>3, <1>4 DEF FirstOf

(* addProperty_RESPONSE puts the row behind everything below the item of    *)
(* the superproperty, and opens that item.                                  *)
LEMMA AddedIs ==
  ASSUME NEW t \in Seq(Row), NEW p \in Property, NEW s \in Props(t)
  PROVE  \E i \in DOMAIN t, b \in Nat :
           /\ t[i].prop = s /\ Place(t, i, b)
           /\ More(AddedSubProperty(t, p, s), t, i, b, p)
<1> DEFINE i == FirstOf(t, s)
           b == LastBelow(t, i)
           u == [t EXCEPT ![i].container = TRUE]
           r == NewRow(p, t[i].depth + 1)
           v == AddedSubProperty(t, p, s)
<1>1. i \in DOMAIN t /\ t[i].prop = s
  BY FirstOfIs
<1>2. v = SubSeq(u, 1, b) \o <<r>> \o SubSeq(u, b + 1, Len(t))
  BY DEF AddedSubProperty
<1> HIDE DEF v
<1> HIDE DEF i
<1>3. /\ Len(t) \in Nat /\ DOMAIN t = 1..Len(t)
      /\ \A k \in 1..Len(t) : t[k] \in Row /\ t[k].depth \in Nat /\ t[k].container \in BOOLEAN
  BY RowsType
<1>4. /\ b \in i..Len(t) /\ \A k \in (i + 1)..b : t[k].depth > t[i].depth
      /\ b < Len(t) => t[b + 1].depth <= t[i].depth
  BY <1>1, LastBelowIs
<1> HIDE DEF b
<1>5. b \in Nat /\ b \in 0..Len(t) /\ i <= b /\ i \in Nat
  BY <1>1, <1>3, <1>4
<1>6. Place(t, i, b) /\ i # 0
  <2>1. i # 0
    BY <1>1, <1>3
  <2>2. Place(t, i, b)
    BY <1>1, <1>4 DEF Place
  <2>3. QED
    BY <2>1, <2>2
<1>7. r \in Row /\ r = NewRow(p, Level(t, i))
  BY <1>1, <1>3, <1>6 DEF NewRow, Row, Level
<1> DEFINE o == [t[i] EXCEPT !.container = TRUE]
<1>8. o \in Row /\ o.prop = t[i].prop /\ o.depth = t[i].depth /\ o.container = TRUE
  BY <1>1, <1>3 DEF Row
<1>9. DOMAIN u = DOMAIN t /\ \A k \in DOMAIN t : u[k] = IF k = i THEN o ELSE t[k]
  BY <1>1
<1>10. u \in Seq(Row) /\ Len(u) = Len(t)
  <2>1. u = [t EXCEPT ![i] = o]
    OBVIOUS
  <2> HIDE DEF u, o
  <2>2. u \in Seq(Row)
    BY <2>1, <1>1, <1>8
  <2>3. Len(u) = Len(t)
    BY <2>2, <1>3, <1>9
  <2>4. QED
    BY <2>2, <2>3
<1> HIDE DEF u, o, r
<1>11. /\ v \in Seq(Row) /\ Len(v) = Len(t) + 1 /\ v[b + 1] = r
       /\ \A k \in 1..Len(v) : k # b + 1 => v[k] = u[Was(k, b)]
  <2>1. b \in 0..Len(u)
    BY <1>5, <1>10
  <2>2. v = PutAt(u, b, r)
    BY <1>2, <1>10 DEF PutAt
  <2>3. u \in Seq(Row) /\ r \in Row
    BY <1>7, <1>10
  <2>4. PutAt(u, b, r) \in Seq(Row) /\ Put(PutAt(u, b, r), u, b, r)
    BY <2>1, <2>3, PutIn
  <2>5. QED
    BY <2>2, <2>4, <1>10 DEF Put
<1>12. ASSUME NEW k \in 1..Len(v), k # b + 1
       PROVE  /\ v[k].prop = t[Was(k, b)].prop /\ v[k].depth = t[Was(k, b)].depth
              /\ v[k].container = (k = i \/ t[Was(k, b)].container)
  <2>1. Was(k, b) \in DOMAIN t /\ (Was(k, b) = i <=> k = i)
    <3>1. k \in Nat /\ k >= 1 /\ k <= Len(t) + 1
      BY <1>11, <1>3
    <3>2. QED
      BY <3>1, <1>3, <1>5, <1>12 DEF Was
  <2>2. v[k] = u[Was(k, b)]
    BY <1>11, <1>12
  <2>3. CASE k = i
    <3>1. v[k] = o /\ Was(k, b) = i
      BY <2>1, <2>2, <2>3, <1>9
    <3>2. QED
      BY <3>1, <2>3, <1>8
  <2>4. CASE k # i
    <3>1. v[k] = t[Was(k, b)] /\ t[Was(k, b)].container \in BOOLEAN
      BY <2>1, <2>2, <2>4, <1>3, <1>9
    <3>2. QED
      BY <3>1, <2>4
  <2>5. QED
    BY <2>3, <2>4
<1>13. More(v, t, i, b, p)
  BY <1>7, <1>11, <1>12 DEF More
<1>14. QED
  BY <1>1, <1>5, <1>6, <1>13 DEF v

LEMMA AppendedIs ==
  ASSUME NEW t \in Seq(Row), NEW p \in Property
  PROVE  Place(t, 0, Len(t)) /\ More(Append(t, NewRow(p, 0)), t, 0, Len(t), p)
<1> DEFINE r == NewRow(p, 0)
           v == Append(t, r)
<1>1. Len(t) \in Nat /\ DOMAIN t = 1..Len(t) /\ \A k \in 1..Len(t) : t[k].container \in BOOLEAN
  BY RowsType
<1>2. r \in Row /\ r = NewRow(p, Level(t, 0))
  BY DEF NewRow, Row, Level
<1> HIDE DEF r
<1>3. /\ v \in Seq(Row) /\ Len(v) = Len(t) + 1 /\ v[Len(t) + 1] = r
      /\ \A k \in 1..Len(t) : v[k] = t[k]
  BY <1>1, <1>2, AppendProperties
<1> HIDE DEF v
<1>4. ASSUME NEW k \in 1..Len(v), k # Len(t) + 1
      PROVE  /\ v[k].prop = t[Was(k, Len(t))].prop /\ v[k].depth = t[Was(k, Len(t))].depth
             /\ v[k].container = (k = 0 \/ t[Was(k, Len(t))].container)
  <2>1. k \in 1..Len(t) /\ Was(k, Len(t)) = k /\ k # 0
    BY <1>1, <1>3, <1>4 DEF Was
  <2>2. v[k] = t[k] /\ t[k].container \in BOOLEAN
    BY <2>1, <1>1, <1>3
  <2>3. QED
    BY <2>1, <2>2
<1>5. More(v, t, 0, Len(t), p)
  BY <1>2, <1>3, <1>4 DEF More
<1>6. Place(t, 0, Len(t))
  BY DEF Place
<1>7. QED
  BY <1>5, <1>6 DEF v, r

-----------------------------------------------------------------------------
(* Filling the tree *)

Joins(u, s, t) ==
  /\ s \in Seq(Row) /\ t \in Seq(Row) /\ u \in Seq(Row) /\ Len(u) = Len(s) + Len(t)
  /\ \A k \in 1..Len(s) : u[k] = s[k]
  /\ \A k \in 1..Len(t) : u[Len(s) + k] = t[k]

Halves(u, s, t, n) ==
  /\ n = Len(s) /\ n \in Nat /\ Len(t) \in Nat /\ Len(u) = n + Len(t) /\ DOMAIN u = 1..(n + Len(t))
  /\ DOMAIN s = 1..n /\ DOMAIN t = 1..Len(t)
  /\ \A k \in 1..n : u[k] = s[k] /\ s[k].depth \in Nat
  /\ \A k \in 1..Len(t) : u[n + k] = t[k] /\ t[k].depth \in Nat
  /\ \A k \in 1..(n + Len(t)) :
       /\ u[k].depth \in Nat
       /\ k > n => k - n \in 1..Len(t) /\ u[k] = t[k - n]
       /\ ~(k > n) => k \in 1..n

LEMMA JoinHalves ==
  ASSUME NEW u, NEW s, NEW t, Joins(u, s, t)
  PROVE  Halves(u, s, t, Len(s))
<1> DEFINE n == Len(s)
<1>1. /\ n \in Nat /\ Len(t) \in Nat /\ Len(u) = n + Len(t) /\ DOMAIN u = 1..(n + Len(t))
      /\ DOMAIN s = 1..n /\ DOMAIN t = 1..Len(t)
  BY RowsType DEF Joins
<1>2. /\ \A k \in 1..n : u[k] = s[k] /\ s[k].depth \in Nat
      /\ \A k \in 1..Len(t) : u[n + k] = t[k] /\ t[k].depth \in Nat
      /\ \A k \in 1..Len(u) : u[k].depth \in Nat
  BY RowsType DEF Joins
<1> HIDE DEF n
<1>3. ASSUME NEW k \in 1..(n + Len(t)), k > n PROVE k - n \in 1..Len(t) /\ u[k] = t[k - n]
  <2>1. k - n \in 1..Len(t) /\ n + (k - n) = k
    BY <1>1, <1>3
  <2>2. QED
    BY <2>1, <1>2
<1>4. \A k \in 1..(n + Len(t)) : ~(k > n) => k \in 1..n
  BY <1>1
<1>5. Halves(u, s, t, n)
  BY <1>1, <1>2, <1>3, <1>4 DEF Halves, n
<1>6. QED
  BY <1>5 DEF n

LEMMA ConcatJoins ==
  ASSUME NEW s \in Seq(Row), NEW t \in Seq(Row)
  PROVE  Joins(s \o t, s, t)
<1>1. PICK u : u = s \o t
  OBVIOUS
<1>2. Chained(u, s, t, Row)
  BY <1>1, ConcatIs
<1>3. QED
  BY <1>1, <1>2 DEF Chained, Joins

\* No row is more than one level below the one before it.
Steps(t) == \A k \in DOMAIN t : k # 1 => t[k].depth <= t[k - 1].depth + 1

\* No property is twice right below the same item, or twice at the top.
Siblings(t) ==
  \A i, j \in DOMAIN t :
    (i < j /\ t[i].depth = t[j].depth /\ \A k \in i..j : t[k].depth >= t[j].depth) =>
      t[i].prop # t[j].prop

\* The rows at a level.
Tops(t, d) == {t[k].prop : k \in {x \in DOMAIN t : t[x].depth = d}}

\* What is shown is shown with all its direct subproperties.
Whole(t, m) == \A i \in DOMAIN t : DirectSubs(m, t[i].prop) \subseteq Props(t)

\* Items at level d for the properties in tops, with all that is below them.
Forest(t, d, m, tops) ==
  /\ t \in Seq(Row) /\ (t # <<>> => t[1].depth = d)
  /\ \A k \in DOMAIN t : t[k].depth >= d /\ t[k].prop \in m.live
  /\ Steps(t) /\ Opened(t) /\ Siblings(t) /\ Linked(t, m) /\ Whole(t, m)
  /\ Tops(t, d) = tops

LEMMA JoinSteps ==
  ASSUME NEW u, NEW s, NEW t, Joins(u, s, t), Steps(s), Steps(t),
         s # <<>> /\ t # <<>> => t[1].depth <= s[Len(s)].depth + 1
  PROVE  Steps(u)
<1>1. PICK n : n = Len(s)
  OBVIOUS
<1>2. Halves(u, s, t, n)
  BY <1>1, JoinHalves
<1>3. /\ n \in Nat /\ Len(t) \in Nat /\ DOMAIN u = 1..(n + Len(t)) /\ DOMAIN s = 1..n /\ DOMAIN t = 1..Len(t)
      /\ \A k \in 1..n : u[k] = s[k]
      /\ \A k \in 1..(n + Len(t)) : k > n => k - n \in 1..Len(t) /\ u[k] = t[k - n]
  BY <1>2 DEF Halves
<1>4. SUFFICES ASSUME NEW k \in 1..(n + Len(t)), k # 1 PROVE u[k].depth <= u[k - 1].depth + 1
  BY <1>3 DEF Steps
<1>5. CASE k <= n
  <2>1. k \in 1..n /\ k - 1 \in 1..n
    BY <1>3, <1>4, <1>5
  <2>2. s[k].depth <= s[k - 1].depth + 1
    BY <2>1, <1>3, <1>4 DEF Steps
  <2>3. QED
    BY <2>1, <2>2, <1>3
<1>6. CASE k = n + 1
  <2>1. k > n /\ k - n = 1 /\ k - 1 = n /\ n \in 1..n /\ 1 \in 1..Len(t)
    BY <1>3, <1>4, <1>6
  <2>2. s # <<>> /\ t # <<>>
    BY <2>1, <1>3
  <2>3. QED
    BY <2>1, <2>2, <1>1, <1>3
<1>7. CASE k > n + 1
  <2>1. k > n /\ k - 1 > n /\ k - 1 \in 1..(n + Len(t)) /\ (k - 1) - n = (k - n) - 1 /\ k - n # 1
    BY <1>3, <1>4, <1>7
  <2>2. u[k] = t[k - n] /\ u[k - 1] = t[(k - n) - 1] /\ k - n \in 1..Len(t)
    BY <2>1, <1>3
  <2>3. t[k - n].depth <= t[(k - n) - 1].depth + 1
    BY <2>1, <2>2, <1>3 DEF Steps
  <2>4. QED
    BY <2>2, <2>3
<1>8. QED
  BY <1>3, <1>5, <1>6, <1>7

LEMMA JoinOpened ==
  ASSUME NEW u, NEW s, NEW t, Joins(u, s, t), Opened(t),
         \A k \in DOMAIN s : k # Len(s) => (s[k].container <=> s[k + 1].depth > s[k].depth),
         s # <<>> => (s[Len(s)].container <=> t # <<>> /\ t[1].depth > s[Len(s)].depth)
  PROVE  Opened(u)
<1>1. PICK n : n = Len(s)
  OBVIOUS
<1>2. Halves(u, s, t, n)
  BY <1>1, JoinHalves
<1>3. /\ n \in Nat /\ Len(t) \in Nat /\ DOMAIN u = 1..(n + Len(t)) /\ DOMAIN s = 1..n /\ DOMAIN t = 1..Len(t)
      /\ Len(u) = n + Len(t)
      /\ \A k \in 1..n : u[k] = s[k]
      /\ \A k \in 1..(n + Len(t)) : k > n => k - n \in 1..Len(t) /\ u[k] = t[k - n]
  BY <1>2 DEF Halves
<1>4. SUFFICES ASSUME NEW k \in 1..(n + Len(t))
               PROVE  u[k].container <=> (k < n + Len(t) /\ u[k + 1].depth > u[k].depth)
  BY <1>3 DEF Opened
<1>5. CASE k < n
  <2>1. k \in 1..n /\ k + 1 \in 1..n /\ k # n /\ k < n + Len(t)
    BY <1>3, <1>5
  <2>2. s[k].container <=> s[k + 1].depth > s[k].depth
    BY <2>1, <1>1, <1>3
  <2>3. QED
    BY <2>1, <2>2, <1>3
<1>6. CASE k = n
  <2>1. n \in 1..n /\ s # <<>>
    BY <1>3, <1>6
  <2>2. s[n].container <=> t # <<>> /\ t[1].depth > s[n].depth
    BY <2>1, <1>1
  <2>3. t # <<>> <=> k < n + Len(t)
    BY <1>3, <1>6
  <2>4. k < n + Len(t) => u[k + 1] = t[1]
    <3>1. SUFFICES ASSUME k < n + Len(t) PROVE u[k + 1] = t[1]
      OBVIOUS
    <3>2. k + 1 \in 1..(n + Len(t)) /\ k + 1 > n /\ (k + 1) - n = 1
      BY <3>1, <1>3, <1>6
    <3>3. QED
      BY <3>2, <1>3
  <2>5. QED
    BY <2>1, <2>2, <2>3, <2>4, <1>3, <1>6
<1>7. CASE k > n
  <2>1. u[k] = t[k - n] /\ k - n \in 1..Len(t) /\ (k < n + Len(t) <=> k - n < Len(t))
    BY <1>3, <1>7
  <2>2. k < n + Len(t) => u[k + 1] = t[(k - n) + 1]
    <3>1. SUFFICES ASSUME k < n + Len(t) PROVE u[k + 1] = t[(k - n) + 1]
      OBVIOUS
    <3>2. k + 1 \in 1..(n + Len(t)) /\ k + 1 > n /\ (k + 1) - n = (k - n) + 1
      BY <3>1, <1>3, <1>7
    <3>3. QED
      BY <3>2, <1>3
  <2>3. t[k - n].container <=> (k - n < Len(t) /\ t[(k - n) + 1].depth > t[k - n].depth)
    BY <2>1, <1>3 DEF Opened
  <2>4. QED
    BY <2>1, <2>2, <2>3
<1>8. QED
  BY <1>3, <1>5, <1>6, <1>7

\* Parents are in the same half, but for one at the first row of the second.
LEMMA JoinAbove ==
  ASSUME NEW u, NEW s, NEW t, Joins(u, s, t), NEW n, n = Len(s),
         NEW i \in DOMAIN u, NEW j \in DOMAIN u, Above(u, i, j)
  PROVE  \/ i \in DOMAIN s /\ j \in DOMAIN s /\ Above(s, i, j)
         \/ i > n /\ j > n /\ i - n \in DOMAIN t /\ j - n \in DOMAIN t /\ Above(t, i - n, j - n)
         \/ i \in DOMAIN s /\ j > n /\ t # <<>> /\ t[1].depth > s[i].depth
<1>2. Halves(u, s, t, n)
  BY JoinHalves
<1>3. /\ n \in Nat /\ Len(t) \in Nat /\ DOMAIN u = 1..(n + Len(t)) /\ DOMAIN s = 1..n /\ DOMAIN t = 1..Len(t)
      /\ \A k \in 1..n : u[k] = s[k]
      /\ \A k \in 1..Len(t) : u[n + k] = t[k]
      /\ \A k \in 1..(n + Len(t)) : k > n => k - n \in 1..Len(t) /\ u[k] = t[k - n]
  BY <1>2 DEF Halves
<1>4. i < j /\ u[j].depth = u[i].depth + 1 /\ \A k \in (i + 1)..j : u[k].depth > u[i].depth
  BY DEF Above
<1>5. i \in Nat /\ j \in Nat /\ i >= 1 /\ j <= n + Len(t)
  BY <1>3
<1>6. CASE j <= n
  <2>1. i \in 1..n /\ j \in 1..n /\ \A k \in (i + 1)..j : k \in 1..n
    BY <1>3, <1>4, <1>5, <1>6
  <2>2. Above(s, i, j)
    BY <2>1, <1>3, <1>4 DEF Above
  <2>3. QED
    BY <2>1, <2>2, <1>3
<1>7. CASE i > n
  <2>6. j > n
    BY <1>3, <1>4, <1>5, <1>7
  <2>1. i - n \in 1..Len(t) /\ j - n \in 1..Len(t) /\ u[i] = t[i - n] /\ u[j] = t[j - n] /\ j > n
    BY <2>6, <1>3, <1>7
  <2>2. ASSUME NEW k \in ((i - n) + 1)..(j - n) PROVE t[k].depth > t[i - n].depth
    <3>1. n + k \in (i + 1)..j /\ k \in 1..Len(t)
      <4>1. n \in Nat /\ Len(t) \in Nat /\ i \in Nat /\ j \in Nat
        BY <1>3, <1>5
      <4>2. 1 <= i - n /\ j - n <= Len(t)
        BY <2>1, <4>1
      <4>3. QED
        BY <4>1, <4>2
    <3>2. QED
      BY <2>1, <3>1, <1>3, <1>4
  <2>3. i - n < j - n
    BY <1>3, <1>4, <1>5
  <2>4. Above(t, i - n, j - n)
    BY <2>1, <2>2, <2>3, <1>4 DEF Above
  <2>5. QED
    BY <2>1, <2>4, <1>3, <1>7
<1>8. CASE i <= n /\ j > n
  <2>1. i \in 1..n /\ n + 1 \in (i + 1)..j /\ 1 \in 1..Len(t)
    BY <1>3, <1>5, <1>8
  <2>2. u[n + 1] = t[1] /\ u[i] = s[i] /\ t # <<>>
    BY <2>1, <1>3
  <2>3. QED
    BY <2>1, <2>2, <1>3, <1>4, <1>8
<1>9. QED
  BY <1>3, <1>5, <1>6, <1>7, <1>8

LEMMA JoinSiblings ==
  ASSUME NEW u, NEW s, NEW t, Joins(u, s, t), Siblings(s), Siblings(t),
         \A a \in DOMAIN s, b \in DOMAIN t :
           (s[a].depth = t[b].depth /\ t[1].depth >= t[b].depth) => s[a].prop # t[b].prop
  PROVE  Siblings(u)
<1>1. PICK n : n = Len(s)
  OBVIOUS
<1>2. Halves(u, s, t, n)
  BY <1>1, JoinHalves
<1>3. /\ n \in Nat /\ Len(t) \in Nat /\ DOMAIN u = 1..(n + Len(t)) /\ DOMAIN s = 1..n /\ DOMAIN t = 1..Len(t)
      /\ \A k \in 1..n : u[k] = s[k]
      /\ \A k \in 1..Len(t) : u[n + k] = t[k]
      /\ \A k \in 1..(n + Len(t)) : k > n => k - n \in 1..Len(t) /\ u[k] = t[k - n]
  BY <1>2 DEF Halves
<1>4. SUFFICES ASSUME NEW i \in 1..(n + Len(t)), NEW j \in 1..(n + Len(t)), i < j,
                      u[i].depth = u[j].depth, \A k \in i..j : u[k].depth >= u[j].depth
               PROVE  u[i].prop # u[j].prop
  BY <1>3 DEF Siblings
<1>5. i \in Nat /\ j \in Nat /\ i >= 1 /\ j <= n + Len(t)
  BY <1>3
<1>6. CASE j <= n
  <2>1. i \in 1..n /\ j \in 1..n /\ \A k \in i..j : k \in 1..n
    BY <1>3, <1>4, <1>5, <1>6
  <2>2. s[i].depth = s[j].depth /\ \A k \in i..j : s[k].depth >= s[j].depth
    BY <2>1, <1>3, <1>4
  <2>3. s[i].prop # s[j].prop
    <3>1. i < j /\ DOMAIN s = 1..n
      BY <1>3, <1>4
    <3>2. QED
      BY <2>1, <2>2, <3>1 DEF Siblings
  <2>4. QED
    BY <2>1, <2>3, <1>3
<1>7. CASE i > n
  <2>1. i - n \in 1..Len(t) /\ j - n \in 1..Len(t) /\ u[i] = t[i - n] /\ u[j] = t[j - n]
        /\ i - n < j - n
    BY <1>3, <1>4, <1>5, <1>7
  <2>2. ASSUME NEW k \in (i - n)..(j - n) PROVE t[k].depth >= t[j - n].depth
    <3>1. n + k \in i..j /\ k \in 1..Len(t)
      BY <2>1, <1>3, <1>5
    <3>2. QED
      BY <2>1, <3>1, <1>3, <1>4
  <2>3. t[i - n].depth = t[j - n].depth
    BY <2>1, <1>4
  <2>4. t[i - n].prop # t[j - n].prop
    BY <2>1, <2>2, <2>3, <1>3 DEF Siblings
  <2>5. QED
    BY <2>1, <2>4
<1>8. CASE i <= n /\ j > n
  <2>1. i \in 1..n /\ n + 1 \in i..j /\ 1 \in 1..Len(t) /\ j - n \in 1..Len(t)
    BY <1>3, <1>5, <1>8
  <2>2. u[n + 1] = t[1] /\ u[i] = s[i] /\ u[j] = t[j - n]
    BY <2>1, <1>3, <1>8
  <2>3. t[1].depth >= t[j - n].depth /\ s[i].depth = t[j - n].depth
    BY <2>1, <2>2, <1>4
  <2>4. QED
    BY <2>1, <2>2, <2>3, <1>3
<1>9. QED
  BY <1>3, <1>5, <1>6, <1>7, <1>8

\* Forests at the same level next to each other.
LEMMA ForestsJoin ==
  ASSUME NEW m, NEW d \in Nat, NEW s, NEW t, NEW A, NEW B, A \cap B = {},
         Forest(s, d, m, A), Forest(t, d, m, B)
  PROVE  Forest(s \o t, d, m, A \cup B)
<1>1. PICK u : u = s \o t
  OBVIOUS
<1>2. Joins(u, s, t)
  BY <1>1, ConcatJoins DEF Forest
<1>3. PICK n : n = Len(s)
  OBVIOUS
<1>4. Halves(u, s, t, n)
  BY <1>2, <1>3, JoinHalves
<1>5. /\ n \in Nat /\ Len(t) \in Nat /\ DOMAIN u = 1..(n + Len(t)) /\ DOMAIN s = 1..n /\ DOMAIN t = 1..Len(t)
      /\ \A k \in 1..n : u[k] = s[k] /\ s[k].depth \in Nat
      /\ \A k \in 1..Len(t) : n + k \in DOMAIN u /\ u[n + k] = t[k] /\ t[k].depth \in Nat
      /\ \A k \in DOMAIN u : k > n => k - n \in 1..Len(t) /\ u[k] = t[k - n]
      /\ \A k \in DOMAIN u : ~(k > n) => k \in 1..n
      /\ \A k \in 1..n : k \in DOMAIN u
  BY <1>4 DEF Halves
<1>6. /\ \A k \in DOMAIN s : s[k].depth >= d /\ s[k].prop \in m.live
      /\ \A k \in DOMAIN t : t[k].depth >= d /\ t[k].prop \in m.live
      /\ s # <<>> => s[1].depth = d
      /\ t # <<>> => t[1].depth = d
  BY DEF Forest
<1>7. u \in Seq(Row)
  BY <1>2 DEF Joins
<1>8. u # <<>> => u[1].depth = d
  <2>1. SUFFICES ASSUME u # <<>> PROVE u[1].depth = d
    OBVIOUS
  <2>2. 1 \in DOMAIN u
    BY <2>1, <1>7
  <2>3. CASE n = 0
    <3>1. u[1] = t[1] /\ 1 \in 1..Len(t)
      BY <2>2, <2>3, <1>5
    <3>2. t # <<>>
      BY <3>1
    <3>3. QED
      BY <3>1, <3>2, <1>6
  <2>4. CASE n # 0
    <3>1. u[1] = s[1] /\ 1 \in 1..n
      BY <2>4, <1>5
    <3>2. s # <<>>
      BY <3>1, <1>3
    <3>3. QED
      BY <3>1, <3>2, <1>6
  <2>5. QED
    BY <2>3, <2>4
<1>9. \A k \in DOMAIN u : u[k].depth >= d /\ u[k].prop \in m.live
  BY <1>5, <1>6
<1>10. s # <<>> /\ t # <<>> => t[1].depth <= s[Len(s)].depth
  <2>1. SUFFICES ASSUME s # <<>>, t # <<>> PROVE t[1].depth <= s[n].depth
    BY <1>3
  <2>2. n \in 1..n
    <3>1. s \in Seq(Row)
      BY DEF Forest
    <3>2. n # 0
      BY <2>1, <3>1, <1>3
    <3>3. QED
      BY <3>2, <1>5
  <2>3. s[n].depth \in Nat /\ s[n].depth >= d /\ t[1].depth = d
    BY <2>1, <2>2, <1>5, <1>6
  <2>4. QED
    BY <2>3
<1>11. Steps(u)
  <2>1. s # <<>> /\ t # <<>> => t[1].depth <= s[Len(s)].depth + 1
    <3>1. SUFFICES ASSUME s # <<>>, t # <<>> PROVE t[1].depth <= s[n].depth + 1
      BY <1>3
    <3>2. n \in 1..n
      <4>1. s \in Seq(Row)
        BY DEF Forest
      <4>2. n # 0
        BY <3>1, <4>1, <1>3
      <4>3. QED
        BY <4>2, <1>5
    <3>3. t[1].depth <= s[n].depth /\ t[1].depth = d /\ s[n].depth \in Nat
      BY <3>1, <3>2, <1>3, <1>5, <1>6, <1>10
    <3>4. QED
      BY <3>3
  <2>2. Steps(s) /\ Steps(t)
    BY DEF Forest
  <2>3. QED
    BY <2>1, <2>2, <1>2, JoinSteps
<1>12. Opened(u)
  <2>1. \A k \in DOMAIN s : k # Len(s) => (s[k].container <=> s[k + 1].depth > s[k].depth)
    <3>1. \A k \in 1..n : k # n => k < n
      BY <1>5
    <3>2. QED
      BY <3>1, <1>3, <1>5 DEF Forest, Opened
  <2>2. s # <<>> => (s[Len(s)].container <=> t # <<>> /\ t[1].depth > s[Len(s)].depth)
    <3>1. SUFFICES ASSUME s # <<>>
                   PROVE  ~s[n].container /\ ~(t # <<>> /\ t[1].depth > s[n].depth)
      BY <1>3
    <3>2. n \in 1..n
      <4>1. s \in Seq(Row)
        BY DEF Forest
      <4>2. n # 0
        BY <3>1, <4>1, <1>3
      <4>3. QED
        BY <4>2, <1>5
    <3>3. ~s[n].container
      <4>1. ~(n < n)
        BY <1>5
      <4>2. QED
        BY <3>2, <4>1, <1>3, <1>5 DEF Forest, Opened
    <3>4. t # <<>> => t[1].depth <= s[n].depth /\ t[1].depth = d /\ s[n].depth \in Nat
      BY <3>1, <3>2, <1>3, <1>5, <1>6, <1>10
    <3>5. QED
      BY <3>3, <3>4
  <2>3. Opened(t)
    BY DEF Forest
  <2>4. QED
    BY <2>1, <2>2, <2>3, <1>2, JoinOpened
<1>13. Siblings(u)
  <2>1. ASSUME NEW a \in DOMAIN s, NEW b \in DOMAIN t,
               s[a].depth = t[b].depth, t[1].depth >= t[b].depth
        PROVE  s[a].prop # t[b].prop
    <3>1. t # <<>>
      BY <2>1, <1>5
    <3>2. t[b].depth \in Nat /\ t[b].depth >= d /\ t[1].depth = d
      BY <2>1, <3>1, <1>5, <1>6
    <3>3. t[b].depth = d /\ s[a].depth = d
      BY <3>2, <2>1
    <3>4. s[a].prop \in A /\ t[b].prop \in B
      BY <2>1, <3>3 DEF Forest, Tops
    <3>5. QED
      BY <3>4
  <2>2. Siblings(s) /\ Siblings(t)
    BY DEF Forest
  <2>3. QED
    BY <2>1, <2>2, <1>2, JoinSiblings
<1>14. Linked(u, m)
  <2>1. SUFFICES ASSUME NEW i \in DOMAIN u, NEW j \in DOMAIN u, Above(u, i, j)
                 PROVE  u[j].prop \in DirectSubs(m, u[i].prop)
    BY DEF Linked
  <2>2. \/ i \in DOMAIN s /\ j \in DOMAIN s /\ Above(s, i, j)
        \/ i > n /\ j > n /\ i - n \in DOMAIN t /\ j - n \in DOMAIN t /\ Above(t, i - n, j - n)
        \/ i \in DOMAIN s /\ j > n /\ t # <<>> /\ t[1].depth > s[i].depth
    BY <2>1, <1>2, <1>3, JoinAbove
  <2>3. CASE i \in DOMAIN s /\ j \in DOMAIN s /\ Above(s, i, j)
    <3>1. s[j].prop \in DirectSubs(m, s[i].prop)
      BY <2>3 DEF Forest, Linked
    <3>2. QED
      BY <2>3, <3>1, <1>5
  <2>4. CASE i > n /\ j > n /\ i - n \in DOMAIN t /\ j - n \in DOMAIN t /\ Above(t, i - n, j - n)
    <3>1. t[j - n].prop \in DirectSubs(m, t[i - n].prop)
      BY <2>4 DEF Forest, Linked
    <3>2. u[i] = t[i - n] /\ u[j] = t[j - n]
      BY <2>4, <1>5
    <3>3. QED
      BY <3>1, <3>2
  <2>5. CASE i \in DOMAIN s /\ j > n /\ t # <<>> /\ t[1].depth > s[i].depth
    <3>1. t[1].depth = d /\ s[i].depth >= d /\ s[i].depth \in Nat
      BY <2>5, <1>5, <1>6
    <3>2. QED
      BY <2>5, <3>1
  <2>6. QED
    BY <2>2, <2>3, <2>4, <2>5
<1>15. Props(s) \subseteq Props(u) /\ Props(t) \subseteq Props(u)
  <2>1. \A k \in DOMAIN s : k \in DOMAIN u /\ u[k] = s[k]
    BY <1>5
  <2>2. \A k \in DOMAIN t : n + k \in DOMAIN u /\ u[n + k] = t[k]
    BY <1>5
  <2>3. QED
    BY <2>1, <2>2 DEF Props
<1>16. Whole(u, m)
  <2>1. SUFFICES ASSUME NEW i \in DOMAIN u PROVE DirectSubs(m, u[i].prop) \subseteq Props(u)
    BY DEF Whole
  <2>2. CASE i > n
    <3>1. DirectSubs(m, t[i - n].prop) \subseteq Props(t)
      BY <2>2, <1>5 DEF Forest, Whole
    <3>2. QED
      BY <2>2, <3>1, <1>5, <1>15
  <2>3. CASE ~(i > n)
    <3>1. DirectSubs(m, s[i].prop) \subseteq Props(s)
      BY <2>3, <1>5 DEF Forest, Whole
    <3>2. QED
      BY <2>3, <3>1, <1>5, <1>15
  <2>4. QED
    BY <2>2, <2>3
<1>17. Tops(u, d) = A \cup B
  <2>1. Tops(s, d) = A /\ Tops(t, d) = B
    BY DEF Forest
  <2>2. Tops(u, d) \subseteq A \cup B
    <3>1. SUFFICES ASSUME NEW k \in DOMAIN u, u[k].depth = d PROVE u[k].prop \in A \cup B
      BY DEF Tops
    <3>2. CASE k > n
      BY <3>1, <3>2, <2>1, <1>5 DEF Tops
    <3>3. CASE ~(k > n)
      BY <3>1, <3>3, <2>1, <1>5 DEF Tops
    <3>4. QED
      BY <3>2, <3>3
  <2>3. A \subseteq Tops(u, d)
    BY <2>1, <1>5 DEF Tops
  <2>4. B \subseteq Tops(u, d)
    <3>1. \A k \in DOMAIN t : n + k \in DOMAIN u /\ u[n + k] = t[k]
      BY <1>5
    <3>2. QED
      BY <3>1, <2>1 DEF Tops
  <2>5. QED
    BY <2>2, <2>3, <2>4
<1>18. Forest(u, d, m, A \cup B)
  BY <1>7, <1>8, <1>9, <1>11, <1>12, <1>13, <1>14, <1>16, <1>17 DEF Forest
<1>19. QED
  BY <1>1, <1>18

\* An item with the forest of its direct subproperties below it.
LEMMA ForestUnder ==
  ASSUME NEW m \in Model, NEW d \in Nat, NEW q \in m.live, NEW t,
         Forest(t, d + 1, m, DirectSubs(m, q))
  PROVE  Forest(<<Item(m, q, d)>> \o t, d, m, {q})
<1>1. PICK r : r = Item(m, q, d)
  OBVIOUS
<1>2. /\ r \in Row /\ r.prop = q /\ r.depth = d
      /\ r.container = (DirectSubs(m, q) # {})
  BY <1>1 DEF Item, Row, Model
<1>3. PICK s : s = <<r>>
  OBVIOUS
<1>4. s \in Seq(Row) /\ Len(s) = 1 /\ s[1] = r /\ DOMAIN s = 1..1 /\ s # <<>>
  BY <1>2, <1>3
<1>5. PICK u : u = s \o t
  OBVIOUS
<1>6. Joins(u, s, t)
  BY <1>4, <1>5, ConcatJoins DEF Forest
<1>7. Halves(u, s, t, 1)
  BY <1>4, <1>6, JoinHalves
<1>8. /\ Len(t) \in Nat /\ DOMAIN u = 1..(1 + Len(t)) /\ DOMAIN t = 1..Len(t)
      /\ u[1] = r /\ 1 \in DOMAIN u
      /\ \A k \in 1..Len(t) : 1 + k \in DOMAIN u /\ u[1 + k] = t[k] /\ t[k].depth \in Nat
      /\ \A k \in DOMAIN u : k > 1 => k - 1 \in 1..Len(t) /\ u[k] = t[k - 1]
      /\ \A k \in DOMAIN u : ~(k > 1) => k = 1
  BY <1>4, <1>7 DEF Halves
<1>9. /\ \A k \in DOMAIN t : t[k].depth >= d + 1 /\ t[k].prop \in m.live
      /\ t # <<>> => t[1].depth = d + 1
      /\ t \in Seq(Row) /\ Tops(t, d + 1) = DirectSubs(m, q)
  BY DEF Forest
<1>10. u \in Seq(Row)
  BY <1>6 DEF Joins
<1>11. \A k \in DOMAIN u : u[k].depth >= d /\ u[k].prop \in m.live
  <2>1. SUFFICES ASSUME NEW k \in DOMAIN u PROVE u[k].depth >= d /\ u[k].prop \in m.live
    OBVIOUS
  <2>2. CASE k > 1
    <3>1. u[k] = t[k - 1] /\ k - 1 \in DOMAIN t /\ t[k - 1].depth \in Nat
      BY <2>2, <1>8
    <3>2. QED
      BY <3>1, <1>9
  <2>3. CASE ~(k > 1)
    BY <2>3, <1>2, <1>8
  <2>4. QED
    BY <2>2, <2>3
<1>12. Steps(u)
  <2>1. Steps(s)
    BY <1>4 DEF Steps
  <2>2. s # <<>> /\ t # <<>> => t[1].depth <= s[Len(s)].depth + 1
    <3>1. s[Len(s)].depth = d
      BY <1>2, <1>4
    <3>2. QED
      BY <3>1, <1>9
  <2>3. Steps(t)
    BY DEF Forest
  <2>4. QED
    BY <2>1, <2>2, <2>3, <1>6, JoinSteps
<1>13. t # <<>> <=> DirectSubs(m, q) # {}
  <2>1. ASSUME t # <<>> PROVE DirectSubs(m, q) # {}
    <3>1. 1 \in DOMAIN t /\ t[1].depth = d + 1
      BY <2>1, <1>9
    <3>2. t[1].prop \in Tops(t, d + 1)
      BY <3>1 DEF Tops
    <3>3. QED
      BY <3>2, <1>9
  <2>2. ASSUME NEW x \in DirectSubs(m, q) PROVE t # <<>>
    <3>1. PICK k \in DOMAIN t : TRUE
      BY <2>2, <1>9 DEF Tops
    <3>2. QED
      BY <3>1
  <2>3. QED
    BY <2>1, <2>2
<1>14. Opened(u)
  <2>1. \A k \in DOMAIN s : k # Len(s) => (s[k].container <=> s[k + 1].depth > s[k].depth)
    BY <1>4
  <2>2. s # <<>> => (s[Len(s)].container <=> t # <<>> /\ t[1].depth > s[Len(s)].depth)
    <3>1. s[Len(s)] = r
      BY <1>4
    <3>2. t # <<>> => t[1].depth > r.depth
      BY <1>2, <1>9
    <3>3. QED
      BY <3>1, <3>2, <1>2, <1>13
  <2>3. Opened(t)
    BY DEF Forest
  <2>4. QED
    BY <2>1, <2>2, <2>3, <1>6, JoinOpened
<1>15. Siblings(u)
  <2>1. ASSUME NEW a \in DOMAIN s, NEW b \in DOMAIN t,
               s[a].depth = t[b].depth, t[1].depth >= t[b].depth
        PROVE  s[a].prop # t[b].prop
    <3>1. s[a].depth = d /\ t[b].depth >= d + 1 /\ t[b].depth \in Nat
      BY <2>1, <1>2, <1>4, <1>8, <1>9
    <3>2. QED
      BY <2>1, <3>1
  <2>2. Siblings(s)
    BY <1>4 DEF Siblings
  <2>3. Siblings(t)
    BY DEF Forest
  <2>4. QED
    BY <2>1, <2>2, <2>3, <1>6, JoinSiblings
<1>16. Props(t) \subseteq Props(u)
  <2>1. \A k \in DOMAIN t : 1 + k \in DOMAIN u /\ u[1 + k] = t[k]
    BY <1>8
  <2>2. QED
    BY <2>1 DEF Props
<1>17. Linked(u, m)
  <2>1. SUFFICES ASSUME NEW i \in DOMAIN u, NEW j \in DOMAIN u, Above(u, i, j)
                 PROVE  u[j].prop \in DirectSubs(m, u[i].prop)
    BY DEF Linked
  <2>2. CASE i > 1
    <3>5. \/ i \in DOMAIN s /\ j \in DOMAIN s /\ Above(s, i, j)
          \/ i > 1 /\ j > 1 /\ i - 1 \in DOMAIN t /\ j - 1 \in DOMAIN t /\ Above(t, i - 1, j - 1)
          \/ i \in DOMAIN s /\ j > 1 /\ t # <<>> /\ t[1].depth > s[i].depth
      <4>1. 1 = Len(s)
        BY <1>4
      <4>2. QED
        BY <4>1, <2>1, <1>6, JoinAbove
    <3>1. /\ i > 1 /\ j > 1 /\ i - 1 \in DOMAIN t /\ j - 1 \in DOMAIN t /\ Above(t, i - 1, j - 1)
      BY <3>5, <2>2, <1>4
    <3>2. t[j - 1].prop \in DirectSubs(m, t[i - 1].prop)
      BY <3>1 DEF Forest, Linked
    <3>3. u[i] = t[i - 1] /\ u[j] = t[j - 1]
      BY <3>1, <1>8
    <3>4. QED
      BY <3>2, <3>3
  <2>3. CASE ~(i > 1)
    <3>1. i = 1 /\ u[i] = r /\ u[j].depth = d + 1 /\ j > 1
      BY <2>1, <2>3, <1>2, <1>8 DEF Above
    <3>2. u[j] = t[j - 1] /\ j - 1 \in DOMAIN t
      BY <3>1, <1>8
    <3>3. u[j].prop \in Tops(t, d + 1)
      BY <3>1, <3>2 DEF Tops
    <3>4. QED
      BY <3>1, <3>3, <1>2, <1>9
  <2>4. QED
    BY <2>2, <2>3
<1>18. Whole(u, m)
  <2>1. SUFFICES ASSUME NEW i \in DOMAIN u PROVE DirectSubs(m, u[i].prop) \subseteq Props(u)
    BY DEF Whole
  <2>2. CASE i > 1
    <3>1. DirectSubs(m, t[i - 1].prop) \subseteq Props(t) /\ u[i] = t[i - 1]
      BY <2>2, <1>8 DEF Forest, Whole
    <3>2. QED
      BY <3>1, <1>16
  <2>3. CASE ~(i > 1)
    <3>1. u[i].prop = q
      BY <2>3, <1>2, <1>8
    <3>2. Tops(t, d + 1) \subseteq Props(t)
      BY DEF Tops, Props
    <3>3. QED
      BY <3>1, <3>2, <1>9, <1>16
  <2>4. QED
    BY <2>2, <2>3
<1>19. Tops(u, d) = {q}
  <2>1. \A k \in DOMAIN u : u[k].depth = d <=> k = 1
    <3>1. SUFFICES ASSUME NEW k \in DOMAIN u, k > 1 PROVE u[k].depth # d
      BY <1>2, <1>8
    <3>2. u[k].depth >= d + 1 /\ u[k].depth \in Nat
      BY <3>1, <1>8, <1>9
    <3>3. QED
      BY <3>2
  <2>2. {x \in DOMAIN u : u[x].depth = d} = {1}
    BY <2>1, <1>8
  <2>3. QED
    BY <2>2, <1>2, <1>8 DEF Tops
<1>20. Forest(u, d, m, {q})
  <2>1. u[1].depth = d
    BY <1>2, <1>8
  <2>2. QED
    BY <2>1, <1>10, <1>11, <1>12, <1>14, <1>15, <1>17, <1>18, <1>19 DEF Forest
<1>21. QED
  BY <1>1, <1>3, <1>5, <1>20

\* The members of a finite set one after the other.
LEMMA Listed ==
  ASSUME NEW S, IsFiniteSet(S)
  PROVE  /\ SetToSeq(S) \in [1..Cardinality(S) -> S]
         /\ Cardinality(S) \in Nat /\ DOMAIN SetToSeq(S) = 1..Cardinality(S)
         /\ \A i \in 1..Cardinality(S) : SetToSeq(S)[i] \in S
         /\ \A i, j \in 1..Cardinality(S) : SetToSeq(S)[i] = SetToSeq(S)[j] => i = j
         /\ {SetToSeq(S)[i] : i \in 1..Cardinality(S)} = S
<1> DEFINE D == 1..Cardinality(S)
           f == SetToSeq(S)
<1>1. Cardinality(S) \in Nat /\ ExistsBijection(D, S)
  BY FS_CardinalityType
<1>2. \E g \in [D -> S] : IsInjective(g)
  <2>1. PICK g \in Bijection(D, S) : TRUE
    BY <1>1 DEF ExistsBijection
  <2>2. g \in [D -> S] /\ \A i, j \in D : g[i] = g[j] => i = j
    BY <2>1 DEF Bijection, Injection, IsInjective
  <2>3. QED
    BY <2>2 DEF IsInjective
<1>3. f \in [D -> S] /\ IsInjective(f)
  BY <1>2 DEF SetToSeq
<1>4. f \in Injection(D, S)
  BY <1>3 DEF Injection
<1>5. IsFiniteSet(D) /\ Cardinality(D) = Cardinality(S)
  BY <1>1, FS_Interval
<1>6. f \in Surjection(D, S)
  BY <1>4, <1>5, FS_Injection
<1>7. \A x \in S : \E i \in D : f[i] = x
  BY <1>6 DEF Surjection
<1> HIDE DEF f
<1>8. /\ DOMAIN f = D /\ \A i \in D : f[i] \in S
      /\ \A i, j \in D : f[i] = f[j] => i = j
  BY <1>3 DEF IsInjective
<1>9. {f[i] : i \in D} = S
  BY <1>7, <1>8
<1>10. QED
  BY <1>1, <1>3, <1>8, <1>9 DEF f

\* Forests for different properties, one after the other.
InARow(seqs, subs, K, S, d, m) ==
  /\ S = {subs[i] : i \in 1..K}
  /\ seqs = [i \in 1..K |-> seqs[i]]
  /\ \A i, j \in 1..K : subs[i] = subs[j] => i = j
  /\ \A i \in 1..K : Forest(seqs[i], d, m, {subs[i]})

LEMMA ForestsInARow ==
  ASSUME NEW m, NEW d \in Nat, NEW K \in Nat, NEW subs, NEW seqs, NEW S,
         InARow(seqs, subs, K, S, d, m)
  PROVE  Forest(FlattenSeq(seqs), d, m, S)
<1>5. /\ S = {subs[i] : i \in 1..K}
      /\ seqs = [i \in 1..K |-> seqs[i]]
      /\ \A i, j \in 1..K : subs[i] = subs[j] => i = j
      /\ \A i \in 1..K : Forest(seqs[i], d, m, {subs[i]})
  BY DEF InARow
<1>1. seqs \in Seq(Seq(Row)) /\ Len(seqs) = K
  <2>1. \A i \in 1..K : seqs[i] \in Seq(Row)
    BY <1>5 DEF Forest
  <2>2. QED
    BY <2>1, <1>5
<1>2. CASE K = 0
  <2>1. seqs = <<>>
    BY <1>1, <1>2
  <2>2. FlattenSeq(seqs) = <<>>
    BY <1>1, <1>2, <2>1 DEF FlattenSeq
  <2>3. Forest(<<>>, d, m, {})
    <3>1. <<>> \in Seq(Row) /\ DOMAIN <<>> = {}
      OBVIOUS
    <3>2. Steps(<<>>) /\ Opened(<<>>) /\ Siblings(<<>>) /\ Linked(<<>>, m) /\ Whole(<<>>, m)
          /\ Tops(<<>>, d) = {}
      BY <3>1 DEF Steps, Opened, Siblings, Linked, Whole, Tops
    <3>3. QED
      BY <3>1, <3>2 DEF Forest
  <2>4. S = {}
    BY <1>2, <1>5
  <2>5. QED
    BY <2>2, <2>3, <2>4
<1>3. CASE K # 0
  <2> DEFINE f == CHOOSE f : FlatLoop(f, seqs, K)
  <2>1. FlatLoop(f, seqs, K)
    BY FlatLoopExists
  <2>2. FlattenSeq(seqs) = f[K]
    BY <1>1, <1>3 DEF FlattenSeq, FlatLoop
  <2> HIDE DEF f
  <2> DEFINE T(n) == {subs[i] : i \in 1..n}
             P == {n \in Nat : n \in 1..K => Forest(f[n], d, m, T(n))}
  <2>3. 0 \in P
    OBVIOUS
  <2>4. ASSUME NEW n \in P PROVE n + 1 \in P
    <3>1. SUFFICES ASSUME n + 1 \in 1..K PROVE Forest(f[n + 1], d, m, T(n + 1))
      BY <2>4
    <3>2. Forest(seqs[n + 1], d, m, {subs[n + 1]})
      BY <3>1, <1>5
    <3>3. n \in Nat /\ (n + 1) - 1 = n /\ (n + 1 = 1 <=> n = 0)
      BY <2>4
    <3>4. f[n + 1] = IF n = 0 THEN seqs[n + 1] ELSE f[n] \o seqs[n + 1]
      BY <2>1, <3>1, <3>3 DEF FlatLoop
    <3>5. T(n + 1) = T(n) \cup {subs[n + 1]}
      <4>1. \A i : i \in 1..(n + 1) <=> i \in 1..n \/ i = n + 1
        BY <3>3
      <4>2. QED
        BY <4>1
    <3>6. CASE n = 0
      <4>1. T(n) = {}
        BY <3>6
      <4>2. T(n + 1) = {subs[n + 1]} /\ f[n + 1] = seqs[n + 1]
        BY <3>4, <3>5, <3>6, <4>1
      <4>3. QED
        BY <4>2, <3>2
    <3>7. CASE n # 0
      <4>1. Forest(f[n], d, m, T(n))
        BY <2>4, <3>1, <3>3, <3>7
      <4>2. T(n) \cap {subs[n + 1]} = {}
        <5>1. SUFFICES ASSUME NEW i \in 1..n, subs[i] = subs[n + 1] PROVE FALSE
          OBVIOUS
        <5>2. i \in 1..K /\ n + 1 \in 1..K /\ i # n + 1
          BY <3>1, <3>3
        <5>3. QED
          BY <5>1, <5>2, <1>5
      <4> HIDE DEF T
      <4>3. Forest(f[n] \o seqs[n + 1], d, m, T(n) \cup {subs[n + 1]})
        BY <3>2, <4>1, <4>2, ForestsJoin
      <4>4. QED
        BY <3>4, <3>5, <3>7, <4>3
    <3>8. QED
      BY <3>6, <3>7
  <2> HIDE DEF P
  <2>5. P = Nat
    BY <2>3, <2>4, UpTo DEF P
  <2>6. K \in 1..K
    BY <1>3
  <2>7. Forest(f[K], d, m, T(K))
    BY <2>5, <2>6 DEF P
  <2>8. QED
    BY <2>2, <2>7, <1>5
<1>4. QED
  BY <1>2, <1>3

\* How high a property stands.
Rank(m, p) == Cardinality(Ancestors(m, p))

\* An ancestor stands higher, and there are more levels than properties.
LEMMA RankIs ==
  ASSUME NEW m \in Model, Sound(m), NEW p \in Property
  PROVE  /\ Cardinality(Property) \in Nat /\ Rank(m, p) \in Nat
         /\ Rank(m, p) < Cardinality(Property)
         /\ \A q \in Ancestors(m, p) : Rank(m, q) < Rank(m, p) /\ Rank(m, q) \in Nat
<1>1. IsFiniteSet(Property)
  BY PropertyAssumption
<1>2. ASSUME NEW S \in SUBSET Property, NEW x \in S, NEW q \in Property,
             Ancestors(m, q) \subseteq S, x \notin Ancestors(m, q)
      PROVE  /\ Cardinality(Ancestors(m, q)) \in Nat /\ Cardinality(S) \in Nat
             /\ Cardinality(Ancestors(m, q)) < Cardinality(S)
  <2>1. IsFiniteSet(S)
    BY <1>1, FS_Subset
  <2>2. PICK T \in SUBSET S : T = Ancestors(m, q)
    BY <1>2
  <2>3. IsFiniteSet(T) /\ Cardinality(T) <= Cardinality(S) /\ (Cardinality(S) = Cardinality(T) => S = T)
    BY <2>1, FS_Subset
  <2>4. Cardinality(T) \in Nat /\ Cardinality(S) \in Nat
    BY <2>1, <2>3, FS_CardinalityType
  <2>5. S # T
    BY <1>2, <2>2
  <2>6. Cardinality(T) < Cardinality(S)
    BY <2>3, <2>4, <2>5
  <2>7. QED
    BY <2>2, <2>4, <2>6
<1>3. Ancestors(m, p) \in SUBSET Property /\ p \notin Ancestors(m, p)
  BY AncestorsUp DEF Sound
<1>4. /\ Cardinality(Property) \in Nat /\ Rank(m, p) \in Nat
      /\ Rank(m, p) < Cardinality(Property)
  BY <1>2, <1>3 DEF Rank
<1>5. ASSUME NEW q \in Ancestors(m, p) PROVE Rank(m, q) < Rank(m, p) /\ Rank(m, q) \in Nat
  <2>1. q \in Property /\ q \notin Ancestors(m, q) /\ Ancestors(m, q) \subseteq Ancestors(m, p)
    BY <1>3, AncestorsOfAncestors DEF Sound
  <2>2. QED
    BY <2>1, <1>2, <1>3 DEF Rank
<1>6. QED
  BY <1>4, <1>5

\* What parsingProperties makes of q when it makes g of the others.
Branches(m, g, q, d) ==
  LET subs == SetToSeq(DirectSubs(m, q))
  IN <<Item(m, q, d)>> \o FlattenSeq([k \in DOMAIN subs |-> g[subs[k]]])

ParseLoop(f, m, N, n) ==
  f = [i \in 0..n |-> [q \in Property |-> IF i = 0 THEN <<>> ELSE Branches(m, f[i - 1], q, N - i)]]

LEMMA ParseLoopExists ==
  ASSUME NEW m, NEW N, NEW n \in Nat
  PROVE  \E f : ParseLoop(f, m, N, n)
<1> DEFINE P == {k \in Nat : \E f : ParseLoop(f, m, N, k)}
<1>1. 0 \in P
  <2> DEFINE f == [i \in 0..0 |-> [q \in Property |-> <<>>]]
  <2>1. ParseLoop(f, m, N, 0)
    BY DEF ParseLoop
  <2>2. QED
    BY <2>1
<1>2. ASSUME NEW k \in P PROVE k + 1 \in P
  <2>1. PICK f : ParseLoop(f, m, N, k)
    BY <1>2
  <2> DEFINE G(h, i) == [q \in Property |-> IF i = 0 THEN <<>> ELSE Branches(m, h[i - 1], q, N - i)]
             g == [i \in 0..(k + 1) |-> G(f, i)]
  <2>2. \A i \in 0..k : g[i] = f[i]
    <3>1. f = [i \in 0..k |-> G(f, i)]
      BY <2>1 DEF ParseLoop
    <3> HIDE DEF G
    <3>2. QED
      BY <3>1
  <2>3. ASSUME NEW i \in 0..(k + 1) PROVE G(f, i) = G(g, i)
    <3>1. CASE i = 0
      BY <3>1
    <3>2. CASE i # 0
      <4>1. i - 1 \in 0..k
        BY <3>2
      <4>2. g[i - 1] = f[i - 1]
        BY <4>1, <2>2
      <4> HIDE DEF g
      <4>3. QED
        BY <4>2
    <3>3. QED
      BY <3>1, <3>2
  <2>4. g = [i \in 0..(k + 1) |-> G(g, i)]
    BY <2>3
  <2> HIDE DEF g
  <2>5. ParseLoop(g, m, N, k + 1)
    BY <2>4 DEF ParseLoop
  <2>6. QED
    BY <2>5
<1> HIDE DEF P
<1>3. P = Nat
  BY <1>1, <1>2, UpTo DEF P
<1>4. QED
  BY <1>3 DEF P

\* A forest for all the direct subproperties of a set of items.
LEMMA BranchesAre ==
  ASSUME NEW m, NEW d \in Nat, NEW S, IsFiniteSet(S), NEW g,
         \A r \in S : Forest(g[r], d, m, {r})
  PROVE  LET subs == SetToSeq(S)
         IN Forest(FlattenSeq([k \in DOMAIN subs |-> g[subs[k]]]), d, m, S)
<1> DEFINE subs == SetToSeq(S)
           K == Cardinality(S)
           seqs == [k \in DOMAIN subs |-> g[subs[k]]]
<1>1. /\ K \in Nat /\ DOMAIN subs = 1..K
      /\ \A i \in 1..K : subs[i] \in S
      /\ \A i, j \in 1..K : subs[i] = subs[j] => i = j
      /\ {subs[i] : i \in 1..K} = S
  BY Listed
<1> HIDE DEF subs, K
<1>2. seqs = [i \in 1..K |-> seqs[i]] /\ \A i \in 1..K : seqs[i] = g[subs[i]]
  BY <1>1
<1> HIDE DEF seqs
<1>3. \A i \in 1..K : Forest(seqs[i], d, m, {subs[i]})
  BY <1>1, <1>2
<1>5. Forest(FlattenSeq(seqs), d, m, S)
  <2>1. InARow(seqs, subs, K, S, d, m) /\ K \in Nat
    BY <1>1, <1>2, <1>3 DEF InARow
  <2>2. QED
    BY <2>1, ForestsInARow
<1>6. QED
  BY <1>5 DEF seqs, subs

(* parsingProperties: below the item of a property come the items of its    *)
(* direct subproperties, each with its own below it, and none is missing,   *)
(* because no property stands lower than there are properties.              *)
LEMMA ParsedIs ==
  ASSUME NEW m \in Model, Sound(m), NEW p \in m.live
  PROVE  Forest(ParsingProperties(m, p), 0, m, {p})
<1>1. PICK N : N = Cardinality(Property)
  OBVIOUS
<1>2. m.live \in SUBSET Property /\ m.supers \in [Property -> SUBSET Property]
  BY DEF Model
<1>3. N \in Nat
  BY <1>1, <1>2, RankIs
<1> DEFINE f == CHOOSE f : ParseLoop(f, m, N, N)
<1>4. ParseLoop(f, m, N, N)
  BY <1>3, ParseLoopExists
<1>5. ParsingProperties(m, p) = f[N][p]
  BY <1>1 DEF ParsingProperties, ParseLoop, Branches
<1> HIDE DEF f
<1> DEFINE P == {n \in Nat : n <= N => \A q \in m.live : Rank(m, q) >= N - n => Forest(f[n][q], N - n, m, {q})}
<1>6. 0 \in P
  <2>1. SUFFICES ASSUME NEW q \in m.live, Rank(m, q) >= N - 0 PROVE FALSE
    BY DEF P
  <2>2. Rank(m, q) \in Nat /\ Rank(m, q) < N
    BY <1>1, <1>2, RankIs
  <2>3. QED
    BY <2>1, <2>2, <1>3
<1>7. ASSUME NEW n \in P PROVE n + 1 \in P
  <2>1. n \in Nat
    BY <1>7
  <2>13. n + 1 \in Nat
    BY <2>1
  <2>14. SUFFICES n + 1 <= N => \A q \in m.live : Rank(m, q) >= N - (n + 1) =>
                                   Forest(f[n + 1][q], N - (n + 1), m, {q})
    BY <2>13, Zenon DEF P
  <2>2. SUFFICES ASSUME n + 1 <= N, NEW q \in m.live, Rank(m, q) >= N - (n + 1)
                 PROVE  Forest(f[n + 1][q], N - (n + 1), m, {q})
    OBVIOUS
  <2>3. PICK d \in Nat : d = N - (n + 1)
    BY <1>3, <2>1, <2>2
  <2>4. d + 1 = N - n /\ n <= N /\ n + 1 \in 0..N /\ n + 1 # 0 /\ (n + 1) - 1 = n
    BY <1>3, <2>1, <2>2, <2>3
  <2>5. q \in Property
    BY <1>2
  <2>6. f[n + 1][q] = Branches(m, f[n], q, d)
    BY <1>4, <2>3, <2>4, <2>5 DEF ParseLoop
  <2>7. ASSUME NEW r \in DirectSubs(m, q) PROVE Forest(f[n][r], d + 1, m, {r})
    <3>1. r \in m.live /\ r \in Property /\ q \in m.supers[r]
      BY <1>2, <2>7 DEF DirectSubs
    <3>2. q \in Ancestors(m, r)
      BY <3>1, AncestorsUp
    <3>3. Rank(m, q) < Rank(m, r) /\ Rank(m, q) \in Nat /\ Rank(m, r) \in Nat
      BY <3>1, <3>2, RankIs
    <3>4. Rank(m, r) >= N - n
      BY <3>3, <2>2, <2>3, <2>4
    <3>5. Forest(f[n][r], N - n, m, {r})
      BY <1>7, <2>4, <3>1, <3>4 DEF P
    <3>6. QED
      BY <3>5, <2>4
  <2>8. IsFiniteSet(DirectSubs(m, q))
    <3>1. DirectSubs(m, q) \in SUBSET Property
      BY <1>2 DEF DirectSubs
    <3>2. QED
      BY <3>1, PropertyAssumption, FS_Subset
  <2> DEFINE subs == SetToSeq(DirectSubs(m, q))
             t == FlattenSeq([k \in DOMAIN subs |-> f[n][subs[k]]])
  <2>9. Forest(t, d + 1, m, DirectSubs(m, q))
    <3>1. PICK g : g = f[n]
      OBVIOUS
    <3>2. d + 1 \in Nat /\ \A r \in DirectSubs(m, q) : Forest(g[r], d + 1, m, {r})
      BY <2>7, <3>1
    <3> HIDE DEF P
    <3>3. Forest(FlattenSeq([k \in DOMAIN subs |-> g[subs[k]]]), d + 1, m, DirectSubs(m, q))
      BY <3>2, <2>8, BranchesAre
    <3>4. QED
      BY <3>1, <3>3
  <2>10. Branches(m, f[n], q, d) = <<Item(m, q, d)>> \o t
    BY DEF Branches
  <2> HIDE DEF t, P
  <2>11. Forest(<<Item(m, q, d)>> \o t, d, m, {q})
    BY <2>9, ForestUnder
  <2>12. QED
    BY <2>3, <2>6, <2>10, <2>11
<1> HIDE DEF P
<1>8. P = Nat
  <2>1. P \in SUBSET Nat
    BY DEF P
  <2>2. QED
    BY <2>1, <1>6, <1>7, UpTo
<1>9. Rank(m, p) >= N - N /\ N - N = 0 /\ N <= N
  <2>1. Rank(m, p) \in Nat
    BY <1>2, RankIs
  <2>2. QED
    BY <2>1, <1>3
<1>10. N \in P
  BY <1>3, <1>8
<1>11. Forest(f[N][p], N - N, m, {p})
  BY <1>9, <1>10 DEF P
<1>12. QED
  BY <1>5, <1>9, <1>11

LEMMA PropertyTreeIs ==
  ASSUME NEW m \in Model, Sound(m)
  PROVE  Forest(PropertyTree(m), 0, m, Roots(m))
<1> DEFINE g == [p \in Property |-> ParsingProperties(m, p)]
           roots == SetToSeq(Roots(m))
<1>1. m.live \in SUBSET Property /\ Roots(m) \in SUBSET Property /\ Roots(m) \subseteq m.live
  BY DEF Model, Roots
<1>2. IsFiniteSet(Roots(m))
  BY <1>1, PropertyAssumption, FS_Subset
<1>3. \A p \in Roots(m) : Forest(g[p], 0, m, {p})
  <2>1. SUFFICES ASSUME NEW p \in Roots(m) PROVE Forest(g[p], 0, m, {p})
    OBVIOUS
  <2>2. p \in m.live /\ g[p] = ParsingProperties(m, p)
    BY <2>1, <1>1
  <2>3. QED
    BY <2>2, ParsedIs
<1> HIDE DEF g
<1>4. Forest(FlattenSeq([k \in DOMAIN roots |-> g[roots[k]]]), 0, m, Roots(m))
  BY <1>2, <1>3, BranchesAre
<1>5. \A k \in DOMAIN roots : roots[k] \in Property
  BY <1>1, <1>2, Listed
<1> HIDE DEF roots
<1>6. [k \in DOMAIN roots |-> g[roots[k]]] = [k \in DOMAIN roots |-> ParsingProperties(m, roots[k])]
  BY <1>5 DEF g
<1>7. PropertyTree(m) = FlattenSeq([k \in DOMAIN roots |-> g[roots[k]]])
  BY <1>6 DEF PropertyTree, roots
<1>8. QED
  BY <1>4, <1>7

\* A property that is below a sibling would not be listed as direct.
LEMMA ForestApart ==
  ASSUME NEW m \in Model, NEW t, Forest(t, 0, m, Roots(m))
  PROVE  Nested(t) /\ Apart(t)
<1>1. /\ t \in Seq(Row) /\ DOMAIN t = 1..Len(t) /\ Len(t) \in Nat
      /\ \A k \in 1..Len(t) : t[k].depth \in Nat /\ t[k].prop \in Property
  BY RowsType DEF Forest
<1>2. Nested(t)
  <2>1. ASSUME NEW k \in DOMAIN t PROVE t[k].depth <= IF k = 1 THEN 0 ELSE t[k - 1].depth + 1
    <3>1. CASE k = 1
      <4>1. t # <<>>
        BY <2>1, <1>1
      <4>2. t[1].depth = 0
        BY <4>1 DEF Forest
      <4>3. QED
        BY <3>1, <4>2
    <3>2. CASE k # 1
      BY <2>1, <3>2 DEF Forest, Steps
    <3>3. QED
      BY <3>1, <3>2
  <2>2. QED
    BY <2>1, <1>1 DEF Nested
<1>3. Linked(t, m)
  BY DEF Forest
<1>4. SUFFICES ASSUME NEW i \in DOMAIN t, NEW j \in DOMAIN t, i < j,
                      \A k \in i..j : t[k].depth >= t[j].depth, t[i].prop = t[j].prop
               PROVE  FALSE
  BY <1>2 DEF Apart
<1>5. i \in Nat /\ j \in Nat /\ t[i].depth \in Nat /\ t[j].depth \in Nat /\ t[i].depth >= t[j].depth
  <2>1. i \in i..j
    BY <1>1, <1>4
  <2>2. QED
    BY <2>1, <1>1, <1>4
<1>6. t[i].depth # t[j].depth
  BY <1>4 DEF Forest, Siblings
<1>7. t[i].depth > t[j].depth /\ t[i].depth # 0
  BY <1>5, <1>6
<1> DEFINE r == ParentOf(t, i)
           y == ParentOf(t, j)
<1>8. r \in 1..(i - 1) /\ Above(t, r, i)
  BY <1>2, <1>7, ParentIs
<1>9. IF t[j].depth = 0 THEN y = 0 ELSE y \in 1..(j - 1) /\ Above(t, y, j)
  BY <1>2, ParentIs
<1> HIDE DEF r, y
<1>10. r \in DOMAIN t /\ r \in Nat /\ t[r].depth \in Nat
  BY <1>1, <1>5, <1>8
<1>11. t[r].prop \in m.supers[t[i].prop]
  BY <1>3, <1>8, <1>10 DEF Linked, DirectSubs
<1>12. t[j].depth # 0
  <2>1. SUFFICES ASSUME t[j].depth = 0 PROVE FALSE
    OBVIOUS
  <2>2. t[j].prop \in Roots(m)
    BY <2>1 DEF Forest, Tops
  <2>3. QED
    BY <2>2, <1>4, <1>11 DEF Roots
<1>13. y \in DOMAIN t /\ y \in Nat /\ Above(t, y, j) /\ t[y].depth \in Nat /\ t[j].depth = t[y].depth + 1
       /\ y < j
  BY <1>1, <1>5, <1>9, <1>12 DEF Above
<1>14. y < i
  <2>1. SUFFICES ASSUME y >= i PROVE FALSE
    BY <1>5, <1>13
  <2>2. y \in i..j
    BY <2>1, <1>5, <1>13
  <2>3. t[y].depth >= t[j].depth
    BY <2>2, <1>4
  <2>4. QED
    BY <2>3, <1>5, <1>13
<1>15. \A k \in (y + 1)..j : t[k].depth > t[y].depth
  BY <1>13 DEF Above
<1>16. t[i].depth = t[r].depth + 1 /\ \A k \in (r + 1)..i : t[k].depth > t[r].depth
  BY <1>8 DEF Above
<1>17. t[r].depth > t[y].depth
  BY <1>5, <1>7, <1>10, <1>13, <1>16
<1>18. y < r
  <2>1. SUFFICES ASSUME r <= y PROVE FALSE
    BY <1>10, <1>13
  <2>2. r # y
    BY <1>17, <1>10
  <2>3. y \in (r + 1)..i
    BY <2>1, <2>2, <1>5, <1>10, <1>13, <1>14
  <2>4. t[y].depth > t[r].depth
    BY <2>3, <1>16
  <2>5. QED
    BY <2>4, <1>10, <1>13, <1>17
<1>19. \A k \in (y + 1)..r : t[k].depth > t[y].depth
  <2>1. \A k \in (y + 1)..r : k \in (y + 1)..j
    BY <1>4, <1>5, <1>8, <1>10, <1>13
  <2>2. QED
    BY <2>1, <1>15
<1>20. t[y].prop \in Ancestors(m, t[r].prop)
  BY <1>2, <1>3, <1>10, <1>13, <1>18, <1>19, Beneath
<1>21. t[j].prop \in DirectSubs(m, t[y].prop)
  BY <1>3, <1>13 DEF Linked
<1>22. QED
  BY <1>4, <1>11, <1>20, <1>21 DEF DirectSubs

\* Every property is reached, from the topmost ones downwards.
LEMMA ForestReachesAll ==
  ASSUME NEW m \in Model, Sound(m), NEW t, Forest(t, 0, m, Roots(m))
  PROVE  Props(t) = m.live
<1>1. m.live \in SUBSET Property /\ m.supers \in [Property -> SUBSET Property]
  BY DEF Model
<1>2. Props(t) \subseteq m.live
  BY DEF Forest, Props
<1>3. Roots(m) \subseteq Props(t)
  <2>1. Tops(t, 0) \subseteq Props(t)
    BY DEF Tops, Props
  <2>2. QED
    BY <2>1 DEF Forest
<1>4. PICK N \in Nat : N = Cardinality(Property)
  <2>1. CASE m.live = {}
    BY PropertyAssumption, FS_CardinalityType
  <2>2. QED
    BY PropertyAssumption, FS_CardinalityType
<1> DEFINE P == {n \in Nat : \A p \in m.live : Rank(m, p) <= n => p \in Props(t)}
<1>5. ASSUME NEW n \in Nat, NEW p \in m.live, Rank(m, p) <= n,
             \A q \in m.live : Rank(m, q) < Rank(m, p) => q \in Props(t)
      PROVE  p \in Props(t)
  <2>1. CASE m.supers[p] = {}
    BY <2>1, <1>3 DEF Roots
  <2>2. CASE m.supers[p] # {}
    <3>1. p \in Property /\ m.supers[p] \subseteq Property /\ m.supers[p] \subseteq m.live
      BY <1>1 DEF Sound
    <3>2. \A s \in m.supers[p] : Rank(m, s) \in Nat /\ Rank(m, s) < N
      BY <1>4, <3>1, RankIs
    <3> DEFINE T == {N - Rank(m, s) : s \in m.supers[p]}
    <3>3. T \in SUBSET Nat /\ T # {}
      BY <2>2, <3>2
    <3>4. PICK k \in T : \A l \in T : k <= l
      BY <3>3, Least
    <3>5. PICK s \in m.supers[p] : k = N - Rank(m, s)
      BY <3>4
    <3>6. \A r \in m.supers[p] : s \notin Ancestors(m, r)
      <4>1. SUFFICES ASSUME NEW r \in m.supers[p], s \in Ancestors(m, r) PROVE FALSE
        OBVIOUS
      <4>2. Rank(m, s) < Rank(m, r) /\ Rank(m, s) \in Nat /\ Rank(m, r) \in Nat
        BY <4>1, <3>1, <3>2, RankIs
      <4>3. N - Rank(m, s) <= N - Rank(m, r)
        BY <3>4, <3>5
      <4>4. QED
        BY <4>2, <4>3
    <3>7. p \in DirectSubs(m, s)
      BY <3>6 DEF DirectSubs
    <3>8. s \in Ancestors(m, p)
      BY <3>1, AncestorsUp
    <3>9. s \in Props(t)
      BY <3>1, <3>8, <1>5, RankIs
    <3>10. DirectSubs(m, s) \subseteq Props(t)
      BY <3>9 DEF Forest, Whole, Props
    <3>11. QED
      BY <3>7, <3>10
  <2>3. QED
    BY <2>1, <2>2
<1>6. \A p \in m.live : Rank(m, p) \in Nat /\ Rank(m, p) < N
  BY <1>1, <1>4, RankIs
<1>7. 0 \in P
  <2>1. SUFFICES ASSUME NEW p \in m.live, Rank(m, p) <= 0 PROVE p \in Props(t)
    OBVIOUS
  <2>2. \A q \in m.live : ~(Rank(m, q) < Rank(m, p))
    BY <2>1, <1>6
  <2>3. 0 \in Nat
    OBVIOUS
  <2>4. QED
    BY <2>1, <2>2, <2>3, <1>5
<1>8. ASSUME NEW n \in P PROVE n + 1 \in P
  <2>1. n \in Nat /\ n + 1 \in Nat
    BY <1>8
  <2>2. SUFFICES ASSUME NEW p \in m.live, Rank(m, p) <= n + 1 PROVE p \in Props(t)
    BY <2>1
  <2>3. \A q \in m.live : Rank(m, q) < Rank(m, p) => q \in Props(t)
    <3>1. SUFFICES ASSUME NEW q \in m.live, Rank(m, q) < Rank(m, p) PROVE q \in Props(t)
      OBVIOUS
    <3>2. Rank(m, q) \in Nat /\ Rank(m, p) \in Nat
      BY <1>6
    <3>3. Rank(m, q) <= n
      BY <2>1, <2>2, <3>1, <3>2
    <3>4. QED
      BY <3>3, <1>8
  <2>4. QED
    BY <2>1, <2>2, <2>3, <1>5
<1> HIDE DEF P
<1>9. P = Nat
  <2>1. P \in SUBSET Nat
    BY DEF P
  <2>2. QED
    BY <2>1, <1>7, <1>8, UpTo
<1>10. m.live \subseteq Props(t)
  <2>1. SUFFICES ASSUME NEW p \in m.live PROVE p \in Props(t)
    OBVIOUS
  <2>2. Rank(m, p) \in P /\ Rank(m, p) <= Rank(m, p)
    BY <1>6, <1>9
  <2>3. QED
    BY <2>2 DEF P
<1>11. QED
  BY <1>2, <1>10

(* getPropertiesTree_RESPONSE shows the whole hierarchy, and nothing twice  *)
(* below the same item.                                                     *)
LEMMA FilledIs ==
  ASSUME NEW m \in Model, Sound(m), NEW t, t = PropertyTree(m)
  PROVE  Tidy(t) /\ Right(t, m) /\ Props(t) = m.live
<1>1. Forest(t, 0, m, Roots(m))
  BY PropertyTreeIs
<1>2. Nested(t) /\ Apart(t) /\ Props(t) = m.live
  BY <1>1, ForestApart, ForestReachesAll
<1>3. Opened(t)
  BY <1>1 DEF Forest
<1>4. Right(t, m)
  <2>1. ASSUME NEW i \in DOMAIN t
        PROVE  t[i].prop \in m.live /\ (t[i].depth = 0 => t[i].prop \in Roots(m))
    BY <2>1, <1>1 DEF Forest, Tops
  <2>2. Linked(t, m)
    BY <1>1 DEF Forest
  <2>3. QED
    BY <2>1, <2>2 DEF Right, Linked
<1>5. QED
  BY <1>2, <1>3, <1>4 DEF Tidy

-----------------------------------------------------------------------------
(* Changes of the hierarchy *)

LEMMA WithoutIs ==
  ASSUME NEW m \in Model, Sound(m), NEW p \in Property, NEW n, n = Without(m, p)
  PROVE  /\ n \in Model /\ Sound(n) /\ n.live = m.live \ {p}
         /\ Roots(m) \ {p} \subseteq Roots(n)
         /\ \A q \in Property \ {p} : DirectSubs(m, q) \ {p} \subseteq DirectSubs(n, q)
<1>1. m.live \in SUBSET Property /\ m.supers \in [Property -> SUBSET Property]
  BY DEF Model
<1>2. /\ n.live = m.live \ {p} /\ n \in Model
      /\ \A q \in Property : n.supers[q] = IF q = p THEN {} ELSE m.supers[q] \ {p}
  <2> DEFINE s == [q \in Property |-> IF q = p THEN {} ELSE m.supers[q] \ {p}]
  <2>1. s \in [Property -> SUBSET Property] /\ \A q \in Property : s[q] = IF q = p THEN {} ELSE m.supers[q] \ {p}
    BY <1>1
  <2>2. n = [m EXCEPT !.live = @ \ {p}, !.supers = s]
    BY DEF Without
  <2> HIDE DEF s
  <2>3. n.live = m.live \ {p} /\ n.supers = s /\ n \in Model
    BY <2>1, <2>2, <1>1 DEF Model
  <2>4. QED
    BY <2>1, <2>3
<1>3. \A q \in Property : Ancestors(n, q) \subseteq Ancestors(m, q)
  <2>1. SUFFICES ASSUME NEW q \in Property PROVE Ancestors(n, q) \subseteq Ancestors(m, q)
    OBVIOUS
  <2>2. Ancestors(m, q) \cup {q} \subseteq Property
    BY AncestorsUp
  <2>3. \A x \in Ancestors(m, q) \cup {q} : n.supers[x] \subseteq m.supers[x]
    BY <2>2, <1>2
  <2>4. QED
    BY <2>3, <1>2, AncestorsShrink
<1>4. Sound(n)
  <2>1. SUFFICES ASSUME NEW q \in Property
                 PROVE  /\ n.supers[q] \subseteq n.live
                        /\ n.supers[q] # {} => q \in n.live
                        /\ q \notin Ancestors(n, q)
    BY DEF Sound
  <2>2. /\ m.supers[q] \subseteq m.live
        /\ m.supers[q] # {} => q \in m.live
        /\ q \notin Ancestors(m, q)
    BY DEF Sound
  <2>3. QED
    BY <2>2, <1>2, <1>3
<1>5. Roots(m) \ {p} \subseteq Roots(n)
  BY <1>1, <1>2 DEF Roots
<1>6. ASSUME NEW q \in Property \ {p}, NEW r \in DirectSubs(m, q), r # p PROVE r \in DirectSubs(n, q)
  <2>1. /\ r \in m.live /\ r \in Property /\ q \in m.supers[r]
        /\ \A x \in m.supers[r] : q \notin Ancestors(m, x)
    BY <1>1, <1>6 DEF DirectSubs
  <2>2. r \in n.live /\ q \in n.supers[r] /\ n.supers[r] \subseteq m.supers[r]
    BY <2>1, <1>2, <1>6
  <2>3. \A x \in n.supers[r] : q \notin Ancestors(n, x)
    <3>1. m.supers[r] \subseteq Property
      BY <2>1, <1>1
    <3>2. QED
      BY <3>1, <2>1, <2>2, <1>3
  <2>4. QED
    BY <2>2, <2>3 DEF DirectSubs
<1>7. QED
  BY <1>2, <1>4, <1>5, <1>6

(*** Two predicates for what follows: n is m with the new property p          ***)
(*** accepted under S, and what that makes of the hierarchy.                  ***)
Accepts(n, m, p, S) == n = [m EXCEPT !.live = @ \cup {p}, !.supers[p] = S]

Wider(n, m, p, S) ==
  /\ n \in Model /\ Sound(n) /\ n.live = m.live \cup {p}
  /\ Roots(m) \subseteq Roots(n)
  /\ \A q \in Property : DirectSubs(m, q) \subseteq DirectSubs(n, q)
  /\ S = {} => p \in Roots(n)
  /\ \A s \in m.live : S = {s} => p \in DirectSubs(n, s)

LEMMA AcceptedIs ==
  ASSUME NEW m \in Model, Sound(m), NEW p \in Property, p \notin m.live, NEW S \in SUBSET m.live,
         NEW n, Accepts(n, m, p, S)
  PROVE  Wider(n, m, p, S)
<1>1. m.live \in SUBSET Property /\ m.supers \in [Property -> SUBSET Property]
  BY DEF Model
<1>2. /\ n.live = m.live \cup {p} /\ n \in Model
      /\ \A q \in Property : n.supers[q] = IF q = p THEN S ELSE m.supers[q]
  <2>1. /\ n.live = m.live \cup {p} /\ n.supers = [m.supers EXCEPT ![p] = S]
        /\ n = [live |-> n.live, supers |-> n.supers]
    BY DEF Model, Accepts
  <2>2. [m.supers EXCEPT ![p] = S] \in [Property -> SUBSET Property]
    BY <1>1
  <2>3. \A q \in Property : [m.supers EXCEPT ![p] = S][q] = IF q = p THEN S ELSE m.supers[q]
    BY <1>1
  <2>4. n \in Model
    BY <2>1, <2>2, <1>1 DEF Model
  <2>5. QED
    BY <2>1, <2>3, <2>4
<1>3. \A q \in Property : /\ m.supers[q] \subseteq m.live
                          /\ m.supers[q] # {} => q \in m.live
                          /\ q \notin Ancestors(m, q)
  BY DEF Sound
<1>4. \A q \in Property \ {p} : Ancestors(n, q) \subseteq Ancestors(m, q)
  <2>1. SUFFICES ASSUME NEW q \in Property \ {p} PROVE Ancestors(n, q) \subseteq Ancestors(m, q)
    OBVIOUS
  <2>2. Ancestors(m, q) \subseteq m.live
    BY AncestorsLive
  <2>3. \A x \in Ancestors(m, q) \cup {q} : n.supers[x] \subseteq m.supers[x]
    BY <2>2, <1>1, <1>2
  <2>4. QED
    BY <2>3, <1>2, AncestorsShrink
<1>5. Ancestors(n, p) \subseteq m.live
  <2>1. n.supers[p] \subseteq m.live
    BY <1>2
  <2>2. UpwardClosed(n, m.live)
    BY <1>1, <1>2, <1>3 DEF UpwardClosed
  <2>3. QED
    BY <2>1, <2>2, <1>1, <1>2, AncestorsUp
<1>6. Sound(n)
  <2>1. SUFFICES ASSUME NEW q \in Property
                 PROVE  /\ n.supers[q] \subseteq n.live
                        /\ n.supers[q] # {} => q \in n.live
                        /\ q \notin Ancestors(n, q)
    BY DEF Sound
  <2>2. CASE q = p
    BY <2>2, <1>2, <1>5
  <2>3. CASE q # p
    BY <2>3, <1>2, <1>3, <1>4
  <2>4. QED
    BY <2>2, <2>3
<1>7. Roots(m) \subseteq Roots(n)
  BY <1>1, <1>2 DEF Roots
<1>8. ASSUME NEW q \in Property, NEW r \in DirectSubs(m, q) PROVE r \in DirectSubs(n, q)
  <2>1. /\ r \in m.live /\ r \in Property /\ q \in m.supers[r] /\ r # p
        /\ \A x \in m.supers[r] : q \notin Ancestors(m, x)
    BY <1>1, <1>8 DEF DirectSubs
  <2>2. r \in n.live /\ n.supers[r] = m.supers[r]
    BY <2>1, <1>2
  <2>3. \A x \in m.supers[r] : x \in Property \ {p}
    BY <2>1, <1>1, <1>3
  <2>4. QED
    BY <2>1, <2>2, <2>3, <1>4 DEF DirectSubs
<1>9. S = {} => p \in Roots(n)
  BY <1>2 DEF Roots
<1>10. ASSUME NEW s \in m.live, S = {s} PROVE p \in DirectSubs(n, s)
  <2>1. s \notin Ancestors(n, s)
    BY <1>1, <1>6 DEF Sound
  <2>2. n.supers[p] = {s} /\ p \in n.live
    BY <1>2, <1>10
  <2>3. QED
    BY <2>1, <2>2 DEF DirectSubs
<1>11. QED
  BY <1>2, <1>6, <1>7, <1>8, <1>9, <1>10 DEF Wider

LEMMA FewerSupers ==
  ASSUME NEW m \in Model, Sound(m), NEW p \in m.live, NEW s,
         NEW n, n = [m EXCEPT !.supers[p] = @ \ {s}]
  PROVE  n \in Model /\ Sound(n) /\ n.live = m.live
<1>1. m.live \in SUBSET Property /\ m.supers \in [Property -> SUBSET Property] /\ p \in Property
  BY DEF Model
<1>2. /\ n.live = m.live /\ n \in Model
      /\ \A q \in Property : n.supers[q] \subseteq m.supers[q]
  <2>1. /\ n.live = m.live /\ n.supers = [m.supers EXCEPT ![p] = m.supers[p] \ {s}]
        /\ n = [live |-> n.live, supers |-> n.supers]
    BY DEF Model
  <2>2. [m.supers EXCEPT ![p] = m.supers[p] \ {s}] \in [Property -> SUBSET Property]
    BY <1>1
  <2>3. \A q \in Property : [m.supers EXCEPT ![p] = m.supers[p] \ {s}][q] \subseteq m.supers[q]
    BY <1>1
  <2>4. n \in Model
    BY <2>1, <2>2, <1>1 DEF Model
  <2>5. QED
    BY <2>1, <2>3, <2>4
<1>3. \A q \in Property : Ancestors(n, q) \subseteq Ancestors(m, q)
  <2>1. SUFFICES ASSUME NEW q \in Property PROVE Ancestors(n, q) \subseteq Ancestors(m, q)
    OBVIOUS
  <2>2. Ancestors(m, q) \cup {q} \subseteq Property
    BY AncestorsUp
  <2>3. \A x \in Ancestors(m, q) \cup {q} : n.supers[x] \subseteq m.supers[x]
    BY <2>2, <1>2
  <2>4. QED
    BY <2>3, <1>2, AncestorsShrink
<1>4. Sound(n)
  <2>1. SUFFICES ASSUME NEW q \in Property
                 PROVE  /\ n.supers[q] \subseteq n.live
                        /\ n.supers[q] # {} => q \in n.live
                        /\ q \notin Ancestors(n, q)
    BY DEF Sound
  <2>2. /\ m.supers[q] \subseteq m.live
        /\ m.supers[q] # {} => q \in m.live
        /\ q \notin Ancestors(m, q)
    BY DEF Sound
  <2>3. QED
    BY <2>2, <1>2, <1>3
<1>5. QED
  BY <1>2, <1>4

(* The editor makes no cycles: what gets new ancestors is p and what is     *)
(* below p, and none of these is an ancestor of s.                          *)
LEMMA MoreSupers ==
  ASSUME NEW m \in Model, Sound(m), NEW p \in m.live, NEW s \in m.live, p # s,
         p \notin Ancestors(m, s), NEW n, n = [m EXCEPT !.supers[p] = @ \cup {s}]
  PROVE  n \in Model /\ Sound(n) /\ n.live = m.live
<1>1. /\ m.live \in SUBSET Property /\ m.supers \in [Property -> SUBSET Property]
      /\ p \in Property /\ s \in Property
  BY DEF Model
<1>2. /\ n.live = m.live /\ n \in Model
      /\ \A q \in Property : n.supers[q] = IF q = p THEN m.supers[p] \cup {s} ELSE m.supers[q]
  <2>1. /\ n.live = m.live /\ n.supers = [m.supers EXCEPT ![p] = m.supers[p] \cup {s}]
        /\ n = [live |-> n.live, supers |-> n.supers]
    BY DEF Model
  <2>2. [m.supers EXCEPT ![p] = m.supers[p] \cup {s}] \in [Property -> SUBSET Property]
    BY <1>1
  <2>3. \A q \in Property : [m.supers EXCEPT ![p] = m.supers[p] \cup {s}][q]
                              = IF q = p THEN m.supers[p] \cup {s} ELSE m.supers[q]
    BY <1>1
  <2>4. n \in Model
    BY <2>1, <2>2, <1>1 DEF Model
  <2>5. QED
    BY <2>1, <2>3, <2>4
<1>3. \A q \in Property : /\ m.supers[q] \subseteq m.live
                          /\ m.supers[q] # {} => q \in m.live
                          /\ q \notin Ancestors(m, q)
  BY DEF Sound
<1> DEFINE U == Ancestors(m, p) \cup {s} \cup Ancestors(m, s)
<1>4. /\ Ancestors(m, p) \subseteq Property /\ UpwardClosed(m, Ancestors(m, p))
      /\ m.supers[p] \subseteq Ancestors(m, p)
      /\ Ancestors(m, s) \subseteq Property /\ UpwardClosed(m, Ancestors(m, s))
      /\ m.supers[s] \subseteq Ancestors(m, s)
  BY <1>1, AncestorsUp
<1>5. U \in SUBSET Property /\ n.supers[p] \subseteq U /\ UpwardClosed(m, U) /\ p \notin U
  <2>1. U \in SUBSET Property /\ n.supers[p] \subseteq U
    BY <1>1, <1>2, <1>4
  <2>2. UpwardClosed(m, U)
    BY <1>4 DEF UpwardClosed
  <2>3. p \notin U
    BY <1>1, <1>3
  <2>4. QED
    BY <2>1, <2>2, <2>3
<1>6. ASSUME NEW q \in U PROVE p \notin Ancestors(m, q)
  <2>1. SUFFICES ASSUME p \in Ancestors(m, q) PROVE FALSE
    OBVIOUS
  <2>2. CASE q \in Ancestors(m, p)
    BY <2>1, <2>2, <1>1, <1>3, AncestorsOfAncestors
  <2>3. CASE q = s
    BY <2>1, <2>3
  <2>4. CASE q \in Ancestors(m, s)
    BY <2>1, <2>4, <1>1, AncestorsOfAncestors
  <2>5. QED
    BY <2>2, <2>3, <2>4, <1>6
<1> HIDE DEF U
<1>7. ASSUME NEW q \in Property PROVE q \notin Ancestors(n, q)
  <2>1. /\ Ancestors(m, q) \in SUBSET Property /\ UpwardClosed(m, Ancestors(m, q))
        /\ m.supers[q] \subseteq Ancestors(m, q)
    BY AncestorsUp
  <2>2. CASE q # p /\ p \notin Ancestors(m, q)
    <3>1. \A x \in Ancestors(m, q) \cup {q} : n.supers[x] \subseteq m.supers[x]
      BY <2>1, <2>2, <1>2
    <3>2. Ancestors(n, q) \subseteq Ancestors(m, q)
      BY <3>1, <1>2, AncestorsShrink
    <3>3. QED
      BY <3>2, <1>3
  <2>3. CASE q = p
    <3>1. UpwardClosed(n, U)
      BY <1>2, <1>5 DEF UpwardClosed
    <3>2. Ancestors(n, p) \subseteq U
      BY <3>1, <1>1, <1>2, <1>5, AncestorsUp
    <3>3. QED
      BY <2>3, <3>2, <1>5
  <2>4. CASE q # p /\ p \in Ancestors(m, q)
    <3> DEFINE V == Ancestors(m, q) \cup U
    <3>1. V \in SUBSET Property /\ n.supers[q] \subseteq V
      BY <2>1, <2>4, <1>2, <1>5
    <3>2. UpwardClosed(n, V)
      <4>1. SUFFICES ASSUME NEW x \in V PROVE n.supers[x] \subseteq V
        BY DEF UpwardClosed
      <4>2. CASE x = p
        BY <4>2, <1>5
      <4>3. CASE x # p
        <5>1. n.supers[x] = m.supers[x]
          BY <4>1, <4>3, <3>1, <1>2
        <5>2. QED
          BY <5>1, <4>1, <2>1, <1>5 DEF UpwardClosed
      <4>4. QED
        BY <4>2, <4>3
    <3> HIDE DEF V
    <3>3. Ancestors(n, q) \subseteq V
      BY <3>1, <3>2, <1>2, AncestorsUp
    <3>4. q \notin V
      BY <2>4, <1>3, <1>6 DEF V
    <3>5. QED
      BY <3>3, <3>4
  <2>5. QED
    BY <2>2, <2>3, <2>4
<1>8. Sound(n)
  <2>1. SUFFICES ASSUME NEW q \in Property
                 PROVE  /\ n.supers[q] \subseteq n.live
                        /\ n.supers[q] # {} => q \in n.live
    BY <1>7 DEF Sound
  <2>2. QED
    BY <1>2, <1>3
<1>9. QED
  BY <1>2, <1>8

-----------------------------------------------------------------------------
(* The property tab *)

(* What holds in every state: the rows are a tree in order, the server's    *)
(* superproperties have no cycles, rows are there only for a project, and   *)
(* all of them are of the model; as long as the hierarchy is changed here   *)
(* only, every row is in its place and what is missing was below a removed  *)
(* property.  The order alone survives changes elsewhere: it is why the     *)
(* twisties stay right when the rows are not.                               *)
TreeInv ==
  /\ TypeOK /\ Tidy(rows)
  /\ model # NoModel => Sound(model)
  /\ current => model # NoModel
  /\ ~started => ~current
  /\ panel = "loaded" => current
  /\ (panel = "unloaded" \/ ~current) => rows = <<>>
  /\ (panel # "unloaded" /\ current) => Props(rows) \subseteq model.live
  /\ (panel # "unloaded" /\ current /\ ~behind) =>
       Right(rows, model) /\ model.live \ lost \subseteq Props(rows)

LEMMA NothingIsTidy == Tidy(<<>>) /\ Props(<<>>) = {}
<1>1. <<>> \in Seq(Row) /\ DOMAIN <<>> = {}
  OBVIOUS
<1>2. QED
  BY <1>1 DEF Tidy, Nested, Opened, Apart, Props

LEMMA TreeStart == TabsInit => TreeInv
<1>1. SUFFICES ASSUME TabsInit PROVE TreeInv
  OBVIOUS
<1>2. /\ model \in Start \cup {NoModel} /\ current = FALSE /\ started = FALSE
      /\ panel = "unloaded" /\ rows = <<>> /\ behind = FALSE /\ lost = {}
  BY <1>1 DEF TabsInit, Init
<1>3. /\ model \in Model \cup {NoModel}
      /\ model # NoModel => Sound(model)
  BY <1>2, PropertyAssumption
<1>4. Tidy(rows) /\ rows \in Seq(Row)
  BY <1>2, NothingIsTidy DEF Tidy, Nested
<1>5. TypeOK
  BY <1>2, <1>3, <1>4 DEF TypeOK
<1>6. QED
  BY <1>2, <1>3, <1>4, <1>5 DEF TreeInv

\* Whatever closes the sidebar leaves a sound state.
LEMMA ClosedKeeps ==
  ASSUME TreeInv, Unloaded, current' \in BOOLEAN, started' \in BOOLEAN,
         model' \in Model \cup {NoModel}, model' # NoModel => Sound(model'),
         current' => model' # NoModel, ~started' => ~current'
  PROVE  TreeInv'
<1>1. panel' = "unloaded" /\ rows' = <<>> /\ behind' = FALSE /\ lost' = {}
  BY DEF Unloaded
<1>2. Tidy(rows') /\ rows' \in Seq(Row)
  BY <1>1, NothingIsTidy DEF Tidy, Nested
<1>3. TypeOK'
  BY <1>1, <1>2 DEF TypeOK
<1>4. QED
  BY <1>1, <1>2, <1>3 DEF TreeInv

LEMMA TreeFilled ==
  ASSUME model \in Model, Sound(model), rows = <<>>, PopulatePropertyTree(model)
  PROVE  /\ Tidy(rows') /\ Props(rows') = model.live /\ Right(rows', model)
         /\ rows' \in Seq(Row) /\ behind' = FALSE /\ lost' = {}
<1>1. PICK t : t = PropertyTree(model)
  OBVIOUS
<1>2. Tidy(t) /\ Right(t, model) /\ Props(t) = model.live
  BY <1>1, FilledIs
<1>3. t \in Seq(Row)
  BY <1>2 DEF Tidy, Nested
<1>4. rows' = <<>> \o t /\ behind' = FALSE /\ lost' = {}
  BY <1>1 DEF PopulatePropertyTree
<1>5. rows' = t
  BY <1>3, <1>4, ConcatEmptySeq
<1>6. QED
  BY <1>2, <1>3, <1>4, <1>5

LEMMA StartKeepsTree ==
  ASSUME TreeInv, StartST PROVE TreeInv'
<1>1. /\ ~started /\ started' = TRUE /\ current' = (model # NoModel)
      /\ model' = model /\ panel' = panel
  BY DEF StartST
<1>2. /\ TypeOK /\ ~current /\ rows = <<>> /\ panel # "loaded" /\ Tidy(rows)
      /\ model # NoModel => Sound(model)
  BY <1>1 DEF TreeInv
<1>3. CASE panel = "listening" /\ model # NoModel
  <2>1. model \in Model /\ Sound(model)
    BY <1>2, <1>3 DEF TypeOK
  <2>2. PopulatePropertyTree(model)
    BY <1>3 DEF StartST
  <2>3. /\ Tidy(rows') /\ Props(rows') = model.live /\ Right(rows', model)
        /\ rows' \in Seq(Row) /\ behind' = FALSE /\ lost' = {}
    BY <1>2, <2>1, <2>2, TreeFilled
  <2>4. TypeOK'
    BY <1>1, <1>2, <2>3 DEF TypeOK
  <2>5. QED
    BY <1>1, <1>2, <1>3, <2>1, <2>3, <2>4 DEF TreeInv
<1>4. CASE ~(panel = "listening" /\ model # NoModel)
  <2>1. UNCHANGED <<rows, behind, lost>>
    BY <1>4 DEF StartST
  <2>2. TypeOK'
    BY <1>1, <1>2, <2>1 DEF TypeOK
  <2>3. panel # "unloaded" => model = NoModel
    BY <1>2, <1>4 DEF TypeOK
  <2>4. Tidy(rows') /\ rows' = <<>>
    BY <1>2, <2>1
  <2>5. QED
    BY <1>1, <1>2, <2>2, <2>3, <2>4 DEF TreeInv
<1>5. QED
  BY <1>3, <1>4

LEMMA LoadKeepsTree ==
  ASSUME TreeInv, OnLoad PROVE TreeInv'
<1>1. panel = "unloaded" /\ UNCHANGED <<model, current, started>>
  BY DEF OnLoad
<1>2. /\ TypeOK /\ rows = <<>> /\ Tidy(rows)
      /\ model # NoModel => Sound(model)
      /\ current => model # NoModel
      /\ ~started => ~current
  BY <1>1 DEF TreeInv
<1>3. CASE current
  <2>1. model \in Model /\ Sound(model)
    BY <1>2, <1>3 DEF TypeOK
  <2>2. panel' = "loaded" /\ PopulatePropertyTree(model)
    BY <1>3 DEF OnLoad
  <2>3. /\ Tidy(rows') /\ Props(rows') = model.live /\ Right(rows', model)
        /\ rows' \in Seq(Row) /\ behind' = FALSE /\ lost' = {}
    BY <1>2, <2>1, <2>2, TreeFilled
  <2>4. TypeOK'
    BY <1>1, <1>2, <2>2, <2>3 DEF TypeOK
  <2>5. QED
    BY <1>1, <1>2, <1>3, <2>1, <2>2, <2>3, <2>4 DEF TreeInv
<1>4. CASE ~current
  <2>1. panel' = "listening" /\ UNCHANGED <<rows, behind, lost>>
    BY <1>4 DEF OnLoad
  <2>2. TypeOK'
    BY <1>1, <1>2, <2>1 DEF TypeOK
  <2>3. Tidy(rows') /\ rows' = <<>>
    BY <1>2, <2>1
  <2>4. QED
    BY <1>1, <1>2, <1>4, <2>1, <2>2, <2>3 DEF TreeInv
<1>5. QED
  BY <1>3, <1>4

LEMMA ClosingKeepsTree ==
  ASSUME TreeInv, OnUnload \/ OpenProject \/ ReplaceData PROVE TreeInv'
<1>1. /\ TypeOK
      /\ model # NoModel => Sound(model)
      /\ current => model # NoModel
      /\ ~started => ~current
  BY DEF TreeInv
<1>2. model \in Model \cup {NoModel} /\ current \in BOOLEAN /\ started \in BOOLEAN
  BY <1>1 DEF TypeOK
<1>3. Start \subseteq Model /\ NoModel \notin Model /\ \A m \in Start : Sound(m)
  BY PropertyAssumption
<1>4. CASE OnUnload
  <2>1. Unloaded /\ UNCHANGED <<model, current, started>>
    BY <1>4 DEF OnUnload
  <2>2. QED
    BY <2>1, <1>1, <1>2, ClosedKeeps
<1>5. CASE OpenProject
  <2>1. /\ Unloaded /\ started' = started /\ started
        /\ \E m \in Start \cup {NoModel} : model' = m /\ current' = (m # NoModel)
    BY <1>5 DEF OpenProject, CloseSidebar
  <2>2. /\ model' \in Model \cup {NoModel} /\ (model' # NoModel => Sound(model'))
        /\ current' = (model' # NoModel)
    BY <2>1, <1>3
  <2>3. current' \in BOOLEAN /\ started' \in BOOLEAN /\ (current' => model' # NoModel)
        /\ (~started' => ~current')
    BY <2>1, <2>2, <1>2
  <2>4. QED
    BY <2>1, <2>2, <2>3, ClosedKeeps
<1>6. CASE ReplaceData
  <2>1. /\ Unloaded /\ UNCHANGED <<current, started>> /\ current
        /\ \E m \in Start : model' = m
    BY <1>6 DEF ReplaceData, CloseSidebar
  <2>2. model' \in Model /\ Sound(model') /\ model' # NoModel
    BY <2>1, <1>3
  <2>3. current' \in BOOLEAN /\ started' \in BOOLEAN /\ (~started' => ~current')
    BY <2>1, <1>1, <1>2
  <2>4. QED
    BY <2>1, <2>2, <2>3, ClosedKeeps
<1>7. QED
  BY <1>4, <1>5, <1>6

LEMMA CreateKeepsTree ==
  ASSUME TreeInv, NEW p \in Property, CreateProperty(p) PROVE TreeInv'
<1>1. /\ panel # "unloaded" /\ current /\ p \notin model.live
      /\ model' = [model EXCEPT !.live = @ \cup {p}, !.supers[p] = {}]
      /\ IF Topless THEN rows' = rows /\ lost' = lost \cup {p}
                    ELSE rows' = Append(rows, NewRow(p, 0)) /\ lost' = lost
      /\ UNCHANGED <<current, started, panel, behind>>
  BY DEF CreateProperty, Accepted, Usable
<1>2. /\ TypeOK /\ Tidy(rows) /\ Sound(model) /\ model \in Model /\ started
      /\ (panel = "loaded" => current) /\ Props(rows) \subseteq model.live
      /\ (~behind => Right(rows, model) /\ model.live \ lost \subseteq Props(rows))
  BY <1>1 DEF TreeInv, TypeOK
<1>3. /\ model' \in Model /\ Sound(model') /\ model'.live = model.live \cup {p}
      /\ Roots(model) \subseteq Roots(model') /\ p \in Roots(model')
      /\ \A q \in Property : DirectSubs(model, q) \subseteq DirectSubs(model', q)
  <2>1. {} \in SUBSET model.live
    OBVIOUS
  <2>2. Accepts(model', model, p, {})
    BY <1>1 DEF Accepts
  <2>3. Wider(model', model, p, {})
    BY <2>1, <2>2, <1>1, <1>2, AcceptedIs
  <2>4. QED
    BY <2>3 DEF Wider
<1>5. p \notin Props(rows)
  BY <1>1, <1>2
<1>6. /\ Tidy(rows') /\ Props(rows') \subseteq Props(rows) \cup {p} /\ lost' \subseteq lost \cup {p}
      /\ Right(rows, model) => Right(rows', model')
      /\ Props(rows) \cup lost \cup {p} \subseteq Props(rows') \cup lost'
  <2>1. CASE Topless
    <3>1. rows' = rows /\ lost' = lost \cup {p} /\ DOMAIN rows = {}
      BY <1>1, <2>1 DEF Topless
    <3>2. Right(rows, model')
      BY <3>1 DEF Right
    <3>3. Tidy(rows') /\ Props(rows') = Props(rows) /\ Right(rows', model')
      BY <3>1, <3>2, <1>2, Zenon
    <3>4. QED
      BY <3>1, <3>3
  <2>2. CASE ~Topless
    <3>1. Place(rows, 0, Len(rows)) /\ More(rows', rows, 0, Len(rows), p)
      BY <1>1, <1>2, <2>2, AppendedIs DEF TypeOK
    <3>2. /\ Tidy(rows') /\ Props(rows') = Props(rows) \cup {p}
          /\ Right(rows, model) => Right(rows', model')
      BY <3>1, <1>2, <1>3, <1>5, MoreIs
    <3>3. QED
      BY <3>2, <2>2, <1>1
  <2>3. QED
    BY <2>1, <2>2
<1>7. TypeOK'
  <2>1. rows' \in Seq(Row)
    BY <1>6 DEF Tidy, Nested
  <2>2. QED
    BY <2>1, <1>1, <1>2, <1>3 DEF TypeOK
<1>8. Props(rows') \subseteq model'.live
  BY <1>2, <1>3, <1>6
<1>9. ~behind' => Right(rows', model') /\ model'.live \ lost' \subseteq Props(rows')
  BY <1>1, <1>2, <1>3, <1>6
<1>10. model' # NoModel
  BY <1>3, PropertyAssumption
<1>11. QED
  BY <1>1, <1>2, <1>3, <1>6, <1>7, <1>8, <1>9, <1>10 DEF TreeInv

LEMMA CreateSubKeepsTree ==
  ASSUME TreeInv, NEW i \in DOMAIN rows, NEW p \in Property, CreateSubProperty(i, p) PROVE TreeInv'
<1>12. PICK s : s = rows[i].prop
  OBVIOUS
<1>1. /\ panel # "unloaded" /\ current /\ p \notin model.live
      /\ model' = [model EXCEPT !.live = @ \cup {p}, !.supers[p] = {s}]
      /\ rows' = AddedSubProperty(rows, p, s)
      /\ UNCHANGED <<current, started, panel, behind, lost>>
  BY <1>12 DEF CreateSubProperty, Accepted, Usable
<1>2. /\ TypeOK /\ Tidy(rows) /\ Sound(model) /\ model \in Model /\ started
      /\ (panel = "loaded" => current) /\ Props(rows) \subseteq model.live
      /\ (~behind => Right(rows, model) /\ model.live \ lost \subseteq Props(rows))
  BY <1>1 DEF TreeInv, TypeOK
<1>13. s \in Props(rows) /\ s \in model.live
  BY <1>2, <1>12 DEF Props
<1>3. /\ model' \in Model /\ Sound(model') /\ model'.live = model.live \cup {p}
      /\ Roots(model) \subseteq Roots(model') /\ p \in DirectSubs(model', s)
      /\ \A q \in Property : DirectSubs(model, q) \subseteq DirectSubs(model', q)
  <2>1. {s} \in SUBSET model.live
    BY <1>13
  <2>2. Accepts(model', model, p, {s})
    BY <1>1 DEF Accepts
  <2>3. Wider(model', model, p, {s})
    BY <2>1, <2>2, <1>1, <1>2, AcceptedIs
  <2>4. QED
    BY <2>3, <1>13 DEF Wider
<1>4. PICK k \in DOMAIN rows, b \in Nat :
        rows[k].prop = s /\ Place(rows, k, b) /\ More(rows', rows, k, b, p)
  BY <1>1, <1>2, <1>13, AddedIs DEF TypeOK
<1>5. p \notin Props(rows) /\ k # 0
  BY <1>1, <1>2, RowsType DEF TypeOK
<1>6. /\ Tidy(rows') /\ Props(rows') = Props(rows) \cup {p}
      /\ Right(rows, model) => Right(rows', model')
  BY <1>2, <1>3, <1>4, <1>5, MoreIs
<1>7. TypeOK'
  <2>1. rows' \in Seq(Row)
    BY <1>6 DEF Tidy, Nested
  <2>2. QED
    BY <2>1, <1>1, <1>2, <1>3 DEF TypeOK
<1>8. Props(rows') \subseteq model'.live
  BY <1>2, <1>3, <1>6
<1>9. ~behind' => Right(rows', model') /\ model'.live \ lost' \subseteq Props(rows')
  BY <1>1, <1>2, <1>3, <1>6
<1>10. model' # NoModel
  BY <1>3, PropertyAssumption
<1>11. QED
  BY <1>1, <1>2, <1>3, <1>6, <1>7, <1>8, <1>9, <1>10 DEF TreeInv

LEMMA RemoveKeepsTree ==
  ASSUME TreeInv, NEW i \in DOMAIN rows, RemoveProperty(i) PROVE TreeInv'
<1>12. PICK p : p = rows[i].prop
  OBVIOUS
<1>1. /\ panel # "unloaded" /\ current /\ p \in model.live
      /\ model' = Without(model, p)
      /\ rows' = RemovedProperty(rows, p)
      /\ lost' = lost \cup {q \in model.live : p \in Ancestors(model, q)}
      /\ UNCHANGED <<current, started, panel, behind>>
  BY <1>12 DEF RemoveProperty, Usable
<1>2. /\ TypeOK /\ Tidy(rows) /\ Sound(model) /\ model \in Model /\ started
      /\ (panel = "loaded" => current) /\ Props(rows) \subseteq model.live
      /\ (~behind => Right(rows, model) /\ model.live \ lost \subseteq Props(rows))
  BY <1>1 DEF TreeInv, TypeOK
<1>13. model.live \in SUBSET Property /\ p \in Property
  BY <1>1, <1>2 DEF Model
<1>3. /\ model' \in Model /\ Sound(model') /\ model'.live = model.live \ {p}
      /\ Roots(model) \ {p} \subseteq Roots(model')
      /\ \A q \in Property \ {p} : DirectSubs(model, q) \ {p} \subseteq DirectSubs(model', q)
  BY <1>1, <1>2, <1>13, WithoutIs
<1>4. /\ Tidy(rows') /\ Props(rows') \subseteq Props(rows) \ {p}
      /\ Right(rows, model) =>
           /\ Right(rows', model)
           /\ \A x \in Props(rows) : (x # p /\ p \notin Ancestors(model, x)) => x \in Props(rows')
  BY <1>1, <1>2, RemovedIs
<1>5. Right(rows', model) => Right(rows', model')
  <2>1. SUFFICES ASSUME Right(rows', model) PROVE Right(rows', model')
    OBVIOUS
  <2>2. ASSUME NEW k \in DOMAIN rows'
        PROVE  rows'[k].prop \in Property \ {p} /\ rows'[k].prop \in model.live
    <3>1. rows'[k].prop \in Props(rows')
      BY DEF Props
    <3>2. QED
      BY <3>1, <1>2, <1>4, <1>13
  <2>3. ASSUME NEW k \in DOMAIN rows'
        PROVE  rows'[k].prop \in model'.live /\ (rows'[k].depth = 0 => rows'[k].prop \in Roots(model'))
    BY <2>1, <2>2, <1>3 DEF Right
  <2>4. ASSUME NEW k \in DOMAIN rows', NEW l \in DOMAIN rows', Above(rows', k, l)
        PROVE  rows'[l].prop \in DirectSubs(model', rows'[k].prop)
    <3>1. rows'[l].prop \in DirectSubs(model, rows'[k].prop)
      BY <2>1, <2>4 DEF Right
    <3>2. QED
      BY <3>1, <2>2, <1>3
  <2>5. QED
    BY <2>3, <2>4 DEF Right
<1>7. TypeOK'
  <2>1. rows' \in Seq(Row)
    BY <1>4 DEF Tidy, Nested
  <2>2. lost' \subseteq Property
    BY <1>1, <1>2, <1>13 DEF TypeOK
  <2>3. QED
    BY <2>1, <2>2, <1>1, <1>2, <1>3 DEF TypeOK
<1>8. Props(rows') \subseteq model'.live
  BY <1>2, <1>3, <1>4
<1>9. ~behind' => Right(rows', model') /\ model'.live \ lost' \subseteq Props(rows')
  <2>1. SUFFICES ASSUME ~behind PROVE Right(rows', model') /\ model'.live \ lost' \subseteq Props(rows')
    BY <1>1
  <2>2. Right(rows, model) /\ model.live \ lost \subseteq Props(rows)
    BY <2>1, <1>2
  <2>3. ASSUME NEW x \in model'.live, x \notin lost' PROVE x \in Props(rows')
    <3>1. x \in model.live /\ x # p /\ x \notin lost /\ p \notin Ancestors(model, x)
      BY <2>3, <1>1, <1>3
    <3>2. QED
      BY <3>1, <2>2, <1>4
  <2>4. QED
    BY <2>2, <2>3, <1>4, <1>5
<1>10. model' # NoModel
  BY <1>3, PropertyAssumption
<1>11. QED
  BY <1>1, <1>2, <1>3, <1>4, <1>7, <1>8, <1>9, <1>10 DEF TreeInv

LEMMA EditKeepsTree ==
  ASSUME TreeInv, NEW i \in DOMAIN rows, NEW s \in Property, EditSuperProperty(i, s) PROVE TreeInv'
<1>12. PICK p : p = rows[i].prop
  OBVIOUS
<1>1. /\ panel # "unloaded" /\ current /\ p \in model.live /\ s \in model.live /\ p # s
      /\ \/ p \notin Ancestors(model, s) /\ model' = [model EXCEPT !.supers[p] = @ \cup {s}]
         \/ model' = [model EXCEPT !.supers[p] = @ \ {s}]
      /\ behind' = TRUE
      /\ UNCHANGED <<current, started, panel, rows, lost>>
  BY <1>12 DEF EditSuperProperty, Usable
<1>2. /\ TypeOK /\ Tidy(rows) /\ Sound(model) /\ model \in Model /\ started
      /\ (panel = "loaded" => current) /\ Props(rows) \subseteq model.live
  BY <1>1 DEF TreeInv, TypeOK
<1>3. model' \in Model /\ Sound(model') /\ model'.live = model.live
  <2>1. CASE p \notin Ancestors(model, s) /\ model' = [model EXCEPT !.supers[p] = @ \cup {s}]
    BY <2>1, <1>1, <1>2, MoreSupers
  <2>2. CASE model' = [model EXCEPT !.supers[p] = @ \ {s}]
    BY <2>2, <1>1, <1>2, FewerSupers
  <2>3. QED
    BY <2>1, <2>2, <1>1
<1>4. TypeOK'
  BY <1>1, <1>2, <1>3 DEF TypeOK
<1>5. model' # NoModel
  BY <1>3, PropertyAssumption
<1>6. Tidy(rows') /\ Props(rows') \subseteq model'.live
  BY <1>1, <1>2, <1>3
<1>7. QED
  BY <1>1, <1>2, <1>3, <1>4, <1>5, <1>6 DEF TreeInv

LEMMA TreeInvNext == TreeInv /\ [TabsNext]_<<vars, queryVars>> => TreeInv'
<1> SUFFICES ASSUME TreeInv, [TabsNext]_<<vars, queryVars>> PROVE TreeInv'
  OBVIOUS
<1>1. CASE UNCHANGED vars
  BY <1>1 DEF TreeInv, TypeOK, vars
<1>2. CASE Started
  BY <1>2, StartKeepsTree DEF Started
<1>3. CASE Switch
  BY <1>3, ClosingKeepsTree DEF Switch
<1>4. CASE Commands
  <2>1. CASE OnLoad
    BY <2>1, LoadKeepsTree
  <2>2. CASE OnUnload \/ ReplaceData
    BY <2>2, ClosingKeepsTree
  <2>3. ASSUME NEW p \in Property, CreateProperty(p) PROVE TreeInv'
    BY <2>3, CreateKeepsTree
  <2>4. ASSUME NEW i \in DOMAIN rows, RemoveProperty(i) PROVE TreeInv'
    BY <2>4, RemoveKeepsTree
  <2>5. ASSUME NEW i \in DOMAIN rows, NEW p \in Property, CreateSubProperty(i, p) PROVE TreeInv'
    BY <2>5, CreateSubKeepsTree
  <2>6. ASSUME NEW i \in DOMAIN rows, NEW p \in Property, EditSuperProperty(i, p) PROVE TreeInv'
    BY <2>6, EditKeepsTree
  <2>7. QED
    BY <1>4, <2>1, <2>2, <2>3, <2>4, <2>5, <2>6 DEF Commands
<1>5. CASE OpenTab
  BY <1>5, <1>1 DEF OpenTab
<1>6. QED
  BY <1>1, <1>2, <1>3, <1>4, <1>5 DEF TabsNext, vars, queryVars

-----------------------------------------------------------------------------
(* What the order of the rows makes of the twisties *)

LEMMA TwistiesTell ==
  ASSUME Tidy(rows) PROVE ContainersTell
<1>1. /\ rows \in Seq(Row) /\ DOMAIN rows = 1..Len(rows) /\ Len(rows) \in Nat
      /\ \A k \in 1..Len(rows) : rows[k].depth \in Nat
  BY RowsType DEF Tidy, Nested
<1>2. SUFFICES ASSUME NEW i \in DOMAIN rows
               PROVE  /\ rows[i].container <=> HasChildren(rows, i)
                      /\ Cardinality({rows[k].prop : k \in Below(i)}) = Cardinality(Below(i))
  BY DEF ContainersTell
<1>3. rows[i].container <=> HasChildren(rows, i)
  BY <1>1, HasChildrenIs DEF Tidy, Opened
<1> DEFINE B == Below(i)
           f == [k \in B |-> rows[k].prop]
           T == {rows[k].prop : k \in B}
           b == LastBelow(rows, i)
<1>4. b \in i..Len(rows) /\ \A k \in (i + 1)..b : rows[k].depth > rows[i].depth
  BY <1>1, LastBelowIs
<1> HIDE DEF b
<1>5. B = {k \in (i + 1)..b : rows[k].depth = rows[i].depth + 1}
  BY DEF Below, b
<1>6. B \subseteq 1..Len(rows) /\ i \in Nat /\ b \in Nat
  BY <1>1, <1>4, <1>5
<1>7. IsFiniteSet(B)
  <2>1. IsFiniteSet(1..Len(rows))
    BY <1>1, FS_Interval
  <2>2. QED
    BY <2>1, <1>6, FS_Subset
<1> HIDE DEF B
<1>8. ASSUME NEW k \in B, NEW l \in B, k < l PROVE rows[k].prop # rows[l].prop
  <2>1. k \in DOMAIN rows /\ l \in DOMAIN rows /\ k \in Nat /\ l \in Nat /\ k >= i + 1 /\ l <= b
        /\ rows[l].depth = rows[i].depth + 1
    BY <1>1, <1>5, <1>6
  <2>2. ASSUME NEW x \in k..l PROVE rows[x].depth >= rows[l].depth
    <3>1. x \in (i + 1)..b /\ x \in 1..Len(rows) /\ i \in 1..Len(rows)
      BY <2>1, <1>1, <1>4, <1>6
    <3>2. rows[x].depth > rows[i].depth /\ rows[x].depth \in Nat /\ rows[i].depth \in Nat
      BY <3>1, <1>1, <1>4
    <3>3. QED
      BY <3>2, <2>1
  <2>3. QED
    BY <2>1, <2>2, <1>8 DEF Tidy, Apart
<1>9. f \in Bijection(B, T)
  <2>1. f \in [B -> T] /\ \A x \in T : \E k \in B : f[k] = x
    OBVIOUS
  <2>2. \A k, l \in B : f[k] = f[l] => k = l
    <3>1. SUFFICES ASSUME NEW k \in B, NEW l \in B, f[k] = f[l], k # l PROVE FALSE
      OBVIOUS
    <3>2. rows[k].prop = rows[l].prop
      BY <3>1
    <3>3. k \in Nat /\ l \in Nat
      BY <1>1, <1>6
    <3>4. k < l \/ l < k
      BY <3>1, <3>3
    <3>5. QED
      BY <3>2, <3>4, <1>8
  <2>3. f \in Injection(B, T)
    BY <2>1, <2>2 DEF Injection, IsInjective
  <2>4. f \in Surjection(B, T)
    BY <2>1 DEF Surjection
  <2>5. QED
    BY <2>3, <2>4 DEF Bijection
<1>10. ExistsBijection(B, T)
  BY <1>9 DEF ExistsBijection
<1>11. Cardinality(T) = Cardinality(B)
  BY <1>7, <1>10, FS_Bijection
<1>12. QED
  BY <1>3, <1>11 DEF B

LEMMA RowsStandRight ==
  ASSUME Tidy(rows), Right(rows, model) PROVE RowsAreRight
<1>1. SUFFICES ASSUME NEW i \in DOMAIN rows
               PROVE  LET p == ParentOf(rows, i)
                      IN /\ rows[i].prop \in model.live
                         /\ IF p = 0 THEN rows[i].prop \in Roots(model)
                                     ELSE rows[i].prop \in DirectSubs(model, rows[p].prop)
  BY DEF RowsAreRight
<1> DEFINE p == ParentOf(rows, i)
<1>2. rows \in Seq(Row) /\ DOMAIN rows = 1..Len(rows) /\ Len(rows) \in Nat
  BY RowsType DEF Tidy, Nested
<1>3. IF rows[i].depth = 0 THEN p = 0 ELSE p \in 1..(i - 1) /\ Above(rows, p, i)
  BY ParentIs DEF Tidy
<1> HIDE DEF p
<1>4. rows[i].prop \in model.live /\ (rows[i].depth = 0 => rows[i].prop \in Roots(model))
  BY DEF Right
<1>5. CASE rows[i].depth = 0
  BY <1>3, <1>4, <1>5 DEF p
<1>6. CASE rows[i].depth # 0
  <2>1. p \in DOMAIN rows /\ p # 0 /\ Above(rows, p, i)
    BY <1>2, <1>3, <1>6
  <2>2. rows[i].prop \in DirectSubs(model, rows[p].prop)
    BY <2>1 DEF Right
  <2>3. QED
    BY <2>1, <2>2, <1>4 DEF p
<1>7. QED
  BY <1>5, <1>6

(* However properties are created and removed, and although the loop that   *)
(* removes goes through a live list, a new subproperty is put below one     *)
(* item only, superproperties are changed in editors and the tab hears of   *)
(* projects by their events: the twisties are right, nothing is twice below *)
(* one item, and as long as the hierarchy is changed in the tab only, every *)
(* row is below a direct superproperty and nothing is missing but what was  *)
(* below a removed property or came when no row was left (property.js,      *)
(* propertyEvents.js).                                                      *)
THEOREM TreeStaysTheHierarchy == TabsSpec => []TreeIsTheHierarchy
<1>1. TabsInit => TreeInv
  BY TreeStart
<1>2. TreeInv /\ [TabsNext]_<<vars, queryVars>> => TreeInv'
  BY TreeInvNext
<1>3. TreeInv => TreeIsTheHierarchy
  <2>1. SUFFICES ASSUME TreeInv PROVE TreeIsTheHierarchy
    OBVIOUS
  <2>2. TypeOK /\ ContainersTell
    BY <2>1, TwistiesTell DEF TreeInv
  <2>3. ASSUME panel # "unloaded", current, ~behind
        PROVE  RowsAreRight /\ model.live \ lost \subseteq Shown
    <3>1. Tidy(rows) /\ Right(rows, model) /\ model.live \ lost \subseteq Props(rows)
      BY <2>1, <2>3 DEF TreeInv
    <3>2. Shown = Props(rows)
      BY DEF Shown, Props
    <3>3. QED
      BY <3>1, <3>2, RowsStandRight
  <2>4. QED
    BY <2>2, <2>3 DEF TreeIsTheHierarchy
<1>4. QED
  BY <1>1, <1>2, <1>3, PTL DEF TabsSpec

-----------------------------------------------------------------------------
(* The class panel *)

(* Sequences of items *)

LEMMA ItemsType ==
  ASSUME NEW t \in Seq(TreeItem)
  PROVE  /\ Len(t) \in Nat /\ DOMAIN t = 1..Len(t)
         /\ \A k \in 1..Len(t) : /\ t[k] \in TreeItem /\ t[k].cls \in Class /\ t[k].depth \in Nat
                                 /\ t[k].count \in Int
<1>1. Len(t) \in Nat /\ DOMAIN t = 1..Len(t) /\ \A k \in 1..Len(t) : t[k] \in TreeItem
  OBVIOUS
<1>2. \A r \in TreeItem : r.cls \in Class /\ r.depth \in Nat /\ r.count \in Int
  BY DEF TreeItem
<1>3. QED
  BY <1>1, <1>2

LEMMA LastUnderIs ==
  ASSUME NEW t \in Seq(TreeItem), NEW i \in DOMAIN t
  PROVE  /\ LastUnder(t, i) \in i..Len(t)
         /\ \A k \in (i + 1)..LastUnder(t, i) : t[k].depth > t[i].depth
         /\ LastUnder(t, i) < Len(t) => t[LastUnder(t, i) + 1].depth <= t[i].depth
<1>1. i \in 1..Len(t) /\ Len(t) \in Nat /\ \A k \in 1..Len(t) : t[k].depth \in Nat
  BY ItemsType
<1> DEFINE S == {j \in i..Len(t) : \A k \in (i + 1)..j : t[k].depth > t[i].depth}
           j == Max(S)
<1>2. S \in SUBSET (1..Len(t)) /\ i \in S
  BY <1>1
<1>3. j \in S /\ \A k \in S : j >= k
  BY <1>1, <1>2, MaxOf
<1> HIDE DEF j
<1>4. j < Len(t) => t[j + 1].depth <= t[i].depth
  <2>1. SUFFICES ASSUME j < Len(t), t[j + 1].depth > t[i].depth PROVE FALSE
    BY <1>1, <1>3
  <2>2. j + 1 \in S
    BY <2>1, <1>1, <1>3
  <2>3. QED
    BY <2>2, <1>1, <1>3
<1> DEFINE P(x) == /\ \A k \in (i + 1)..x : t[k].depth > t[i].depth
                   /\ x < Len(t) => t[x + 1].depth <= t[i].depth
<1>5. j \in i..Len(t) /\ P(j)
  BY <1>3, <1>4
<1>6. LastUnder(t, i) = CHOOSE x \in i..Len(t) : P(x)
  BY DEF LastUnder
<1>7. QED
  BY <1>5, <1>6

\* u is t with the items of w in the place of those after a and up to b.
Spliced(u, t, a, w, b) ==
  /\ u \in Seq(TreeItem) /\ Len(u) = a + Len(w) + (Len(t) - b)
  /\ \A k \in 1..Len(u) :
       \/ k <= a /\ u[k] = t[k]
       \/ k > a /\ k <= a + Len(w) /\ u[k] = w[k - a]
       \/ k > a + Len(w) /\ u[k] = t[k - a - Len(w) + b]

LEMMA SpliceIs ==
  ASSUME NEW t \in Seq(TreeItem), NEW w \in Seq(TreeItem), NEW a \in Nat, NEW b \in Nat,
         a <= b, b <= Len(t)
  PROVE  Spliced(SubSeq(t, 1, a) \o w \o SubSeq(t, b + 1, Len(t)), t, a, w, b)
<1>1. PICK n \in Nat, m \in Nat : n = Len(t) /\ m = Len(w)
  BY ItemsType
<1>2. PICK x : x = SubSeq(t, 1, a)
  OBVIOUS
<1>3. PICK y : y = SubSeq(t, b + 1, n)
  OBVIOUS
<1>4. x \in Seq(TreeItem) /\ Len(x) = a /\ \A k \in 1..a : x[k] = t[k]
  BY <1>1, <1>2, StartIs
<1>5. y \in Seq(TreeItem) /\ Len(y) = n - b /\ \A k \in 1..(n - b) : y[k] = t[b + k]
  BY <1>1, <1>3, RestOfIs
<1>6. PICK z : z = x \o w
  OBVIOUS
<1>7. /\ z \in Seq(TreeItem) /\ Len(z) = a + m
      /\ \A k \in 1..a : z[k] = t[k]
      /\ \A k \in 1..m : z[a + k] = w[k]
  <2>1. Chained(z, x, w, TreeItem)
    BY <1>4, <1>6, ConcatIs
  <2>2. QED
    BY <2>1, <1>1, <1>4 DEF Chained
<1>8. PICK u : u = z \o y
  OBVIOUS
<1>9. /\ u \in Seq(TreeItem) /\ Len(u) = a + m + (n - b)
      /\ \A k \in 1..(a + m) : u[k] = z[k]
      /\ \A k \in 1..(n - b) : u[a + m + k] = t[b + k]
  <2>1. Chained(u, z, y, TreeItem)
    BY <1>5, <1>7, <1>8, ConcatIs
  <2>2. /\ u \in Seq(TreeItem) /\ Len(u) = Len(z) + Len(y)
        /\ \A k \in 1..Len(z) : u[k] = z[k]
        /\ \A k \in 1..Len(y) : u[Len(z) + k] = y[k]
    BY <2>1 DEF Chained
  <2>3. QED
    BY <2>2, <1>5, <1>7
<1>10. ASSUME NEW k \in 1..Len(u)
       PROVE  \/ k <= a /\ u[k] = t[k]
              \/ k > a /\ k <= a + m /\ u[k] = w[k - a]
              \/ k > a + m /\ u[k] = t[k - a - m + b]
  <2>1. CASE k <= a
    BY <2>1, <1>1, <1>7, <1>9
  <2>2. CASE k > a /\ k <= a + m
    <3>1. k - a \in 1..m /\ a + (k - a) = k /\ k \in 1..(a + m)
      BY <2>2, <1>1
    <3>2. z[k] = w[k - a] /\ u[k] = z[k]
      BY <3>1, <1>7, <1>9
    <3>3. QED
      BY <3>2, <2>2
  <2>3. CASE k > a + m
    <3>1. k - a - m \in 1..(n - b) /\ a + m + (k - a - m) = k /\ b + (k - a - m) = k - a - m + b
      BY <2>3, <1>1, <1>9
    <3>2. u[k] = t[k - a - m + b]
      BY <3>1, <1>9
    <3>3. QED
      BY <3>2, <2>3
  <2>4. QED
    BY <2>1, <2>2, <2>3, <1>1, <1>9
<1>11. QED
  BY <1>1, <1>2, <1>3, <1>6, <1>8, <1>9, <1>10 DEF Spliced

-----------------------------------------------------------------------------
(* The numbers of instances and the current row *)

Counted(o, t) == \A k \in DOMAIN t : t[k].count = NumInst(o, t[k].cls)

OnePicked(t) == \A k, l \in DOMAIN t : t[k].picked /\ t[l].picked => k = l

\* What is kept of a tree: its type and, as long as the gestures are those
\* of the property, its numbers and its one current row.
Fair(told, o, t) == t \in Seq(TreeItem) /\ (told => Counted(o, t) /\ OnePicked(t))

\* Items that may come into a tree.
Fresh(told, o, w) ==
  /\ w \in Seq(TreeItem)
  /\ told => \A k \in 1..Len(w) : w[k].count = NumInst(o, w[k].cls) /\ ~w[k].picked

LEMMA SplicedFair ==
  ASSUME NEW told, NEW o, NEW t, Fair(told, o, t), NEW w, Fresh(told, o, w),
         NEW a \in Nat, NEW b \in Nat, a <= b, b <= Len(t), NEW u, Spliced(u, t, a, w, b)
  PROVE  Fair(told, o, u)
<1>1. /\ t \in Seq(TreeItem) /\ u \in Seq(TreeItem) /\ Len(t) \in Nat /\ Len(u) \in Nat
      /\ Len(w) \in Nat /\ DOMAIN t = 1..Len(t) /\ DOMAIN u = 1..Len(u)
      /\ Len(u) = a + Len(w) + (Len(t) - b)
  BY ItemsType DEF Fair, Fresh, Spliced
<1>2. PICK n \in Nat, m \in Nat, l \in Nat : n = Len(t) /\ m = Len(w) /\ l = Len(u)
  BY <1>1
<1>3. ASSUME NEW k \in 1..l
      PROVE  \/ k <= a /\ k \in 1..n /\ u[k] = t[k]
             \/ k > a /\ k - a \in 1..m /\ u[k] = w[k - a]
             \/ k > a + m /\ k - a - m + b \in 1..n /\ u[k] = t[k - a - m + b]
  <2>1. \/ k <= a /\ u[k] = t[k]
        \/ k > a /\ k <= a + m /\ u[k] = w[k - a]
        \/ k > a + m /\ u[k] = t[k - a - m + b]
    BY <1>2 DEF Spliced
  <2>2. k \in Nat /\ l = a + m + (n - b) /\ a <= b /\ b <= n /\ k >= 1 /\ k <= l
    BY <1>1, <1>2
  <2>3. k <= a => k \in 1..n
    BY <2>2, <1>2
  <2>4. k > a /\ k <= a + m => k - a \in 1..m
    BY <2>2, <1>2
  <2>5. k > a + m => k - a - m + b \in 1..n
    BY <2>2, <1>2
  <2>6. QED
    BY <2>1, <2>3, <2>4, <2>5
<1>4. told => Counted(o, u)
  <2>1. SUFFICES ASSUME told, NEW k \in 1..l PROVE u[k].count = NumInst(o, u[k].cls)
    BY <1>1, <1>2 DEF Counted
  <2>2. /\ \A x \in 1..n : t[x].count = NumInst(o, t[x].cls)
        /\ \A x \in 1..m : w[x].count = NumInst(o, w[x].cls)
    BY <2>1, <1>1, <1>2 DEF Fair, Fresh, Counted
  <2>3. QED
    BY <2>2, <1>3
<1>5. told => OnePicked(u)
  <2>1. SUFFICES ASSUME told, NEW k \in 1..l, NEW j \in 1..l, u[k].picked, u[j].picked
                 PROVE  k = j
    BY <1>1, <1>2 DEF OnePicked
  <2>2. /\ \A x, y \in 1..n : t[x].picked /\ t[y].picked => x = y
        /\ \A x \in 1..m : ~w[x].picked
    BY <2>1, <1>1, <1>2 DEF Fair, Fresh, OnePicked
  <2>3. /\ \/ k <= a /\ k \in 1..n /\ u[k] = t[k]
           \/ k > a + m /\ k - a - m + b \in 1..n /\ u[k] = t[k - a - m + b]
        /\ \/ j <= a /\ j \in 1..n /\ u[j] = t[j]
           \/ j > a + m /\ j - a - m + b \in 1..n /\ u[j] = t[j - a - m + b]
    <3>1. ASSUME NEW x \in 1..l, u[x].picked
          PROVE  \/ x <= a /\ x \in 1..n /\ u[x] = t[x]
                 \/ x > a + m /\ x - a - m + b \in 1..n /\ u[x] = t[x - a - m + b]
      <4>1. ~(x - a \in 1..m /\ u[x] = w[x - a])
        BY <3>1, <2>2
      <4>2. QED
        BY <4>1, <1>3
    <3>2. QED
      BY <3>1, <2>1
  <2>4. k \in Nat /\ j \in Nat /\ a <= b
    OBVIOUS
  <2>5. \/ k <= a /\ j <= a /\ k = j
        \/ k <= a /\ j > a + m /\ k = j - a - m + b
        \/ k > a + m /\ j <= a /\ k - a - m + b = j
        \/ k > a + m /\ j > a + m /\ k - a - m + b = j - a - m + b
    BY <2>1, <2>2, <2>3
  <2>6. QED
    BY <2>4, <2>5, <1>2
<1>6. QED
  BY <1>1, <1>4, <1>5 DEF Fair

\* The items of t, but for the marks of the widget.
Alike(u, t) ==
  /\ u \in Seq(TreeItem) /\ Len(u) = Len(t)
  /\ \A k \in 1..Len(t) : /\ u[k].cls = t[k].cls /\ u[k].depth = t[k].depth
                          /\ u[k].count = t[k].count /\ u[k].picked = t[k].picked

LEMMA AlikeFair ==
  ASSUME NEW told, NEW o, NEW t, Fair(told, o, t), NEW u, Alike(u, t)
  PROVE  Fair(told, o, u)
<1>1. t \in Seq(TreeItem) /\ u \in Seq(TreeItem) /\ DOMAIN t = 1..Len(t) /\ DOMAIN u = 1..Len(t)
  BY ItemsType DEF Fair, Alike
<1>2. told => Counted(o, u)
  BY <1>1 DEF Fair, Alike, Counted
<1>3. told => OnePicked(u)
  BY <1>1 DEF Fair, Alike, OnePicked
<1>4. QED
  BY <1>1, <1>2, <1>3 DEF Fair

LEMMA Marked ==
  ASSUME NEW t \in Seq(TreeItem), NEW i, NEW kids \in BOOLEAN, NEW open \in BOOLEAN
  PROVE  /\ Alike([t EXCEPT ![i].kids = kids, ![i].open = open], t)
         /\ Alike([t EXCEPT ![i].open = open], t)
         /\ Alike([t EXCEPT ![i].kids = kids], t)
         /\ Alike(t, t)
<1>1. /\ Len(t) \in Nat /\ DOMAIN t = 1..Len(t) /\ \A k \in 1..Len(t) : t[k] \in TreeItem
  BY ItemsType
<1>2. ASSUME NEW r \in TreeItem, NEW q,
             \/ q = [r EXCEPT !.kids = kids] \/ q = [r EXCEPT !.open = open]
             \/ q = [r EXCEPT !.kids = kids, !.open = open]
      PROVE  /\ q \in TreeItem /\ q.cls = r.cls /\ q.depth = r.depth
             /\ q.count = r.count /\ q.picked = r.picked
  BY <1>2 DEF TreeItem
<1>3. ASSUME NEW u,
             DOMAIN u = 1..Len(t),
             \A k \in 1..Len(t) : \/ u[k] = t[k] \/ u[k] = [t[k] EXCEPT !.kids = kids]
                                 \/ u[k] = [t[k] EXCEPT !.open = open]
                                 \/ u[k] = [t[k] EXCEPT !.kids = kids, !.open = open],
             \E f : u = [k \in 1..Len(t) |-> f[k]]
      PROVE  Alike(u, t)
  <2>1. \A k \in 1..Len(t) : /\ u[k] \in TreeItem /\ u[k].cls = t[k].cls
                             /\ u[k].depth = t[k].depth /\ u[k].count = t[k].count
                             /\ u[k].picked = t[k].picked
    BY <1>1, <1>2, <1>3
  <2>2. u \in Seq(TreeItem) /\ Len(u) = Len(t)
    <3>1. PICK f : u = [k \in 1..Len(t) |-> f[k]]
      BY <1>3
    <3>2. u \in [1..Len(t) -> TreeItem]
      BY <3>1, <2>1
    <3>3. QED
      BY <3>2, <1>1
  <2>3. QED
    BY <2>1, <2>2 DEF Alike
<1>4. Alike([t EXCEPT ![i].kids = kids], t)
  <2>1. PICK u : u = [t EXCEPT ![i].kids = kids]
    OBVIOUS
  <2>2. u = [k \in 1..Len(t) |-> IF k = i THEN [t[k] EXCEPT !.kids = kids] ELSE t[k]]
    BY <2>1, <1>1
  <2>3. Alike(u, t)
    BY <2>2, <1>3
  <2>4. QED
    BY <2>1, <2>3
<1>5. Alike([t EXCEPT ![i].open = open], t)
  <2>1. PICK u : u = [t EXCEPT ![i].open = open]
    OBVIOUS
  <2>2. u = [k \in 1..Len(t) |-> IF k = i THEN [t[k] EXCEPT !.open = open] ELSE t[k]]
    BY <2>1, <1>1
  <2>3. Alike(u, t)
    BY <2>2, <1>3
  <2>4. QED
    BY <2>1, <2>3
<1>6. Alike([t EXCEPT ![i].kids = kids, ![i].open = open], t)
  <2>1. PICK v : v = [t EXCEPT ![i].kids = kids]
    OBVIOUS
  <2>2. PICK u : u = [v EXCEPT ![i].open = open]
    OBVIOUS
  <2>3. v = [k \in 1..Len(t) |-> IF k = i THEN [t[k] EXCEPT !.kids = kids] ELSE t[k]]
    BY <2>1, <1>1
  <2>4. u = [k \in 1..Len(t) |-> IF k = i THEN [t[k] EXCEPT !.kids = kids, !.open = open] ELSE t[k]]
    BY <2>2, <2>3
  <2>5. Alike(u, t)
    BY <2>4, <1>3
  <2>6. QED
    BY <2>1, <2>2, <2>5
<1>7. Alike(t, t)
  BY <1>1 DEF Alike
<1>8. QED
  BY <1>4, <1>5, <1>6, <1>7

-----------------------------------------------------------------------------
(* The hierarchy of classes *)

Ontologies ==
  [live : SUBSET Class, supers : [Class -> SUBSET Class], types : [Individual -> SUBSET Class]]

LEMMA SuperClassesUp ==
  ASSUME NEW o \in Ontologies, NEW c \in Class
  PROVE  /\ SuperClasses(o, c) \subseteq Class /\ o.supers[c] \subseteq SuperClasses(o, c)
         /\ ClosedUpward(o, SuperClasses(o, c))
         /\ \A S \in SUBSET Class :
              o.supers[c] \subseteq S /\ ClosedUpward(o, S) => SuperClasses(o, c) \subseteq S
<1>1. o.supers \in [Class -> SUBSET Class]
  BY DEF Ontologies
<1>2. SuperClasses(o, c) \subseteq Class /\ o.supers[c] \subseteq SuperClasses(o, c)
  BY <1>1 DEF SuperClasses
<1>3. ASSUME NEW d \in SuperClasses(o, c), NEW e \in o.supers[d] PROVE e \in SuperClasses(o, c)
  <2>1. e \in Class /\ d \in Class
    BY <1>1, <1>2
  <2>2. ASSUME NEW S \in SUBSET Class, o.supers[c] \subseteq S, ClosedUpward(o, S) PROVE e \in S
    <3>1. d \in S
      BY <2>2 DEF SuperClasses
    <3>2. QED
      BY <3>1, <2>2 DEF ClosedUpward
  <2>3. QED
    BY <2>1, <2>2 DEF SuperClasses
<1>4. ClosedUpward(o, SuperClasses(o, c))
  BY <1>3 DEF ClosedUpward
<1>5. ASSUME NEW S \in SUBSET Class, o.supers[c] \subseteq S, ClosedUpward(o, S)
      PROVE  SuperClasses(o, c) \subseteq S
  BY <1>5 DEF SuperClasses
<1>6. QED
  BY <1>2, <1>4, <1>5

LEMMA SuperClassesNest ==
  ASSUME NEW o \in Ontologies, NEW c \in Class, NEW d \in SuperClasses(o, c)
  PROVE  SuperClasses(o, d) \subseteq SuperClasses(o, c)
<1>1. /\ SuperClasses(o, c) \in SUBSET Class /\ d \in Class
      /\ ClosedUpward(o, SuperClasses(o, c))
  BY SuperClassesUp
<1>2. o.supers[d] \subseteq SuperClasses(o, c)
  BY <1>1 DEF ClosedUpward
<1>3. QED
  BY <1>1, <1>2, SuperClassesUp

LEMMA SuperClassesShrink ==
  ASSUME NEW o \in Ontologies, NEW n \in Ontologies, NEW c \in Class,
         \A d \in SuperClasses(o, c) \cup {c} : n.supers[d] \subseteq o.supers[d]
  PROVE  SuperClasses(n, c) \subseteq SuperClasses(o, c)
<1>1. /\ SuperClasses(o, c) \in SUBSET Class /\ o.supers[c] \subseteq SuperClasses(o, c)
      /\ ClosedUpward(o, SuperClasses(o, c))
  BY SuperClassesUp
<1>2. n.supers[c] \subseteq SuperClasses(o, c) /\ ClosedUpward(n, SuperClasses(o, c))
  BY <1>1 DEF ClosedUpward
<1>3. QED
  BY <1>1, <1>2, SuperClassesUp

\* The ontologies of a user who neither renames nor gives second types:
\* without cycles, and every individual has one class.
Tame(o) ==
  /\ \A c \in Class : /\ o.supers[c] \subseteq o.live
                      /\ o.supers[c] # {} => c \in o.live
                      /\ c \notin SuperClasses(o, c)
  /\ \A x \in Individual : /\ o.types[x] \subseteq o.live
                           /\ \A c, d \in o.types[x] : c = d

LEMMA InstancesAre ==
  ASSUME NEW o \in Ontologies, Tame(o), NEW c \in Class
  PROVE  Instances(o, c) = {x \in Individual : c \in o.types[x]}
<1>1. SUFFICES ASSUME NEW x \in Individual
               PROVE  c \in Lowest(o, o.types[x]) <=> c \in o.types[x]
  BY DEF Instances
<1>2. c \in o.types[x] => \A d \in o.types[x] : d = c
  BY DEF Tame
<1>3. c \notin SuperClasses(o, c)
  BY DEF Tame
<1>4. QED
  BY <1>2, <1>3 DEF Lowest

LEMMA NumbersType ==
  ASSUME NEW o, NEW c
  PROVE  /\ IsFiniteSet(Instances(o, c)) /\ Instances(o, c) \subseteq Individual
         /\ NumInst(o, c) \in Nat /\ (NumInst(o, c) = 0 <=> Instances(o, c) = {})
<1>1. IsFiniteSet(Individual)
  BY ClassAssumption
<1>2. Instances(o, c) \subseteq Individual
  BY DEF Instances
<1>3. IsFiniteSet(Instances(o, c))
  BY <1>1, <1>2, FS_Subset
<1>4. QED
  BY <1>2, <1>3, FS_CardinalityType, FS_EmptySet DEF NumInst

\* Nothing changes in the numbers where the types do not.
LEMMA NumbersKept ==
  ASSUME NEW o \in Ontologies, Tame(o), NEW n \in Ontologies, Tame(n), n.types = o.types,
         NEW c \in Class
  PROVE  Instances(n, c) = Instances(o, c) /\ NumInst(n, c) = NumInst(o, c)
<1>1. Instances(n, c) = Instances(o, c)
  BY InstancesAre
<1>2. QED
  BY <1>1 DEF NumInst

LEMMA GivenTame == GivenOnt \in Ontologies /\ Tame(GivenOnt)
<1>1. /\ GivenOnt.live = ImportedClass /\ ImportedClass \in SUBSET Class
      /\ \A c \in Class : GivenOnt.supers[c] = IF c \in ImportedClass THEN Given[c] ELSE {}
      /\ \A x \in Individual : GivenOnt.types[x] = {}
      /\ Given \in [ImportedClass -> SUBSET ImportedClass]
  BY ClassAssumption DEF GivenOnt
<1>2. GivenOnt \in Ontologies
  <2>1. [c \in Class |-> IF c \in ImportedClass THEN Given[c] ELSE {}] \in [Class -> SUBSET Class]
    BY <1>1
  <2>2. QED
    BY <2>1, <1>1 DEF GivenOnt, Ontologies
<1>3. \A c \in Class : c \notin SuperClasses(GivenOnt, c)
  BY HierarchyAssumption
<1>4. QED
  BY <1>1, <1>2, <1>3 DEF Tame

(* A new class has no other above it but its superclass and those of that.  *)
LEMMA CreatedTame ==
  ASSUME NEW o \in Ontologies, Tame(o), NEW c \in Class, c \notin o.live, NEW s \in o.live,
         NEW n, n = [o EXCEPT !.live = @ \cup {c}, !.supers[c] = {s}]
  PROVE  n \in Ontologies /\ Tame(n)
<1>1. /\ o.live \in SUBSET Class /\ o.supers \in [Class -> SUBSET Class]
      /\ o.types \in [Individual -> SUBSET Class] /\ s \in Class
  BY DEF Ontologies
<1>2. /\ n \in Ontologies /\ n.live = o.live \cup {c} /\ n.types = o.types
      /\ \A d \in Class : n.supers[d] = IF d = c THEN {s} ELSE o.supers[d]
  <2>1. /\ n.live = o.live \cup {c} /\ n.supers = [o.supers EXCEPT ![c] = {s}] /\ n.types = o.types
        /\ n = [live |-> n.live, supers |-> n.supers, types |-> n.types]
    BY DEF Ontologies
  <2>2. /\ [o.supers EXCEPT ![c] = {s}] \in [Class -> SUBSET Class]
        /\ \A d \in Class : [o.supers EXCEPT ![c] = {s}][d] = IF d = c THEN {s} ELSE o.supers[d]
    BY <1>1
  <2>3. n \in Ontologies
    BY <2>1, <2>2, <1>1 DEF Ontologies
  <2>4. QED
    BY <2>1, <2>2, <2>3
<1>3. ASSUME NEW d \in Class PROVE d \notin SuperClasses(n, d)
  <2>1. \A e \in Class : o.supers[e] \subseteq o.live /\ (o.supers[e] # {} => e \in o.live)
    BY DEF Tame
  <2>2. CASE d = c
    <3>1. n.supers[c] \subseteq o.live /\ ClosedUpward(n, o.live)
      BY <1>1, <1>2, <2>1 DEF ClosedUpward
    <3>2. SuperClasses(n, c) \subseteq o.live
      BY <3>1, <1>1, <1>2, SuperClassesUp
    <3>3. QED
      BY <2>2, <3>2
  <2>3. CASE d # c
    <3>1. c \notin SuperClasses(o, d)
      <4>1. o.supers[d] \subseteq o.live /\ ClosedUpward(o, o.live)
        BY <1>1, <2>1 DEF ClosedUpward
      <4>2. QED
        BY <4>1, <1>1, SuperClassesUp
    <3>2. SuperClasses(o, d) \subseteq Class
      BY SuperClassesUp
    <3>3. \A e \in SuperClasses(o, d) \cup {d} : n.supers[e] \subseteq o.supers[e]
      BY <2>3, <3>1, <3>2, <1>2
    <3>4. SuperClasses(n, d) \subseteq SuperClasses(o, d)
      BY <3>3, <1>2, SuperClassesShrink
    <3>5. QED
      BY <3>4 DEF Tame
  <2>4. QED
    BY <2>2, <2>3
<1>4. ASSUME NEW d \in Class
      PROVE  n.supers[d] \subseteq n.live /\ (n.supers[d] # {} => d \in n.live)
  BY <1>2 DEF Tame
<1>5. \A x \in Individual : n.types[x] \subseteq n.live /\ \A a, b \in n.types[x] : a = b
  BY <1>2 DEF Tame
<1>6. QED
  BY <1>2, <1>3, <1>4, <1>5 DEF Tame

(* Taking classes and statements away keeps an ontology tame.               *)
LEMMA LessTame ==
  ASSUME NEW o \in Ontologies, Tame(o), NEW n \in Ontologies, n.live \subseteq o.live,
         \A d \in Class : /\ n.supers[d] \subseteq o.supers[d] /\ n.supers[d] \subseteq n.live
                          /\ n.supers[d] # {} => d \in n.live,
         \A x \in Individual : n.types[x] \subseteq o.types[x] /\ n.types[x] \subseteq n.live
  PROVE  Tame(n)
<1>1. ASSUME NEW d \in Class PROVE d \notin SuperClasses(n, d)
  <2>1. SuperClasses(o, d) \subseteq Class
    BY SuperClassesUp
  <2>2. \A e \in SuperClasses(o, d) \cup {d} : n.supers[e] \subseteq o.supers[e]
    BY <2>1
  <2>3. SuperClasses(n, d) \subseteq SuperClasses(o, d)
    BY <2>2, SuperClassesShrink
  <2>4. QED
    BY <2>3 DEF Tame
<1>2. \A x \in Individual : \A a, b \in n.types[x] : a = b
  BY DEF Tame
<1>3. QED
  BY <1>1, <1>2 DEF Tame

\* The classes are what the deletion of c leaves; it has no instances.
LEMMA DeletedTame ==
  ASSUME NEW o \in Ontologies, NEW c \in Class
  PROVE  /\ Deleted(o, c) \in Ontologies
         /\ Tame(o) /\ Instances(o, c) = {} => Tame(Deleted(o, c)) /\ Deleted(o, c).types = o.types
<1>1. /\ o.live \in SUBSET Class /\ o.supers \in [Class -> SUBSET Class]
      /\ o.types \in [Individual -> SUBSET Class]
  BY DEF Ontologies
<1>2. PICK n : n = Deleted(o, c)
  OBVIOUS
<1>3. /\ n.live = o.live \ {c}
      /\ n.supers = [d \in Class |-> IF d = c THEN {} ELSE o.supers[d] \ {c}]
      /\ n.types = [x \in Individual |-> o.types[x] \ {c}]
      /\ n = [live |-> n.live, supers |-> n.supers, types |-> n.types]
  BY <1>2 DEF Deleted
<1>4. /\ \A d \in Class : n.supers[d] = IF d = c THEN {} ELSE o.supers[d] \ {c}
      /\ \A x \in Individual : n.types[x] = o.types[x] \ {c}
  BY <1>3
<1>5. n \in Ontologies
  <2>1. /\ [d \in Class |-> IF d = c THEN {} ELSE o.supers[d] \ {c}] \in [Class -> SUBSET Class]
        /\ [x \in Individual |-> o.types[x] \ {c}] \in [Individual -> SUBSET Class]
    BY <1>1
  <2>2. QED
    BY <2>1, <1>1, <1>3 DEF Ontologies
<1>6. ASSUME Tame(o), Instances(o, c) = {} PROVE Tame(n) /\ n.types = o.types
  <2>1. \A x \in Individual : c \notin o.types[x]
    BY <1>6, InstancesAre
  <2>2. n.types = o.types
    <3>1. n.types = [x \in Individual |-> o.types[x]]
      BY <2>1, <1>3
    <3>2. [x \in Individual |-> o.types[x]] = o.types
      BY <1>1
    <3>3. QED
      BY <3>1, <3>2
  <2>3. /\ \A d \in Class : /\ n.supers[d] \subseteq o.supers[d] /\ n.supers[d] \subseteq n.live
                            /\ n.supers[d] # {} => d \in n.live
        /\ \A x \in Individual : n.types[x] \subseteq o.types[x] /\ n.types[x] \subseteq n.live
    BY <1>6, <1>3, <1>4, <2>1 DEF Tame
  <2>4. Tame(n)
    BY <1>3, <1>5, <1>6, <2>3, LessTame
  <2>5. QED
    BY <2>2, <2>4
<1>7. QED
  BY <1>2, <1>5, <1>6

LEMMA FewerTame ==
  ASSUME NEW o \in Ontologies, NEW c \in Class, NEW s,
         NEW n, n = [o EXCEPT !.supers[c] = @ \ {s}]
  PROVE  n \in Ontologies /\ (Tame(o) => Tame(n) /\ n.types = o.types)
<1>1. /\ o.live \in SUBSET Class /\ o.supers \in [Class -> SUBSET Class]
      /\ o.types \in [Individual -> SUBSET Class]
  BY DEF Ontologies
<1>2. /\ n \in Ontologies /\ n.live = o.live /\ n.types = o.types
      /\ \A d \in Class : n.supers[d] \subseteq o.supers[d]
  <2>1. /\ n.live = o.live /\ n.supers = [o.supers EXCEPT ![c] = o.supers[c] \ {s}]
        /\ n.types = o.types /\ n = [live |-> n.live, supers |-> n.supers, types |-> n.types]
    BY DEF Ontologies
  <2>2. /\ [o.supers EXCEPT ![c] = o.supers[c] \ {s}] \in [Class -> SUBSET Class]
        /\ \A d \in Class : [o.supers EXCEPT ![c] = o.supers[c] \ {s}][d] \subseteq o.supers[d]
    BY <1>1
  <2>3. n \in Ontologies
    BY <2>1, <2>2, <1>1 DEF Ontologies
  <2>4. QED
    BY <2>1, <2>2, <2>3
<1>3. ASSUME Tame(o) PROVE Tame(n)
  <2>1. /\ \A d \in Class : /\ n.supers[d] \subseteq o.supers[d] /\ n.supers[d] \subseteq n.live
                            /\ n.supers[d] # {} => d \in n.live
        /\ \A x \in Individual : n.types[x] \subseteq o.types[x] /\ n.types[x] \subseteq n.live
    BY <1>2, <1>3 DEF Tame
  <2>2. QED
    BY <2>1, <1>2, <1>3, LessTame
<1>4. QED
  BY <1>2, <1>3

(* The editor makes no cycles: what gets new superclasses is c and what is  *)
(* below c, and none of these is above s.                                   *)
LEMMA MoreTame ==
  ASSUME NEW o \in Ontologies, NEW c \in o.live, NEW s \in o.live, c # s,
         c \notin SuperClasses(o, s), NEW n, n = [o EXCEPT !.supers[c] = @ \cup {s}]
  PROVE  n \in Ontologies /\ (Tame(o) => Tame(n) /\ n.types = o.types)
<1>1. /\ o.live \in SUBSET Class /\ o.supers \in [Class -> SUBSET Class]
      /\ o.types \in [Individual -> SUBSET Class] /\ c \in Class /\ s \in Class
  BY DEF Ontologies
<1>2. /\ n \in Ontologies /\ n.live = o.live /\ n.types = o.types
      /\ \A d \in Class : n.supers[d] = IF d = c THEN o.supers[c] \cup {s} ELSE o.supers[d]
  <2>1. /\ n.live = o.live /\ n.supers = [o.supers EXCEPT ![c] = o.supers[c] \cup {s}]
        /\ n.types = o.types /\ n = [live |-> n.live, supers |-> n.supers, types |-> n.types]
    BY DEF Ontologies
  <2>2. /\ [o.supers EXCEPT ![c] = o.supers[c] \cup {s}] \in [Class -> SUBSET Class]
        /\ \A d \in Class : [o.supers EXCEPT ![c] = o.supers[c] \cup {s}][d]
                              = IF d = c THEN o.supers[c] \cup {s} ELSE o.supers[d]
    BY <1>1
  <2>3. n \in Ontologies
    BY <2>1, <2>2, <1>1 DEF Ontologies
  <2>4. QED
    BY <2>1, <2>2, <2>3
<1> SUFFICES ASSUME Tame(o) PROVE Tame(n)
  BY <1>2
<1>3. \A d \in Class : /\ o.supers[d] \subseteq o.live
                       /\ o.supers[d] # {} => d \in o.live
                       /\ d \notin SuperClasses(o, d)
  BY DEF Tame
<1> DEFINE U == SuperClasses(o, c) \cup {s} \cup SuperClasses(o, s)
<1>4. /\ SuperClasses(o, c) \subseteq Class /\ ClosedUpward(o, SuperClasses(o, c))
      /\ o.supers[c] \subseteq SuperClasses(o, c)
      /\ SuperClasses(o, s) \subseteq Class /\ ClosedUpward(o, SuperClasses(o, s))
      /\ o.supers[s] \subseteq SuperClasses(o, s)
  BY <1>1, SuperClassesUp
<1>5. U \in SUBSET Class /\ n.supers[c] \subseteq U /\ ClosedUpward(o, U) /\ c \notin U
  <2>1. U \in SUBSET Class /\ n.supers[c] \subseteq U
    BY <1>1, <1>2, <1>4
  <2>2. ClosedUpward(o, U)
    BY <1>4 DEF ClosedUpward
  <2>3. c \notin U
    BY <1>1, <1>3
  <2>4. QED
    BY <2>1, <2>2, <2>3
<1>6. ASSUME NEW d \in U PROVE c \notin SuperClasses(o, d)
  <2>1. SUFFICES ASSUME c \in SuperClasses(o, d) PROVE FALSE
    OBVIOUS
  <2>2. CASE d \in SuperClasses(o, c)
    BY <2>1, <2>2, <1>1, <1>3, SuperClassesNest
  <2>3. CASE d = s
    BY <2>1, <2>3
  <2>4. CASE d \in SuperClasses(o, s)
    BY <2>1, <2>4, <1>1, SuperClassesNest
  <2>5. QED
    BY <2>2, <2>3, <2>4, <1>6
<1> HIDE DEF U
<1>7. ASSUME NEW d \in Class PROVE d \notin SuperClasses(n, d)
  <2>1. /\ SuperClasses(o, d) \in SUBSET Class /\ ClosedUpward(o, SuperClasses(o, d))
        /\ o.supers[d] \subseteq SuperClasses(o, d)
    BY SuperClassesUp
  <2>2. CASE d # c /\ c \notin SuperClasses(o, d)
    <3>1. \A e \in SuperClasses(o, d) \cup {d} : n.supers[e] \subseteq o.supers[e]
      BY <2>1, <2>2, <1>2
    <3>2. SuperClasses(n, d) \subseteq SuperClasses(o, d)
      BY <3>1, <1>2, SuperClassesShrink
    <3>3. QED
      BY <3>2, <1>3
  <2>3. CASE d = c
    <3>1. ClosedUpward(n, U)
      BY <1>2, <1>5 DEF ClosedUpward
    <3>2. SuperClasses(n, c) \subseteq U
      BY <3>1, <1>1, <1>2, <1>5, SuperClassesUp
    <3>3. QED
      BY <2>3, <3>2, <1>5
  <2>4. CASE d # c /\ c \in SuperClasses(o, d)
    <3> DEFINE V == SuperClasses(o, d) \cup U
    <3>1. V \in SUBSET Class /\ n.supers[d] \subseteq V
      BY <2>1, <2>4, <1>2, <1>5
    <3>2. ClosedUpward(n, V)
      <4>1. SUFFICES ASSUME NEW x \in V PROVE n.supers[x] \subseteq V
        BY DEF ClosedUpward
      <4>2. CASE x = c
        BY <4>2, <1>5
      <4>3. CASE x # c
        <5>1. n.supers[x] = o.supers[x]
          BY <4>1, <4>3, <3>1, <1>2
        <5>2. QED
          BY <5>1, <4>1, <2>1, <1>5 DEF ClosedUpward
      <4>4. QED
        BY <4>2, <4>3
    <3> HIDE DEF V
    <3>3. SuperClasses(n, d) \subseteq V
      BY <3>1, <3>2, <1>2, SuperClassesUp
    <3>4. d \notin V
      BY <2>4, <1>3, <1>6 DEF V
    <3>5. QED
      BY <3>3, <3>4
  <2>5. QED
    BY <2>2, <2>3, <2>4
<1>8. \A d \in Class : n.supers[d] \subseteq n.live /\ (n.supers[d] # {} => d \in n.live)
  BY <1>2, <1>3
<1>9. \A x \in Individual : n.types[x] \subseteq n.live /\ \A a, b \in n.types[x] : a = b
  BY <1>2 DEF Tame
<1>10. QED
  BY <1>7, <1>8, <1>9 DEF Tame

Retyped(n, o, x, T) == n = [o EXCEPT !.types[x] = T]

Single(o, T) == T \subseteq o.live /\ \A c, d \in T : c = d

(* An individual gets its class, or loses it.                               *)
LEMMA TypedTame ==
  ASSUME NEW o \in Ontologies, NEW x \in Individual, NEW T \in SUBSET Class,
         NEW n, Retyped(n, o, x, T)
  PROVE  /\ n \in Ontologies /\ n.live = o.live
         /\ \A y \in Individual : n.types[y] = IF y = x THEN T ELSE o.types[y]
         /\ (Tame(o) /\ Single(o, T) => Tame(n))
<1>1. /\ o.live \in SUBSET Class /\ o.supers \in [Class -> SUBSET Class]
      /\ o.types \in [Individual -> SUBSET Class]
  BY DEF Ontologies
<1>2. /\ n \in Ontologies /\ n.live = o.live /\ n.supers = o.supers
      /\ \A y \in Individual : n.types[y] = IF y = x THEN T ELSE o.types[y]
  <2>1. /\ n.live = o.live /\ n.supers = o.supers /\ n.types = [o.types EXCEPT ![x] = T]
        /\ n = [live |-> n.live, supers |-> n.supers, types |-> n.types]
    BY DEF Ontologies, Retyped
  <2>2. /\ [o.types EXCEPT ![x] = T] \in [Individual -> SUBSET Class]
        /\ \A y \in Individual : [o.types EXCEPT ![x] = T][y] = IF y = x THEN T ELSE o.types[y]
    BY <1>1
  <2>3. n \in Ontologies
    BY <2>1, <2>2, <1>1 DEF Ontologies
  <2>4. QED
    BY <2>1, <2>2, <2>3
<1>3. \A c \in Class : SuperClasses(n, c) = SuperClasses(o, c)
  BY <1>2 DEF SuperClasses, ClosedUpward
<1>4. ASSUME Tame(o), Single(o, T) PROVE Tame(n)
  <2>1. \A c \in Class : /\ n.supers[c] \subseteq n.live
                         /\ n.supers[c] # {} => c \in n.live
                         /\ c \notin SuperClasses(n, c)
    BY <1>2, <1>3, <1>4 DEF Tame
  <2>2. \A y \in Individual : n.types[y] \subseteq n.live /\ \A a, b \in n.types[y] : a = b
    BY <1>2, <1>4 DEF Tame, Single
  <2>3. QED
    BY <2>1, <2>2 DEF Tame
<1>5. QED
  BY <1>2, <1>4

-----------------------------------------------------------------------------
(* What is done to a tree keeps it fair *)

LEMMA NothingFresh == \A told, o : Fresh(told, o, <<>>)
  BY EmptySeq DEF Fresh

LEMMA CutIs ==
  ASSUME NEW t \in Seq(TreeItem), NEW a \in Nat, NEW b \in Nat, a <= b, b <= Len(t)
  PROVE  Spliced(SubSeq(t, 1, a) \o SubSeq(t, b + 1, Len(t)), t, a, <<>>, b)
<1>1. Spliced(SubSeq(t, 1, a) \o <<>> \o SubSeq(t, b + 1, Len(t)), t, a, <<>>, b)
  BY SpliceIs, EmptySeq
<1>2. SubSeq(t, 1, a) \in Seq(TreeItem)
  <2>1. Len(t) \in Nat /\ \A k \in 1..a : t[k] \in TreeItem
    BY ItemsType
  <2>2. QED
    BY <2>1
<1>3. SubSeq(t, 1, a) \o <<>> = SubSeq(t, 1, a)
  BY <1>2, ConcatEmptySeq
<1>4. QED
  BY <1>1, <1>3

LEMMA EmptiedFair ==
  ASSUME NEW told, NEW o, NEW t, Fair(told, o, t), NEW i \in DOMAIN t
  PROVE  Fair(told, o, Emptied(t, i)) /\ i \in DOMAIN Emptied(t, i) /\ Emptied(t, i)[i] = t[i]
<1>1. /\ t \in Seq(TreeItem) /\ Len(t) \in Nat /\ i \in 1..Len(t)
      /\ LastUnder(t, i) \in i..Len(t)
  BY ItemsType, LastUnderIs DEF Fair
<1>2. PICK b \in Nat : b = LastUnder(t, i) /\ i <= b /\ b <= Len(t)
  BY <1>1
<1>3. PICK u : u = Emptied(t, i)
  OBVIOUS
<1>4. Spliced(u, t, i, <<>>, b)
  BY <1>1, <1>2, <1>3, CutIs DEF Emptied
<1>5. i \in Nat
  BY <1>1
<1>6. Fair(told, o, u)
  BY <1>2, <1>4, <1>5, SplicedFair, NothingFresh
<1>7. i \in DOMAIN u /\ u[i] = t[i]
  <2>1. Len(u) = i + 0 + (Len(t) - b) /\ u \in Seq(TreeItem)
    BY <1>4, EmptySeq DEF Spliced
  <2>2. i \in 1..Len(u) /\ DOMAIN u = 1..Len(u)
    BY <2>1, <1>1, <1>2
  <2>3. \/ i <= i /\ u[i] = t[i]
        \/ i > i
        \/ i > i + 0
    BY <2>2, <1>4, EmptySeq DEF Spliced
  <2>4. QED
    BY <2>2, <2>3, <1>5
<1>8. QED
  BY <1>3, <1>6, <1>7

LEMMA AppendedFair ==
  ASSUME NEW told, NEW o, NEW t, Fair(told, o, t), NEW i \in DOMAIN t, NEW w, Fresh(told, o, w)
  PROVE  /\ Fair(told, o, Appended(t, i, w)) /\ i \in DOMAIN Appended(t, i, w)
         /\ Appended(t, i, w)[i] = t[i]
<1>1. /\ t \in Seq(TreeItem) /\ Len(t) \in Nat /\ i \in 1..Len(t) /\ w \in Seq(TreeItem)
      /\ LastUnder(t, i) \in i..Len(t) /\ Len(w) \in Nat
  BY ItemsType, LastUnderIs DEF Fair, Fresh
<1>2. PICK b \in Nat : b = LastUnder(t, i) /\ i <= b /\ b <= Len(t)
  BY <1>1
<1>3. PICK u : u = Appended(t, i, w)
  OBVIOUS
<1>4. Spliced(u, t, b, w, b)
  BY <1>1, <1>2, <1>3, SpliceIs DEF Appended
<1>5. i \in Nat
  BY <1>1
<1>6. Fair(told, o, u)
  BY <1>2, <1>4, SplicedFair
<1>7. i \in DOMAIN u /\ u[i] = t[i]
  <2>1. Len(u) = b + Len(w) + (Len(t) - b) /\ u \in Seq(TreeItem)
    BY <1>4 DEF Spliced
  <2>2. i \in 1..Len(u) /\ DOMAIN u = 1..Len(u)
    BY <2>1, <1>1, <1>2
  <2>3. \/ i <= b /\ u[i] = t[i]
        \/ i > b
        \/ i > b + Len(w)
    BY <2>2, <1>4 DEF Spliced
  <2>4. QED
    BY <2>2, <2>3, <1>1, <1>2
<1>8. QED
  BY <1>3, <1>6, <1>7

LEMMA CheckedFair ==
  ASSUME NEW told, NEW o, NEW t, Fair(told, o, t), NEW i \in DOMAIN t
  PROVE  Fair(told, o, CheckAndRemove(t, i))
<1>1. /\ t \in Seq(TreeItem) /\ Len(t) \in Nat /\ i \in 1..Len(t)
      /\ LastUnder(t, i) \in i..Len(t)
  BY ItemsType, LastUnderIs DEF Fair
<1>2. PICK b \in Nat, a \in Nat : b = LastUnder(t, i) /\ a = i - 1 /\ a <= b /\ b <= Len(t)
  BY <1>1
<1>3. PICK u : u = SubSeq(t, 1, i - 1) \o SubSeq(t, LastUnder(t, i) + 1, Len(t))
  OBVIOUS
<1>4. Spliced(u, t, a, <<>>, b)
  BY <1>1, <1>2, <1>3, CutIs
<1>5. Fair(told, o, u)
  BY <1>2, <1>4, SplicedFair, NothingFresh
<1>6. PICK p : p = ItemAbove(t, i)
  OBVIOUS
<1>7. Alike([u EXCEPT ![p].kids = FALSE, ![p].open = FALSE], u)
  BY <1>5, Marked DEF Fair
<1>8. Fair(told, o, [u EXCEPT ![p].kids = FALSE, ![p].open = FALSE])
  BY <1>5, <1>7, AlikeFair
<1>9. CheckAndRemove(t, i) = IF p # 0 /\ Children(u, p) = {}
                             THEN [u EXCEPT ![p].kids = FALSE, ![p].open = FALSE] ELSE u
  BY <1>3, <1>6 DEF CheckAndRemove
<1>10. QED
  BY <1>5, <1>8, <1>9

\* What is kept of a tree when a row is made the current one.
LEMMA PickFair ==
  ASSUME NEW told, NEW o, NEW t, Fair(told, o, t), NEW i
  PROVE  /\ Fair(told, o, Pick(t, i)) /\ DOMAIN Pick(t, i) = DOMAIN t
         /\ \A k \in DOMAIN t : Pick(t, i)[k].cls = t[k].cls
         /\ i \in DOMAIN t => Picked(Pick(t, i)) = {i}
<1>1. t \in Seq(TreeItem) /\ Len(t) \in Nat /\ DOMAIN t = 1..Len(t) /\ \A k \in 1..Len(t) : t[k] \in TreeItem
  BY ItemsType DEF Fair
<1>2. PICK u : u = Pick(t, i)
  OBVIOUS
<1>3. ASSUME NEW r \in TreeItem, NEW b \in BOOLEAN
      PROVE  /\ [r EXCEPT !.picked = b] \in TreeItem /\ [r EXCEPT !.picked = b].cls = r.cls
             /\ [r EXCEPT !.picked = b].count = r.count /\ [r EXCEPT !.picked = b].picked = b
  BY DEF TreeItem
<1>4. DOMAIN u = 1..Len(t) /\ \A k \in 1..Len(t) : u[k] = [t[k] EXCEPT !.picked = (k = i)]
  BY <1>1, <1>2 DEF Pick
<1>5. \A k \in 1..Len(t) : /\ u[k] \in TreeItem /\ u[k].cls = t[k].cls
                           /\ u[k].count = t[k].count /\ u[k].picked = (k = i)
  <2>1. SUFFICES ASSUME NEW k \in 1..Len(t)
                 PROVE  /\ u[k] \in TreeItem /\ u[k].cls = t[k].cls
                        /\ u[k].count = t[k].count /\ u[k].picked = (k = i)
    OBVIOUS
  <2>2. PICK b \in BOOLEAN : b = (k = i)
    OBVIOUS
  <2>3. u[k] = [t[k] EXCEPT !.picked = b] /\ t[k] \in TreeItem
    BY <1>1, <1>4, <2>2
  <2>4. QED
    BY <1>3, <2>2, <2>3
<1>6. u \in Seq(TreeItem)
  <2>1. u \in [1..Len(t) -> TreeItem]
    BY <1>1, <1>2, <1>5 DEF Pick
  <2>2. QED
    BY <2>1, <1>1
<1>7. told => Counted(o, u)
  BY <1>1, <1>4, <1>5 DEF Fair, Counted
<1>8. OnePicked(u)
  BY <1>4, <1>5 DEF OnePicked
<1>9. i \in DOMAIN t => Picked(u) = {i}
  BY <1>1, <1>4, <1>5 DEF Picked
<1>10. QED
  BY <1>1, <1>2, <1>4, <1>5, <1>6, <1>7, <1>8, <1>9 DEF Fair

LEMMA NewItemIs ==
  ASSUME NEW o, NEW c \in Class, NEW d \in Nat
  PROVE  /\ NewItem(o, c, d) \in TreeItem /\ NewItem(o, c, d).count = NumInst(o, c)
         /\ NewItem(o, c, d).cls = c /\ NewItem(o, c, d).picked = FALSE
  BY NumbersType DEF NewItem, TreeItem

LEMMA LevelFresh ==
  ASSUME NEW told, NEW o \in Ontologies, NEW c, NEW d \in Nat
  PROVE  Fresh(told, o, SetToSeq({NewItem(o, e, d) : e \in DirectSubClasses(o, c)}))
<1>1. DirectSubClasses(o, c) \subseteq Class
  BY DEF DirectSubClasses, Ontologies
<1>2. PICK S : S = {NewItem(o, e, d) : e \in DirectSubClasses(o, c)}
  OBVIOUS
<1>3. IsFiniteSet(S)
  <2>1. IsFiniteSet(Class)
    BY ClassAssumption
  <2>2. IsFiniteSet(DirectSubClasses(o, c))
    BY <1>1, <2>1, FS_Subset
  <2> DEFINE f == [e \in DirectSubClasses(o, c) |-> NewItem(o, e, d)]
  <2>3. f \in Surjection(DirectSubClasses(o, c), S)
    BY <1>2 DEF Surjection
  <2> HIDE DEF f
  <2>4. QED
    BY <2>2, <2>3, FS_Surjection
<1>4. ASSUME NEW r \in S PROVE r \in TreeItem /\ r.count = NumInst(o, r.cls) /\ r.picked = FALSE
  <2>1. PICK e \in DirectSubClasses(o, c) : r = NewItem(o, e, d)
    BY <1>2
  <2>2. e \in Class
    BY <1>1
  <2>3. /\ NewItem(o, e, d) \in TreeItem /\ NewItem(o, e, d).count = NumInst(o, e)
        /\ NewItem(o, e, d).cls = e /\ NewItem(o, e, d).picked = FALSE
    BY <2>2, NewItemIs
  <2>4. QED
    BY <2>1, <2>3
<1>5. /\ SetToSeq(S) \in [1..Cardinality(S) -> S] /\ Cardinality(S) \in Nat
  BY <1>3, Listed
<1>6. PICK w, n : w = SetToSeq(S) /\ n = Cardinality(S) /\ n \in Nat
  BY <1>5
<1>7. w \in [1..n -> S]
  BY <1>5, <1>6
<1>8. w \in Seq(TreeItem) /\ Len(w) = n
  <2>1. w \in [1..n -> TreeItem]
    BY <1>4, <1>7
  <2>2. QED
    BY <2>1, <1>6
<1>9. \A k \in 1..Len(w) : w[k].count = NumInst(o, w[k].cls) /\ ~w[k].picked
  BY <1>4, <1>7, <1>8
<1>10. Fresh(told, o, w)
  BY <1>8, <1>9 DEF Fresh
<1>11. QED
  BY <1>2, <1>6, <1>10

LEMMA LevelFair ==
  ASSUME NEW told, NEW o \in Ontologies, NEW t, Fair(told, o, t), NEW i \in DOMAIN t
  PROVE  /\ Fair(told, o, SubClassesTree(o, t, i)) /\ i \in DOMAIN SubClassesTree(o, t, i)
         /\ SubClassesTree(o, t, i)[i] = t[i]
<1>1. t[i].depth + 1 \in Nat
  BY ItemsType DEF Fair
<1>2. PICK w : w = SetToSeq({NewItem(o, c, t[i].depth + 1) : c \in DirectSubClasses(o, t[i].cls)})
  OBVIOUS
<1>3. Fresh(told, o, w)
  BY <1>1, <1>2, LevelFresh
<1>4. SubClassesTree(o, t, i) = Appended(t, i, w)
  BY <1>2 DEF SubClassesTree, SubClassItems
<1>5. QED
  BY <1>3, <1>4, AppendedFair

\* The numbers of all items but those of c are right, and there is at most
\* one current row.
Almost(o, t, c) ==
  /\ t \in Seq(TreeItem) /\ OnePicked(t)
  /\ \A k \in DOMAIN t : t[k].cls # c => t[k].count = NumInst(o, t[k].cls)

\* The list of instances: nothing without a class, else its instances.
Listing(o, l) ==
  IF l.cls = NoClass THEN l.insts = {} ELSE l.insts = Instances(o, l.cls)

Lists == [cls : Class \cup {NoClass}, insts : SUBSET Individual]

LEMMA ShownFair ==
  ASSUME NEW told, NEW o \in Ontologies, NEW t \in Seq(TreeItem), NEW c,
         told => Almost(o, t, c) /\ c \in o.live
  PROVE  /\ Fair(told, o, InstancesShown(o, t, c)) /\ DOMAIN InstancesShown(o, t, c) = DOMAIN t
         /\ \A k \in DOMAIN t : /\ InstancesShown(o, t, c)[k].cls = t[k].cls
                                /\ InstancesShown(o, t, c)[k].picked = t[k].picked
<1>1. Len(t) \in Nat /\ DOMAIN t = 1..Len(t) /\ \A k \in 1..Len(t) : t[k] \in TreeItem
  BY ItemsType
<1>2. PICK u : u = InstancesShown(o, t, c)
  OBVIOUS
<1>3. /\ DOMAIN u = 1..Len(t)
      /\ \A k \in 1..Len(t) : u[k] = IF t[k].cls = c /\ c \in o.live
                                     THEN [t[k] EXCEPT !.count = NumInst(o, c)] ELSE t[k]
  BY <1>1, <1>2 DEF InstancesShown
<1>4. ASSUME NEW r \in TreeItem, NEW n \in Nat
      PROVE  /\ [r EXCEPT !.count = n] \in TreeItem /\ [r EXCEPT !.count = n].cls = r.cls
             /\ [r EXCEPT !.count = n].count = n /\ [r EXCEPT !.count = n].picked = r.picked
  BY DEF TreeItem
<1>5. ASSUME NEW k \in 1..Len(t)
      PROVE  /\ u[k] \in TreeItem /\ u[k].cls = t[k].cls /\ u[k].picked = t[k].picked
             /\ u[k].count = IF t[k].cls = c /\ c \in o.live THEN NumInst(o, c) ELSE t[k].count
  <2>1. PICK n \in Nat : n = NumInst(o, c)
    BY NumbersType
  <2>2. CASE t[k].cls = c /\ c \in o.live
    <3>1. u[k] = [t[k] EXCEPT !.count = n] /\ t[k] \in TreeItem
      BY <1>1, <1>3, <2>1, <2>2
    <3>2. QED
      BY <3>1, <1>4, <2>1, <2>2
  <2>3. CASE ~(t[k].cls = c /\ c \in o.live)
    BY <1>1, <1>3, <2>3
  <2>4. QED
    BY <2>2, <2>3
<1>6. u \in Seq(TreeItem)
  <2>1. u \in [1..Len(t) -> TreeItem]
    BY <1>1, <1>2, <1>5 DEF InstancesShown
  <2>2. QED
    BY <2>1, <1>1
<1>7. told => Counted(o, u)
  BY <1>1, <1>3, <1>5 DEF Counted, Almost
<1>8. told => OnePicked(u)
  BY <1>1, <1>3, <1>5 DEF OnePicked, Almost
<1>9. QED
  BY <1>1, <1>2, <1>3, <1>5, <1>6, <1>7, <1>8 DEF Fair

LEMMA FairAlmost ==
  ASSUME NEW o, NEW t, Fair(TRUE, o, t), NEW c
  PROVE  Almost(o, t, c)
  BY DEF Fair, Almost, Counted

LEMMA ListOfIs ==
  ASSUME NEW o, NEW c \in Class, list \in Lists
  PROVE  /\ ListOf(o, c) \in Lists
         /\ c \in o.live \/ Listing(o, list) => Listing(o, ListOf(o, c))
<1>1. Instances(o, c) \subseteq Individual /\ c # NoClass
  BY NumbersType, ClassAssumption
<1>2. QED
  BY <1>1 DEF ListOf, Lists, Listing

-----------------------------------------------------------------------------
(* The loops over the live list *)

FairTrees(told, o) == {t \in Seq(TreeItem) : Fair(told, o, t)}

Removing(f, t, c, N) ==
  f = [n \in 0..N |-> IF n = 0 THEN t ELSE RemovingTurn(f[n - 1], n, c)]

\* removedClass, turn by turn.
RemovedBy(h, t, c, N) ==
  /\ h[0] = t /\ \A n \in 1..N : h[n] = RemovingTurn(h[n - 1], n, c)
  /\ RemovedClass(t, c) = h[N]

LEMMA RemovedTurns ==
  ASSUME NEW t \in Seq(TreeItem), NEW N \in Nat, N = Len(t), NEW c
  PROVE  \E h : RemovedBy(h, t, c, N)
<1>1. PICK S, a : S = Seq(TreeItem) /\ a = t
  OBVIOUS
<1>2. ASSUME NEW s \in S, NEW n \in 1..N PROVE RemovingTurn(s, n, c) \in S
  <2>1. Fair(FALSE, GivenOnt, s) /\ DOMAIN s = 1..Len(s) /\ Len(s) \in Nat
    BY <1>1, ItemsType DEF Fair
  <2>2. n <= Len(s) => n \in DOMAIN s
    BY <2>1
  <2>3. n <= Len(s) => Fair(FALSE, GivenOnt, CheckAndRemove(s, n))
    BY <2>1, <2>2, CheckedFair
  <2>4. QED
    BY <2>1, <2>3, <1>1 DEF RemovingTurn, Fair
<1> DEFINE g == [p \in S \X (1..N) |-> RemovingTurn(p[1], p[2], c)]
<1>3. \A s \in S, n \in 1..N : g[<<s, n>>] = RemovingTurn(s, n, c)
  OBVIOUS
<1> HIDE DEF g
<1>4. PICK f \in [0..N -> S] : Repeats(f, g, a, N)
  <2>1. StaysIn(g, S, N) /\ a \in S
    BY <1>1, <1>2, <1>3 DEF StaysIn
  <2>2. QED
    BY <2>1, TurnsExist
<1>5. Removing(f, t, c, N)
  <2>1. ASSUME NEW n \in 1..N PROVE f[n] = RemovingTurn(f[n - 1], n, c)
    <3>1. n - 1 \in 0..N
      OBVIOUS
    <3>2. f[n - 1] \in S
      BY <3>1, <1>4
    <3>3. QED
      BY <3>2, <1>3, <1>4 DEF Repeats
  <2>2. f[0] = t /\ \A n \in 0..N : n # 0 => n \in 1..N
    BY <1>1, <1>4 DEF Repeats
  <2>3. QED
    BY <2>1, <2>2, <1>4 DEF Removing
<1> DEFINE h == CHOOSE h : Removing(h, t, c, N)
<1>6. Removing(h, t, c, N)
  BY <1>5
<1>7. RemovedClass(t, c) = h[N]
  BY DEF RemovedClass, Removing
<1> HIDE DEF h
<1>8. h[0] = t /\ \A n \in 1..N : h[n] = RemovingTurn(h[n - 1], n, c)
  <2>1. 0 \in 0..N /\ \A n \in 1..N : n \in 0..N /\ n # 0
    OBVIOUS
  <2>2. QED
    BY <2>1, <1>6 DEF Removing
<1>9. QED
  BY <1>7, <1>8 DEF RemovedBy

LEMMA RemovedFair ==
  ASSUME NEW told, NEW o, NEW t, Fair(told, o, t), NEW c
  PROVE  Fair(told, o, RemovedClass(t, c))
<1>1. PICK N \in Nat : N = Len(t)
  BY ItemsType DEF Fair
<1>2. PICK S : S = FairTrees(told, o)
  OBVIOUS
<1>3. PICK h : RemovedBy(h, t, c, N)
  <2>1. t \in Seq(TreeItem)
    BY DEF Fair
  <2>2. QED
    BY <2>1, <1>1, RemovedTurns
<1>4. ASSUME NEW s \in S, NEW n \in 1..N PROVE RemovingTurn(s, n, c) \in S
  <2>1. Fair(told, o, s) /\ DOMAIN s = 1..Len(s) /\ Len(s) \in Nat
    BY <1>2, ItemsType DEF FairTrees
  <2>2. n <= Len(s) => n \in DOMAIN s
    BY <2>1
  <2>3. n <= Len(s) => Fair(told, o, CheckAndRemove(s, n))
    BY <2>1, <2>2, CheckedFair
  <2>4. Fair(told, o, RemovingTurn(s, n, c))
    BY <2>1, <2>3 DEF RemovingTurn
  <2>5. QED
    BY <2>4, <1>2 DEF FairTrees, Fair
<1>5. h[N] \in S
  <2>1. h[0] \in S
    BY <1>2, <1>3 DEF FairTrees, Fair, RemovedBy
  <2>2. \A n \in 1..N : h[n - 1] \in S => h[n] \in S
    BY <1>3, <1>4 DEF RemovedBy
  <2>3. QED
    BY <2>1, <2>2, TurnsStay
<1>6. QED
  BY <1>2, <1>3, <1>5 DEF FairTrees, RemovedBy

LEMMA TurnsType ==
  ASSUME NEW t \in Seq(TreeItem)
  PROVE  Turns(t) \in Nat
<1>1. IsFiniteSet(Class)
  BY ClassAssumption
<1>2. Cardinality(Class) \in Nat
  BY <1>1, FS_CardinalityType
<1>3. Len(t) \in Nat
  BY ItemsType
<1>4. PICK a \in Nat, b \in Nat : a = Len(t) /\ b = Cardinality(Class) + 1
  BY <1>2, <1>3
<1>5. a * b \in Nat
  OBVIOUS
<1>6. QED
  BY <1>4, <1>5 DEF Turns

\* One item at the end of what is below the item at i.
LEMMA OneMore ==
  ASSUME NEW told, NEW o, NEW t, Fair(told, o, t), NEW i \in DOMAIN t, NEW r \in TreeItem,
         told => r.count = NumInst(o, r.cls) /\ ~r.picked
  PROVE  Fair(told, o, Appended(t, i, <<r>>))
<1>1. PICK w : w = <<r>>
  OBVIOUS
<1>2. w \in Seq(TreeItem) /\ Len(w) = 1 /\ w[1] = r
  BY <1>1
<1>3. Fresh(told, o, w)
  <2>1. \A k \in 1..Len(w) : w[k] = r
    BY <1>2
  <2>2. QED
    BY <1>2, <2>1 DEF Fresh
<1>4. QED
  BY <1>1, <1>3, AppendedFair

LEMMA CreatingFair ==
  ASSUME NEW told, NEW o, NEW t, Fair(told, o, t), NEW i \in DOMAIN t, NEW c \in Class, NEW s,
         told => NumInst(o, c) = 0
  PROVE  Fair(told, o, CreatingTurn(t, i, c, s))
<1>1. t \in Seq(TreeItem) /\ i \in 1..Len(t) /\ Len(t) \in Nat /\ t[i] \in TreeItem
  BY ItemsType DEF Fair
<1>2. PICK b \in BOOLEAN : b = (t[i].open \/ ~t[i].kids)
  OBVIOUS
<1>3. PICK u : u = [t EXCEPT ![i].kids = TRUE, ![i].open = @ \/ ~t[i].kids]
  OBVIOUS
<1>4. u = [t EXCEPT ![i].kids = TRUE, ![i].open = b]
  <2>1. [t EXCEPT ![i].kids = TRUE][i].open = t[i].open
    BY <1>1 DEF TreeItem
  <2>2. QED
    BY <1>2, <1>3, <2>1
<1>5. Alike(u, t)
  BY <1>1, <1>2, <1>4, Marked
<1>6. Fair(told, o, u) /\ i \in DOMAIN u
  <2>1. Fair(told, o, u)
    BY <1>5, AlikeFair
  <2>2. Len(u) = Len(t) /\ DOMAIN u = 1..Len(u)
    BY <1>5, ItemsType DEF Alike
  <2>3. QED
    BY <2>1, <2>2, <1>1
<1>7. PICK r : r = [cls |-> c, depth |-> t[i].depth + 1, kids |-> FALSE, open |-> FALSE,
                    count |-> 0, locked |-> FALSE, picked |-> FALSE]
  OBVIOUS
<1>8. r \in TreeItem /\ r.count = 0 /\ r.cls = c /\ ~r.picked
  <2>1. t[i].depth + 1 \in Nat
    BY <1>1 DEF TreeItem
  <2>2. QED
    BY <1>7, <2>1 DEF TreeItem
<1>9. Fair(told, o, Appended(u, i, <<r>>))
  BY <1>6, <1>8, OneMore
<1>10. CreatingTurn(t, i, c, s) = IF i <= Len(t) /\ t[i].cls = s
                                  THEN Appended(u, i, <<r>>) ELSE t
  BY <1>3, <1>7 DEF CreatingTurn
<1>11. QED
  BY <1>9, <1>10

LEMMA AdoptFair ==
  ASSUME NEW told, NEW o, NEW t, Fair(told, o, t), NEW i \in DOMAIN t, NEW c \in Class
  PROVE  Fair(told, o, Adopt(o, t, i, c))
<1>1. t \in Seq(TreeItem) /\ i \in 1..Len(t) /\ Len(t) \in Nat /\ t[i] \in TreeItem
  BY ItemsType DEF Fair
<1>2. PICK u : u = [t EXCEPT ![i].kids = TRUE, ![i].open = FALSE]
  OBVIOUS
<1>3. Fair(told, o, u)
  BY <1>1, <1>2, Marked, AlikeFair
<1>4. PICK r : r = [cls |-> c, depth |-> t[i].depth + 1, kids |-> TRUE, open |-> FALSE,
                    count |-> NumInst(o, c), locked |-> TRUE, picked |-> FALSE]
  OBVIOUS
<1>5. r \in TreeItem /\ r.count = NumInst(o, r.cls) /\ ~r.picked
  <2>1. t[i].depth + 1 \in Nat /\ NumInst(o, c) \in Int
    BY <1>1, NumbersType DEF TreeItem
  <2>2. QED
    BY <1>4, <2>1 DEF TreeItem
<1>6. Fair(told, o, Appended(t, i, <<r>>))
  BY <1>5, OneMore
<1>7. \/ Adopt(o, t, i, c) = u
      \/ Adopt(o, t, i, c) = t
      \/ Adopt(o, t, i, c) = Appended(t, i, <<r>>)
  BY <1>2, <1>4 DEF Adopt
<1>8. QED
  BY <1>3, <1>6, <1>7

LEMMA RefreshingFair ==
  ASSUME NEW told, NEW o, NEW t, Fair(told, o, t), NEW i \in Nat \ {0}, NEW c \in Class
  PROVE  Fair(told, o, RefreshingTurn(o, t, i, c))
<1>1. CASE i > Len(t)
  BY <1>1 DEF RefreshingTurn
<1>2. CASE ~(i > Len(t))
  <2>1. i \in DOMAIN t
    BY <1>2, ItemsType DEF Fair
  <2>2. Fair(told, o, Adopt(o, t, i, c)) /\ Fair(told, o, CheckAndRemove(t, i))
    BY <2>1, AdoptFair, CheckedFair
  <2>3. \/ RefreshingTurn(o, t, i, c) = Adopt(o, t, i, c)
        \/ RefreshingTurn(o, t, i, c) = CheckAndRemove(t, i)
        \/ RefreshingTurn(o, t, i, c) = t
    BY DEF RefreshingTurn
  <2>4. QED
    BY <2>2, <2>3
<1>3. QED
  BY <1>1, <1>2

Creating(f, t, c, d, N) ==
  f = [n \in 0..N |-> IF n = 0 THEN t ELSE CreatingTurn(f[n - 1], n, c, d)]

\* createdSubClass, turn by turn.
CreatedBy(h, t, c, d, N) ==
  /\ h[0] = t /\ \A n \in 1..N : h[n] = CreatingTurn(h[n - 1], n, c, d)
  /\ CreatedSubClass(t, c, d) = h[N]

LEMMA CreatedTurns ==
  ASSUME NEW t \in Seq(TreeItem), NEW N \in Nat, N = Turns(t), NEW c \in Class, NEW d
  PROVE  \E h : CreatedBy(h, t, c, d, N)
<1>1. PICK S, a : S = Seq(TreeItem) /\ a = t
  OBVIOUS
<1>2. ASSUME NEW s \in S, NEW n \in 1..N PROVE CreatingTurn(s, n, c, d) \in S
  <2>1. Fair(FALSE, GivenOnt, s) /\ DOMAIN s = 1..Len(s) /\ Len(s) \in Nat
    BY <1>1, ItemsType DEF Fair
  <2>2. n \in DOMAIN s => Fair(FALSE, GivenOnt, CreatingTurn(s, n, c, d))
    BY <2>1, CreatingFair
  <2>3. n \notin DOMAIN s => CreatingTurn(s, n, c, d) = s
    BY <2>1 DEF CreatingTurn
  <2>4. QED
    BY <2>2, <2>3, <1>1 DEF Fair
<1> DEFINE g == [p \in S \X (1..N) |-> CreatingTurn(p[1], p[2], c, d)]
<1>3. \A s \in S, n \in 1..N : g[<<s, n>>] = CreatingTurn(s, n, c, d)
  OBVIOUS
<1> HIDE DEF g
<1>4. PICK f \in [0..N -> S] : Repeats(f, g, a, N)
  <2>1. StaysIn(g, S, N) /\ a \in S
    BY <1>1, <1>2, <1>3 DEF StaysIn
  <2>2. QED
    BY <2>1, TurnsExist
<1>5. Creating(f, t, c, d, N)
  <2>1. ASSUME NEW n \in 1..N PROVE f[n] = CreatingTurn(f[n - 1], n, c, d)
    <3>1. n - 1 \in 0..N
      OBVIOUS
    <3>2. f[n - 1] \in S
      BY <3>1, <1>4
    <3>3. QED
      BY <3>2, <1>3, <1>4 DEF Repeats
  <2>2. f[0] = t /\ \A n \in 0..N : n # 0 => n \in 1..N
    BY <1>1, <1>4 DEF Repeats
  <2>3. QED
    BY <2>1, <2>2, <1>4 DEF Creating
<1> DEFINE h == CHOOSE h : Creating(h, t, c, d, N)
<1>6. Creating(h, t, c, d, N)
  BY <1>5
<1>7. CreatedSubClass(t, c, d) = h[N]
  BY DEF CreatedSubClass, Creating
<1> HIDE DEF h
<1>8. h[0] = t /\ \A n \in 1..N : h[n] = CreatingTurn(h[n - 1], n, c, d)
  <2>1. 0 \in 0..N /\ \A n \in 1..N : n \in 0..N /\ n # 0
    OBVIOUS
  <2>2. QED
    BY <2>1, <1>6 DEF Creating
<1>9. QED
  BY <1>7, <1>8 DEF CreatedBy

LEMMA CreatedFair ==
  ASSUME NEW told, NEW o, NEW t, Fair(told, o, t), NEW c \in Class, NEW d,
         told => NumInst(o, c) = 0
  PROVE  Fair(told, o, CreatedSubClass(t, c, d))
<1>1. PICK N \in Nat : N = Turns(t)
  BY TurnsType DEF Fair
<1>2. PICK S : S = FairTrees(told, o)
  OBVIOUS
<1>3. PICK h : CreatedBy(h, t, c, d, N)
  <2>1. t \in Seq(TreeItem)
    BY DEF Fair
  <2>2. QED
    BY <2>1, <1>1, CreatedTurns
<1>4. ASSUME NEW s \in S, NEW n \in 1..N PROVE CreatingTurn(s, n, c, d) \in S
  <2>1. Fair(told, o, s) /\ DOMAIN s = 1..Len(s) /\ Len(s) \in Nat
    BY <1>2, ItemsType DEF FairTrees
  <2>2. n \in DOMAIN s => Fair(told, o, CreatingTurn(s, n, c, d))
    BY <2>1, CreatingFair
  <2>3. n \notin DOMAIN s => CreatingTurn(s, n, c, d) = s
    BY <2>1 DEF CreatingTurn
  <2>4. QED
    BY <2>1, <2>2, <2>3, <1>2 DEF FairTrees, Fair
<1>5. h[N] \in S
  <2>1. h[0] \in S
    BY <1>2, <1>3 DEF FairTrees, Fair, CreatedBy
  <2>2. \A n \in 1..N : h[n - 1] \in S => h[n] \in S
    BY <1>3, <1>4 DEF CreatedBy
  <2>3. QED
    BY <2>1, <2>2, TurnsStay
<1>6. QED
  BY <1>2, <1>3, <1>5 DEF FairTrees, CreatedBy

Refreshing(f, o, t, c, N) ==
  f = [n \in 0..N |-> IF n = 0 THEN t ELSE RefreshingTurn(o, f[n - 1], n, c)]

LEMMA RefreshedFair ==
  ASSUME NEW told, NEW o, NEW t, Fair(told, o, t), NEW c \in Class
  PROVE  Fair(told, o, RefreshTree(o, t, c))
<1>1. PICK N \in Nat : N = Turns(t)
  BY TurnsType DEF Fair
<1>2. PICK S, a : S = FairTrees(told, o) /\ a = t
  OBVIOUS
<1>3. a \in S
  BY <1>2 DEF FairTrees, Fair
<1>4. ASSUME NEW s \in S, NEW n \in 1..N PROVE RefreshingTurn(o, s, n, c) \in S
  <2>1. Fair(told, o, s)
    BY <1>2 DEF FairTrees
  <2>2. Fair(told, o, RefreshingTurn(o, s, n, c))
    BY <2>1, RefreshingFair
  <2>3. QED
    BY <2>2, <1>2 DEF FairTrees, Fair
<1> DEFINE g == [p \in S \X (1..N) |-> RefreshingTurn(o, p[1], p[2], c)]
<1>5. \A s \in S, n \in 1..N : g[<<s, n>>] = RefreshingTurn(o, s, n, c)
  OBVIOUS
<1> HIDE DEF g
<1>6. PICK f \in [0..N -> S] : Repeats(f, g, a, N)
  <2>1. StaysIn(g, S, N)
    BY <1>4, <1>5 DEF StaysIn
  <2>2. QED
    BY <1>3, <2>1, TurnsExist
<1>7. Refreshing(f, o, t, c, N)
  <2>1. ASSUME NEW n \in 1..N PROVE f[n] = RefreshingTurn(o, f[n - 1], n, c)
    <3>1. n - 1 \in 0..N
      OBVIOUS
    <3>2. f[n - 1] \in S
      BY <3>1, <1>6
    <3>3. QED
      BY <3>2, <1>5, <1>6 DEF Repeats
  <2>2. f[0] = t /\ \A n \in 0..N : n # 0 => n \in 1..N
    BY <1>2, <1>6 DEF Repeats
  <2>3. QED
    BY <2>1, <2>2, <1>6 DEF Refreshing
<1> DEFINE h == CHOOSE h : Refreshing(h, o, t, c, N)
<1>8. Refreshing(h, o, t, c, N)
  BY <1>7
<1>9. RefreshTree(o, t, c) = h[N]
  BY <1>1 DEF RefreshTree, Refreshing
<1> HIDE DEF h
<1>10. h[0] = a /\ \A n \in 1..N : h[n] = RefreshingTurn(o, h[n - 1], n, c)
  <2>1. 0 \in 0..N /\ \A n \in 1..N : n \in 0..N /\ n # 0
    OBVIOUS
  <2>2. QED
    BY <1>2, <2>1, <1>8 DEF Refreshing
<1>11. h[N] \in S
  <2>1. h[0] \in S /\ \A n \in 1..N : h[n - 1] \in S => h[n] \in S
    BY <1>3, <1>4, <1>10
  <2>2. QED
    BY <2>1, TurnsStay
<1>12. QED
  BY <1>2, <1>9, <1>11 DEF FairTrees, Fair

LEMMA RootsFair ==
  ASSUME NEW told, NEW o, NEW t, Fair(told, o, t), NEW w, Fresh(told, o, w)
  PROVE  Fair(told, o, t \o w)
<1>1. t \in Seq(TreeItem) /\ w \in Seq(TreeItem) /\ Len(t) \in Nat /\ Len(w) \in Nat
  BY ItemsType DEF Fair, Fresh
<1>2. Spliced(t \o w, t, Len(t), w, Len(t))
  BY <1>1 DEF Spliced
<1>3. QED
  BY <1>1, <1>2, SplicedFair

LEMMA UnfoldingFair ==
  ASSUME NEW told, NEW o \in Ontologies, NEW t, Fair(told, o, t), NEW i \in Nat \ {0}, NEW c
  PROVE  Fair(told, o, UnfoldingTurn(o, t, i, c))
<1>1. PICK v : v = [t EXCEPT ![i].open = TRUE]
  OBVIOUS
<1>2. Fair(told, o, v) /\ Len(v) = Len(t)
  <2>1. Alike(v, t)
    BY <1>1, Marked DEF Fair
  <2>2. QED
    BY <2>1, AlikeFair DEF Alike
<1>3. CASE i > Len(t) \/ t[i].cls # c
  BY <1>3 DEF UnfoldingTurn
<1>4. CASE ~(i > Len(t) \/ t[i].cls # c)
  <2>1. i \in DOMAIN v
    BY <1>2, <1>4, ItemsType DEF Fair
  <2>2. UnfoldingTurn(o, t, i, c) = IF t[i].kids THEN SubClassesTree(o, v, i)
                                    ELSE v \o SubClassItems(o, c, 0)
    BY <1>1, <1>4 DEF UnfoldingTurn
  <2>3. Fair(told, o, SubClassesTree(o, v, i))
    BY <1>2, <2>1, LevelFair
  <2>4. Fresh(told, o, SubClassItems(o, c, 0))
    BY LevelFresh DEF SubClassItems
  <2>5. Fair(told, o, v \o SubClassItems(o, c, 0))
    BY <1>2, <2>4, RootsFair
  <2>6. QED
    BY <2>2, <2>3, <2>5
<1>5. QED
  BY <1>3, <1>4

Unfolding(f, o, t, c, N) ==
  f = [n \in 0..N |-> IF n = 0 THEN t ELSE UnfoldingTurn(o, f[n - 1], n, c)]

LEMMA UnfoldedFair ==
  ASSUME NEW told, NEW o \in Ontologies, NEW t, Fair(told, o, t), NEW c
  PROVE  Fair(told, o, Unfolded(o, t, c))
<1>1. PICK N \in Nat : N = Turns(t)
  BY TurnsType DEF Fair
<1>2. PICK S, a : S = FairTrees(told, o) /\ a = t
  OBVIOUS
<1>3. a \in S
  BY <1>2 DEF FairTrees, Fair
<1>4. ASSUME NEW s \in S, NEW n \in 1..N PROVE UnfoldingTurn(o, s, n, c) \in S
  <2>1. Fair(told, o, s)
    BY <1>2 DEF FairTrees
  <2>2. Fair(told, o, UnfoldingTurn(o, s, n, c))
    BY <2>1, UnfoldingFair
  <2>3. QED
    BY <2>2, <1>2 DEF FairTrees, Fair
<1> DEFINE g == [p \in S \X (1..N) |-> UnfoldingTurn(o, p[1], p[2], c)]
<1>5. \A s \in S, n \in 1..N : g[<<s, n>>] = UnfoldingTurn(o, s, n, c)
  OBVIOUS
<1> HIDE DEF g
<1>6. PICK f \in [0..N -> S] : Repeats(f, g, a, N)
  <2>1. StaysIn(g, S, N)
    BY <1>4, <1>5 DEF StaysIn
  <2>2. QED
    BY <1>3, <2>1, TurnsExist
<1>7. Unfolding(f, o, t, c, N)
  <2>1. ASSUME NEW n \in 1..N PROVE f[n] = UnfoldingTurn(o, f[n - 1], n, c)
    <3>1. n - 1 \in 0..N
      OBVIOUS
    <3>2. f[n - 1] \in S
      BY <3>1, <1>6
    <3>3. QED
      BY <3>2, <1>5, <1>6 DEF Repeats
  <2>2. f[0] = t /\ \A n \in 0..N : n # 0 => n \in 1..N
    BY <1>2, <1>6 DEF Repeats
  <2>3. QED
    BY <2>1, <2>2, <1>6 DEF Unfolding
<1> DEFINE h == CHOOSE h : Unfolding(h, o, t, c, N)
<1>8. Unfolding(h, o, t, c, N)
  BY <1>7
<1>9. Unfolded(o, t, c) = h[N]
  BY <1>1 DEF Unfolded, Unfolding
<1> HIDE DEF h
<1>10. h[0] = a /\ \A n \in 1..N : h[n] = UnfoldingTurn(o, h[n - 1], n, c)
  <2>1. 0 \in 0..N /\ \A n \in 1..N : n \in 0..N /\ n # 0
    OBVIOUS
  <2>2. QED
    BY <1>2, <2>1, <1>8 DEF Unfolding
<1>11. h[N] \in S
  <2>1. h[0] \in S /\ \A n \in 1..N : h[n - 1] \in S => h[n] \in S
    BY <1>3, <1>4, <1>10
  <2>2. QED
    BY <2>1, TurnsStay
<1>12. QED
  BY <1>2, <1>9, <1>11 DEF FairTrees, Fair

LEMMA LocatingFair ==
  ASSUME NEW told, NEW o \in Ontologies, NEW U \in SUBSET FairTrees(told, o), NEW c
  PROVE  LocatingRound(o, U, c) \in SUBSET FairTrees(told, o)
<1>1. ASSUME NEW t \in U, NEW d PROVE Unfolded(o, t, d) \in FairTrees(told, o)
  <2>1. Fair(told, o, t)
    BY DEF FairTrees
  <2>2. Fair(told, o, Unfolded(o, t, d))
    BY <2>1, UnfoldedFair
  <2>3. QED
    BY <2>2 DEF FairTrees, Fair
<1>2. QED
  BY <1>1 DEF LocatingRound

Locating(f, o, t, c, N) ==
  f = [n \in 0..N |-> IF n = 0 THEN {t} ELSE LocatingRound(o, f[n - 1], c)]

LEMMA LocatedFair ==
  ASSUME NEW told, NEW o \in Ontologies, NEW t, Fair(told, o, t), NEW c
  PROVE  \A u \in Located(o, t, c) : Fair(told, o, u)
<1>1. PICK N \in Nat : N = Cardinality(Class)
  BY ClassAssumption, FS_CardinalityType
<1>2. PICK S, a : S = SUBSET FairTrees(told, o) /\ a = {t}
  OBVIOUS
<1>3. a \in S
  BY <1>2 DEF FairTrees, Fair
<1>4. ASSUME NEW s \in S, NEW n \in 1..N PROVE LocatingRound(o, s, c) \in S
  BY <1>2, LocatingFair
<1> DEFINE g == [p \in S \X (1..N) |-> LocatingRound(o, p[1], c)]
<1>5. \A s \in S, n \in 1..N : g[<<s, n>>] = LocatingRound(o, s, c)
  OBVIOUS
<1> HIDE DEF g
<1>6. PICK f \in [0..N -> S] : Repeats(f, g, a, N)
  <2>1. StaysIn(g, S, N)
    BY <1>4, <1>5 DEF StaysIn
  <2>2. QED
    BY <1>3, <2>1, TurnsExist
<1>7. Locating(f, o, t, c, N)
  <2>1. ASSUME NEW n \in 1..N PROVE f[n] = LocatingRound(o, f[n - 1], c)
    <3>1. n - 1 \in 0..N
      OBVIOUS
    <3>2. f[n - 1] \in S
      BY <3>1, <1>6
    <3>3. QED
      BY <3>2, <1>5, <1>6 DEF Repeats
  <2>2. f[0] = {t} /\ \A n \in 0..N : n # 0 => n \in 1..N
    BY <1>2, <1>6 DEF Repeats
  <2>3. QED
    BY <2>1, <2>2, <1>6 DEF Locating
<1> DEFINE h == CHOOSE h : Locating(h, o, t, c, N)
<1>8. Locating(h, o, t, c, N)
  BY <1>7
<1>9. Located(o, t, c) = h[N]
  BY <1>1 DEF Located, Locating
<1> HIDE DEF h
<1>10. h[0] = a /\ \A n \in 1..N : h[n] = LocatingRound(o, h[n - 1], c)
  <2>1. 0 \in 0..N /\ \A n \in 1..N : n \in 0..N /\ n # 0
    OBVIOUS
  <2>2. QED
    BY <1>2, <2>1, <1>8 DEF Locating
<1>11. h[N] \in S
  <2>1. h[0] \in S /\ \A n \in 1..N : h[n - 1] \in S => h[n] \in S
    BY <1>3, <1>4, <1>10
  <2>2. QED
    BY <2>1, TurnsStay
<1>12. QED
  BY <1>2, <1>9, <1>11 DEF FairTrees, Fair

-----------------------------------------------------------------------------
(* The invariant *)

Told == Only(PlainGestures \cup {"hierarchy", "search"})

(* As long as the gestures are those of the property the ontology is tame:  *)
(* an individual has one class, which does not change, so that a number     *)
(* changes with the two commands that are followed by a look at the class   *)
(* or by a count.  That only one row is the current one is what makes the   *)
(* class that was looked at the one that got the individual.                *)
InstancesInv ==
  /\ ClassTypeOK /\ Fair(Told, ont, tree)
  /\ Told => Tame(ont) /\ Listing(ont, list)

LEMMA InvType ==
  InstancesInv => /\ ont \in Ontologies /\ list \in Lists /\ done \subseteq Gestures
                  /\ tree \in Seq(TreeItem) /\ Len(tree) \in Nat /\ DOMAIN tree = 1..Len(tree)
<1> SUFFICES ASSUME InstancesInv PROVE /\ ont \in Ontologies /\ list \in Lists /\ done \subseteq Gestures
                  /\ tree \in Seq(TreeItem) /\ Len(tree) \in Nat /\ DOMAIN tree = 1..Len(tree)
  OBVIOUS
<1>1. /\ ont \in Ontologies /\ list \in Lists /\ done \subseteq Gestures /\ tree \in Seq(TreeItem)
  BY DEF InstancesInv, ClassTypeOK, Ontologies, Lists
<1>2. QED
  BY <1>1, ItemsType

\* What an action shows to keep the invariant.
LEMMA InvFrom ==
  ASSUME ont' \in Ontologies, list' \in Lists, done' \subseteq Gestures, Fair(Told', ont', tree'),
         Told' => Tame(ont') /\ Listing(ont', list')
  PROVE  InstancesInv'
<1>1. ClassTypeOK'
  BY DEF ClassTypeOK, Ontologies, Lists, Fair
<1>2. Fair(Told, ont, tree)' /\ (Told => Tame(ont) /\ Listing(ont, list))'
  OBVIOUS
<1>3. QED
  BY <1>1, <1>2 DEF InstancesInv

LEMMA SeenFair ==
  ASSUME NEW told, NEW o \in Ontologies, NEW t, Fair(told, o, t), NEW c
  PROVE  Fair(told, o, InstancesShown(o, t, c))
<1>1. t \in Seq(TreeItem)
  BY DEF Fair
<1>2. CASE c \in o.live
  <2>1. told => Almost(o, t, c)
    BY DEF Fair, Almost, Counted
  <2>2. QED
    BY <1>1, <1>2, <2>1, ShownFair
<1>3. CASE c \notin o.live
  <2>1. InstancesShown(o, t, c) = [k \in DOMAIN t |-> t[k]]
    BY <1>3 DEF InstancesShown
  <2>2. [k \in DOMAIN t |-> t[k]] = t
    BY <1>1
  <2>3. QED
    BY <2>1, <2>2
<1>4. QED
  BY <1>2, <1>3

LEMMA LoadedKeeps ==
  ASSUME NEW told, NEW o \in Ontologies, NEW t, Fair(told, o, t), LoadInstanceList(o, t),
         list \in Lists, told => Listing(o, list)
  PROVE  Fair(told, o, tree') /\ list' \in Lists /\ (told => Listing(o, list'))
<1>1. t \in Seq(TreeItem) /\ DOMAIN t = 1..Len(t) /\ \A k \in 1..Len(t) : t[k] \in TreeItem
  BY ItemsType DEF Fair
<1>2. CASE Picked(t) = {}
  BY <1>2 DEF LoadInstanceList
<1>3. CASE Picked(t) # {}
  <2>1. PICK i : i = CHOOSE k \in Picked(t) : TRUE
    OBVIOUS
  <2>2. i \in Picked(t)
    BY <1>3, <2>1
  <2>3. i \in 1..Len(t)
    BY <2>2, <1>1 DEF Picked
  <2>4. PICK c : c = t[i].cls
    OBVIOUS
  <2>5. c \in Class
    BY <2>3, <2>4, <1>1 DEF TreeItem
  <2>6. tree' = InstancesShown(o, t, c) /\ list' = ListOf(o, c)
    BY <1>3, <2>1, <2>4 DEF LoadInstanceList
  <2>7. Fair(told, o, tree')
    BY <2>6, SeenFair
  <2>8. list' \in Lists /\ (told => Listing(o, list'))
    BY <2>5, <2>6, ListOfIs
  <2>9. QED
    BY <2>7, <2>8
<1>4. QED
  BY <1>2, <1>3

LEMMA RevealedFair ==
  ASSUME NEW told, NEW o, NEW t, Fair(told, o, t), NEW i
  PROVE  Fair(told, o, Revealed(t, i)) /\ DOMAIN Revealed(t, i) = DOMAIN t
<1>1. t \in Seq(TreeItem) /\ Len(t) \in Nat /\ DOMAIN t = 1..Len(t) /\ \A k \in 1..Len(t) : t[k] \in TreeItem
  BY ItemsType DEF Fair
<1>2. PICK u : u = Revealed(t, i)
  OBVIOUS
<1>3. ASSUME NEW r \in TreeItem
      PROVE  /\ [r EXCEPT !.open = TRUE] \in TreeItem
             /\ [r EXCEPT !.open = TRUE].cls = r.cls /\ [r EXCEPT !.open = TRUE].depth = r.depth
             /\ [r EXCEPT !.open = TRUE].count = r.count
             /\ [r EXCEPT !.open = TRUE].picked = r.picked
  BY DEF TreeItem
<1>4. DOMAIN u = 1..Len(t) /\ \A k \in 1..Len(t) : u[k] = t[k] \/ u[k] = [t[k] EXCEPT !.open = TRUE]
  BY <1>1, <1>2 DEF Revealed
<1>5. \A k \in 1..Len(t) : /\ u[k] \in TreeItem /\ u[k].cls = t[k].cls /\ u[k].depth = t[k].depth
                           /\ u[k].count = t[k].count /\ u[k].picked = t[k].picked
  BY <1>1, <1>3, <1>4
<1>6. u \in Seq(TreeItem) /\ Len(u) = Len(t)
  <2>1. u \in [1..Len(t) -> TreeItem]
    BY <1>1, <1>2, <1>5 DEF Revealed
  <2>2. QED
    BY <2>1, <1>1
<1>7. Alike(u, t)
  BY <1>5, <1>6 DEF Alike
<1>8. Fair(told, o, u)
  BY <1>7, AlikeFair
<1>9. QED
  BY <1>1, <1>2, <1>4, <1>8

LEMMA MayTells == \A kind : May(kind) => (Told' => Told) /\ (InstancesInv => done' \subseteq Gestures)
<1> SUFFICES ASSUME NEW kind, May(kind) PROVE (Told' => Told) /\ (InstancesInv => done' \subseteq Gestures)
  OBVIOUS
<1>1. done' = done \cup {kind} /\ kind \in Gestures
  BY DEF May
<1>2. QED
  BY <1>1, InvType DEF Told, Only

LEMMA InstancesStart == ClassInit => InstancesInv
<1> SUFFICES ASSUME ClassInit PROVE InstancesInv
  OBVIOUS
<1>1. ont = GivenOnt /\ tree = <<>> /\ list = [cls |-> NoClass, insts |-> {}] /\ done = {}
  BY DEF ClassInit
<1>2. ont \in Ontologies /\ Tame(ont)
  BY <1>1, GivenTame
<1>3. tree \in Seq(TreeItem) /\ DOMAIN tree = {}
  BY <1>1
<1>4. Fair(Told, ont, tree)
  BY <1>3 DEF Fair, Counted, OnePicked
<1>5. list \in Lists /\ Listing(ont, list)
  BY <1>1 DEF Lists, Listing
<1>6. ClassTypeOK
  BY <1>1, <1>2, <1>3, <1>5 DEF ClassTypeOK, Ontologies, Lists
<1>7. QED
  BY <1>2, <1>4, <1>5, <1>6 DEF InstancesInv

LEMMA StillFair ==
  ASSUME NEW told, NEW o, NEW t, Fair(told, o, t), NEW n,
         told => \A c \in Class : NumInst(n, c) = NumInst(o, c)
  PROVE  Fair(told, n, t)
<1>1. t \in Seq(TreeItem)
  BY DEF Fair
<1>2. DOMAIN t = 1..Len(t) /\ \A k \in 1..Len(t) : t[k].cls \in Class
  BY <1>1, ItemsType
<1>3. told => Counted(n, t)
  BY <1>2 DEF Fair, Counted
<1>4. QED
  BY <1>1, <1>3 DEF Fair

LEMMA ShowKeeps == ASSUME InstancesInv, Show PROVE InstancesInv'
<1>1. ont \in Ontologies /\ list \in Lists /\ done \subseteq Gestures
  BY InvType
<1>2. PICK r : r = [NewItem(ont, Thing, 0) EXCEPT !.picked = TRUE]
  OBVIOUS
<1>3. r \in TreeItem /\ r.count = NumInst(ont, r.cls)
  <2>1. Thing \in Class
    BY ClassAssumption
  <2>2. PICK q : q = NewItem(ont, Thing, 0)
    OBVIOUS
  <2>3. q \in TreeItem /\ q.count = NumInst(ont, Thing) /\ q.cls = Thing
    BY <2>1, <2>2, NewItemIs
  <2>4. r = [q EXCEPT !.picked = TRUE]
    BY <1>2, <2>2
  <2>5. QED
    BY <2>3, <2>4 DEF TreeItem
<1>4. PICK root : root = <<r>>
  OBVIOUS
<1>5. Fair(TRUE, ont, root) /\ 1 \in DOMAIN root
  <2>1. root \in Seq(TreeItem) /\ DOMAIN root = {1} /\ root[1] = r
    BY <1>3, <1>4
  <2>2. QED
    BY <2>1, <1>3 DEF Fair, Counted, OnePicked
<1>6. PICK t : t = SubClassesTree(ont, root, 1)
  OBVIOUS
<1>7. Fair(TRUE, ont, t)
  BY <1>1, <1>5, <1>6, LevelFair
<1>8. PICK b : b = t[1].kids
  OBVIOUS
<1>9. b \in BOOLEAN
  <2>1. 1 \in DOMAIN t /\ t \in Seq(TreeItem)
    BY <1>1, <1>5, <1>6, <1>7, LevelFair DEF Fair
  <2>2. t[1] \in TreeItem
    BY <2>1
  <2>3. QED
    BY <1>8, <2>2 DEF TreeItem
<1>10. tree' = [t EXCEPT ![1].open = b]
  BY <1>2, <1>4, <1>6, <1>8 DEF Show
<1>11. Fair(TRUE, ont, tree')
  <2>1. Alike([t EXCEPT ![1].open = b], t)
    BY <1>7, <1>9, Marked DEF Fair
  <2>2. QED
    BY <1>7, <1>10, <2>1, AlikeFair
<1>12. ont' = ont /\ done' = done /\ list' = ListOf(ont, Thing)
  BY DEF Show
<1>13. list' \in Lists /\ (Told => Listing(ont, list'))
  <2>1. Thing \in Class
    BY ClassAssumption
  <2>2. QED
    BY <2>1, <1>1, <1>12, ListOfIs DEF InstancesInv
<1>14. Told' <=> Told
  BY <1>12 DEF Told, Only
<1>15. Fair(Told', ont', tree')
  BY <1>11, <1>12 DEF Fair
<1>16. QED
  BY <1>1, <1>12, <1>13, <1>14, <1>15, InvFrom DEF InstancesInv

LEMMA HideKeeps == ASSUME InstancesInv, Hide PROVE InstancesInv'
<1>1. ont \in Ontologies /\ done \subseteq Gestures
  BY InvType
<1>2. tree' = <<>> /\ list' = [cls |-> NoClass, insts |-> {}] /\ ont' = ont /\ done' = done
  BY DEF Hide
<1>3. tree' \in Seq(TreeItem) /\ DOMAIN tree' = {}
  BY <1>2
<1>4. Fair(Told', ont', tree')
  BY <1>3 DEF Fair, Counted, OnePicked
<1>5. list' \in Lists /\ Listing(ont', list')
  BY <1>2 DEF Lists, Listing
<1>6. Told' <=> Told
  BY <1>2 DEF Told, Only
<1>7. QED
  BY <1>1, <1>2, <1>4, <1>5, <1>6, InvFrom DEF InstancesInv

\* A look at the current row of a tree that was kept fair.
LEMMA LookKeeps ==
  ASSUME InstancesInv, NEW t, Fair(Told, ont, t), LoadInstanceList(ont, t),
         UNCHANGED ont, done' \subseteq Gestures, Told' => Told
  PROVE  InstancesInv'
<1>1. ont \in Ontologies /\ list \in Lists
  BY InvType
<1>2. PICK told \in BOOLEAN : told = Told
  BY DEF Told, Only
<1>3. Fair(told, ont, t) /\ (told => Listing(ont, list))
  BY <1>2 DEF InstancesInv
<1>4. Fair(told, ont, tree') /\ list' \in Lists /\ (told => Listing(ont, list'))
  BY <1>1, <1>3, LoadedKeeps
<1>5. Fair(Told', ont', tree')
  BY <1>2, <1>4 DEF Fair
<1>6. QED
  BY <1>1, <1>2, <1>4, <1>5, InvFrom DEF InstancesInv

\* Only the tree changes.
LEMMA TreeKeeps ==
  ASSUME InstancesInv, Fair(Told, ont, tree'), UNCHANGED <<ont, list>>,
         done' \subseteq Gestures, Told' => Told
  PROVE  InstancesInv'
<1>1. ont \in Ontologies /\ list \in Lists
  BY InvType
<1>2. Fair(Told', ont', tree')
  BY DEF Fair
<1>3. QED
  BY <1>1, <1>2, InvFrom DEF InstancesInv

LEMMA ClickKeeps ==
  ASSUME InstancesInv, NEW i \in DOMAIN tree, ClassesTreeClick(i)
  PROVE  InstancesInv'
<1>1. Fair(Told, ont, Pick(tree, i))
  BY PickFair DEF InstancesInv
<1>2. done' = done /\ ont' = ont /\ LoadInstanceList(ont, Pick(tree, i))
  BY DEF ClassesTreeClick
<1>3. done' \subseteq Gestures /\ (Told' => Told)
  BY <1>2, InvType DEF Told, Only
<1>4. QED
  BY <1>1, <1>2, <1>3, LookKeeps

LEMMA OpenKeeps ==
  ASSUME InstancesInv, NEW i \in DOMAIN tree, OpenSubClassesList(i)
  PROVE  InstancesInv'
<1>1. ont \in Ontologies /\ Fair(Told, ont, tree)
  BY InvType DEF InstancesInv
<1>2. PICK e : e = Emptied(tree, i)
  OBVIOUS
<1>3. Fair(Told, ont, e) /\ i \in DOMAIN e
  BY <1>1, <1>2, EmptiedFair
<1>4. PICK l : l = LoadSubTree(ont, tree, i)
  OBVIOUS
<1>5. Fair(Told, ont, l)
  <2>1. l = SubClassesTree(ont, e, i)
    BY <1>2, <1>4 DEF LoadSubTree
  <2>2. QED
    BY <2>1, <1>1, <1>3, LevelFair
<1>6. PICK shut, opened, left : /\ shut = [e EXCEPT ![i].open = FALSE]
                                /\ opened = [l EXCEPT ![i].open = TRUE]
                                /\ left = [shut EXCEPT ![i].open = TRUE]
  OBVIOUS
<1>7. Fair(Told, ont, shut) /\ Fair(Told, ont, opened)
  <2>1. Alike(shut, e) /\ Alike(opened, l)
    BY <1>3, <1>5, <1>6, Marked DEF Fair
  <2>2. QED
    BY <2>1, <1>3, <1>5, AlikeFair
<1>8. Fair(Told, ont, left)
  <2>1. Alike(left, shut)
    BY <1>6, <1>7, Marked DEF Fair
  <2>2. QED
    BY <2>1, <1>7, AlikeFair
<1>9. done' = done /\ ont' = ont
  BY DEF OpenSubClassesList
<1>10. done' \subseteq Gestures /\ (Told' => Told)
  BY <1>9, InvType DEF Told, Only
<1>11. \/ LoadInstanceList(ont, shut)
       \/ LoadInstanceList(ont, opened)
       \/ tree' = left /\ UNCHANGED list
  BY <1>2, <1>4, <1>6 DEF OpenSubClassesList
<1>12. CASE LoadInstanceList(ont, shut)
  BY <1>7, <1>9, <1>10, <1>12, LookKeeps
<1>13. CASE LoadInstanceList(ont, opened)
  BY <1>7, <1>9, <1>10, <1>13, LookKeeps
<1>14. CASE tree' = left /\ UNCHANGED list
  BY <1>8, <1>9, <1>10, <1>14, TreeKeeps
<1>15. QED
  BY <1>11, <1>12, <1>13, <1>14

LEMMA SearchKeeps ==
  ASSUME InstancesInv, NEW c \in Class, SearchFocus(c)
  PROVE  InstancesInv'
<1>1. ont \in Ontologies /\ list \in Lists /\ Fair(Told, ont, tree)
  BY InvType DEF InstancesInv
<1>2. ont' = ont /\ done' \subseteq Gestures /\ (Told' => Told) /\ list' = ListOf(ont, c)
  BY MayTells DEF SearchFocus
<1>3. PICK t \in Located(ont, tree, c) : tree' = InstancesShown(ont, Focused(t, FirstItemOf(t, c)), c)
  BY DEF SearchFocus
<1>4. Fair(Told, ont, t)
  BY <1>1, LocatedFair
<1>5. PICK i, r : i = FirstItemOf(t, c) /\ r = FocusedRow(t, i)
  OBVIOUS
<1>6. PICK u, v : u = Revealed(t, i) /\ v = Pick(u, r)
  OBVIOUS
<1>7. Fair(Told, ont, v)
  BY <1>4, <1>6, RevealedFair, PickFair
<1>8. tree' = InstancesShown(ont, v, c)
  BY <1>3, <1>5, <1>6 DEF Focused
<1>9. Fair(Told, ont, tree')
  BY <1>1, <1>7, <1>8, SeenFair
<1>10. list' \in Lists /\ (Told => Listing(ont, list'))
  BY <1>1, <1>2, ListOfIs DEF InstancesInv
<1>11. Fair(Told', ont', tree') /\ (Told' => Tame(ont') /\ Listing(ont', list'))
  BY <1>2, <1>9, <1>10 DEF InstancesInv, Fair
<1>12. QED
  BY <1>1, <1>2, <1>10, <1>11, InvFrom

LEMMA RowType ==
  ASSUME InstancesInv, NEW i \in DOMAIN tree
  PROVE  tree[i] \in TreeItem /\ tree[i].cls \in Class
  BY InvType, ItemsType

LEMMA CreateClassKeeps ==
  ASSUME InstancesInv, NEW c \in Class, NEW s \in Class, CreateClass(c, s)
  PROVE  InstancesInv'
<1>1. ont \in Ontologies /\ list \in Lists /\ Fair(Told, ont, tree)
  BY InvType DEF InstancesInv
<1>2. /\ done' \subseteq Gestures /\ (Told' => Told) /\ list' = list
      /\ s \in ont.live /\ c \notin ont.live
      /\ ont' = [ont EXCEPT !.live = @ \cup {c}, !.supers[c] = {s}]
      /\ tree' = CreatedSubClass(tree, c, s)
  BY MayTells DEF CreateClass
<1>3. ont' \in Ontologies /\ ont'.types = ont.types
  <2>1. /\ ont.live \in SUBSET Class /\ ont.supers \in [Class -> SUBSET Class]
        /\ ont.types \in [Individual -> SUBSET Class] /\ ont = [live |-> ont.live, supers |-> ont.supers, types |-> ont.types]
    BY <1>1 DEF Ontologies
  <2>2. [ont.supers EXCEPT ![c] = {s}] \in [Class -> SUBSET Class]
    BY <2>1
  <2>3. ont' = [live |-> ont.live \cup {c}, supers |-> [ont.supers EXCEPT ![c] = {s}], types |-> ont.types]
    BY <1>2, <2>1
  <2>4. QED
    BY <2>1, <2>2, <2>3 DEF Ontologies
<1>4. Told => Tame(ont')
  BY <1>1, <1>2, CreatedTame DEF InstancesInv
<1>5. Told => \A d \in Class : /\ NumInst(ont', d) = NumInst(ont, d)
                               /\ Instances(ont', d) = Instances(ont, d)
  BY <1>1, <1>3, <1>4, NumbersKept DEF InstancesInv
<1>6. Told => NumInst(ont', c) = 0
  <2>1. SUFFICES ASSUME Told PROVE Instances(ont', c) = {}
    BY NumbersType
  <2>2. \A x \in Individual : c \notin ont.types[x]
    BY <2>1, <1>2 DEF InstancesInv, Tame
  <2>3. Instances(ont', c) = {x \in Individual : c \in ont'.types[x]}
    BY <2>1, <1>3, <1>4, InstancesAre
  <2>4. QED
    BY <2>2, <2>3, <1>3
<1>7. Fair(Told, ont', tree)
  BY <1>1, <1>5, StillFair
<1>8. Fair(Told, ont', tree')
  BY <1>2, <1>6, <1>7, CreatedFair
<1>9. Fair(Told', ont', tree')
  BY <1>2, <1>8 DEF Fair
<1>10. Told => Listing(ont', list')
  BY <1>1, <1>2, <1>5 DEF InstancesInv, Listing, Lists
<1>11. QED
  BY <1>1, <1>2, <1>3, <1>4, <1>9, <1>10, InvFrom

LEMMA RemoveClassKeeps ==
  ASSUME InstancesInv, NEW i \in DOMAIN tree, RemoveClass(i)
  PROVE  InstancesInv'
<1>1. ont \in Ontologies /\ list \in Lists /\ Fair(Told, ont, tree)
  BY InvType DEF InstancesInv
<1>2. PICK c \in Class : c = tree[i].cls
  BY RowType
<1>3. /\ done' \subseteq Gestures /\ (Told' => Told) /\ list' = list
      /\ tree[i].count = 0 /\ ont' = Deleted(ont, c) /\ tree' = RemovedClass(tree, c)
  BY <1>2, MayTells DEF RemoveClass, Removable
<1>4. Told => Instances(ont, c) = {}
  <2>1. Told => tree[i].count = NumInst(ont, c)
    BY <1>1, <1>2 DEF Fair, Counted
  <2>2. QED
    BY <2>1, <1>3, NumbersType
<1>5. ont' \in Ontologies /\ (Told => Tame(ont') /\ ont'.types = ont.types)
  BY <1>1, <1>3, <1>4, DeletedTame DEF InstancesInv
<1>6. Told => \A d \in Class : /\ NumInst(ont', d) = NumInst(ont, d)
                               /\ Instances(ont', d) = Instances(ont, d)
  BY <1>1, <1>5, NumbersKept DEF InstancesInv
<1>7. Fair(Told, ont', tree)
  BY <1>1, <1>6, StillFair
<1>8. Fair(Told, ont', tree')
  BY <1>3, <1>7, RemovedFair
<1>9. Fair(Told', ont', tree')
  BY <1>3, <1>8 DEF Fair
<1>10. Told => Listing(ont', list')
  BY <1>1, <1>3, <1>6 DEF InstancesInv, Listing, Lists
<1>11. QED
  BY <1>1, <1>3, <1>5, <1>9, <1>10, InvFrom

\* What the property does not speak of has to keep the types only.
LEMMA UntoldKeeps ==
  ASSUME InstancesInv, ont' \in Ontologies, list' \in Lists, UNCHANGED tree,
         NEW kind \in {"rename", "types"}, May(kind)
  PROVE  InstancesInv'
<1>1. done' \subseteq Gestures /\ kind \in done'
  BY MayTells DEF May
<1>2. ~Told'
  BY <1>1 DEF Told, Only, PlainGestures
<1>3. Fair(Told', ont', tree')
  BY <1>2, InvType DEF Fair
<1>4. QED
  BY <1>1, <1>2, <1>3, InvFrom

LEMMA RenameClassKeeps ==
  ASSUME InstancesInv, NEW i \in DOMAIN tree, NEW n \in Class, RenameClass(i, n)
  PROVE  InstancesInv'
<1>1. ont \in Ontologies /\ list \in Lists
  BY InvType
<1>2. PICK c \in Class : c = tree[i].cls
  BY RowType
<1> DEFINE renamed(S) == IF c \in S THEN (S \ {c}) \cup {n} ELSE S
<1>3. /\ UNCHANGED <<tree, list>> /\ May("rename")
      /\ ont' = [live |-> renamed(ont.live),
                 supers |-> [d \in Class |-> IF d = n THEN renamed(ont.supers[c])
                                             ELSE IF d = c THEN {} ELSE renamed(ont.supers[d])],
                 types |-> [x \in Individual |-> renamed(ont.types[x])]]
  BY <1>2 DEF RenameClass
<1>4. ont' \in Ontologies
  <2>1. /\ ont.live \in SUBSET Class /\ \A d \in Class : ont.supers[d] \in SUBSET Class
        /\ \A x \in Individual : ont.types[x] \in SUBSET Class
    BY <1>1 DEF Ontologies
  <2>2. \A S \in SUBSET Class : renamed(S) \in SUBSET Class
    OBVIOUS
  <2> HIDE DEF renamed
  <2>3. [d \in Class |-> IF d = n THEN renamed(ont.supers[c])
                         ELSE IF d = c THEN {} ELSE renamed(ont.supers[d])] \in [Class -> SUBSET Class]
    BY <2>1, <2>2
  <2>4. [x \in Individual |-> renamed(ont.types[x])] \in [Individual -> SUBSET Class]
    BY <2>1, <2>2
  <2>5. renamed(ont.live) \in SUBSET Class
    BY <2>1, <2>2
  <2>6. QED
    BY <1>3, <2>3, <2>4, <2>5 DEF Ontologies
<1>5. QED
  BY <1>1, <1>3, <1>4, UntoldKeeps

LEMMA RenameIndividualKeeps ==
  ASSUME InstancesInv, NEW x \in Individual, NEW y \in Individual, RenameIndividual(x, y)
  PROVE  InstancesInv'
<1>1. ont \in Ontologies /\ list \in Lists
  BY InvType
<1>2. /\ UNCHANGED tree /\ May("rename")
      /\ ont' = [ont EXCEPT !.types[x] = {}, !.types[y] = ont.types[x]]
      /\ list' = [list EXCEPT !.insts = (@ \ {x}) \cup {y}]
  BY DEF RenameIndividual
<1>3. list' \in Lists
  BY <1>1, <1>2 DEF Lists
<1>4. ont' \in Ontologies
  <2>1. /\ ont.types \in [Individual -> SUBSET Class]
        /\ ont = [live |-> ont.live, supers |-> ont.supers, types |-> ont.types]
    BY <1>1 DEF Ontologies
  <2>2. PICK g : g = [[ont.types EXCEPT ![x] = {}] EXCEPT ![y] = ont.types[x]]
    OBVIOUS
  <2>3. g \in [Individual -> SUBSET Class]
    BY <2>1, <2>2
  <2>4. ont' = [live |-> ont.live, supers |-> ont.supers, types |-> g]
    BY <1>2, <2>1, <2>2
  <2>5. QED
    BY <2>3, <2>4, <1>1 DEF Ontologies
<1>5. QED
  BY <1>2, <1>3, <1>4, UntoldKeeps

LEMMA TypesKeep ==
  ASSUME InstancesInv, NEW x \in Individual, NEW c \in Class, AddType(x, c) \/ RemoveType(x, c)
  PROVE  InstancesInv'
<1>1. ont \in Ontologies /\ list \in Lists /\ Thing \in Class /\ ont.types[x] \in SUBSET Class
  BY InvType, ClassAssumption DEF Ontologies
<1>2. UNCHANGED tree /\ May("types")
  BY DEF AddType, RemoveType
<1>3. PICK T \in SUBSET Class : ont' = [ont EXCEPT !.types[x] = T]
  <2>1. CASE AddType(x, c)
    <3>1. ont' = [ont EXCEPT !.types[x] = ont.types[x] \cup {c}]
      BY <2>1 DEF AddType
    <3>2. ont.types[x] \cup {c} \in SUBSET Class
      BY <1>1
    <3>3. QED
      BY <3>1, <3>2
  <2>2. CASE RemoveType(x, c)
    <3>1. ont' = [ont EXCEPT !.types[x] = IF ont.types[x] = {c} THEN {Thing} ELSE ont.types[x] \ {c}]
      BY <2>2 DEF RemoveType
    <3>2. (IF ont.types[x] = {c} THEN {Thing} ELSE ont.types[x] \ {c}) \in SUBSET Class
      BY <1>1
    <3>3. QED
      BY <3>1, <3>2
  <2>3. QED
    BY <2>1, <2>2
<1>4. ont' \in Ontologies
  <2>1. Retyped(ont', ont, x, T)
    BY <1>3 DEF Retyped
  <2>2. QED
    BY <1>1, <2>1, TypedTame
<1>5. list' \in Lists
  <2>1. \/ list' = [list EXCEPT !.insts = list.insts \cup {x}]
        \/ list' = [list EXCEPT !.insts = list.insts \ {x}]
        \/ list' = [list EXCEPT !.insts = list.insts]
    BY DEF AddType, RemoveType
  <2>2. list.insts \in SUBSET Individual /\ list = [cls |-> list.cls, insts |-> list.insts]
    BY <1>1 DEF Lists
  <2>3. QED
    BY <1>1, <2>1, <2>2 DEF Lists
<1>6. QED
  BY <1>2, <1>4, <1>5, UntoldKeeps

\* An individual of the class of a current row: what is counted changes for
\* that class only.
LEMMA PopulatedIs ==
  ASSUME InstancesInv, NEW c \in Class, c \in ont.live, NEW x \in Individual, ont.types[x] = {},
         NEW n, Retyped(n, ont, x, {c})
  PROVE  /\ n \in Ontologies /\ n.live = ont.live /\ (Told => Tame(n))
         /\ Told => \A d \in Class : d # c => NumInst(n, d) = NumInst(ont, d)
<1>1. ont \in Ontologies /\ {c} \in SUBSET Class
  BY InvType
<1>2. /\ n \in Ontologies /\ n.live = ont.live
      /\ \A y \in Individual : n.types[y] = IF y = x THEN {c} ELSE ont.types[y]
      /\ (Tame(ont) => Tame(n))
  <2>1. PICK T \in SUBSET Class : T = {c}
    OBVIOUS
  <2>2. Retyped(n, ont, x, T)
    BY <2>1
  <2>3. /\ n \in Ontologies /\ n.live = ont.live
        /\ \A y \in Individual : n.types[y] = IF y = x THEN T ELSE ont.types[y]
        /\ (Tame(ont) /\ Single(ont, T) => Tame(n))
    BY <2>2, <1>1, TypedTame
  <2>4. Single(ont, T)
    BY <2>1 DEF Single
  <2>5. QED
    BY <2>1, <2>3, <2>4
<1>3. Told => Tame(n)
  BY <1>2 DEF InstancesInv
<1>4. ASSUME Told, NEW d \in Class, d # c PROVE NumInst(n, d) = NumInst(ont, d)
  <2>1. /\ Instances(n, d) = {y \in Individual : d \in n.types[y]}
        /\ Instances(ont, d) = {y \in Individual : d \in ont.types[y]}
    BY <1>1, <1>2, <1>3, <1>4, InstancesAre DEF InstancesInv
  <2>2. \A y \in Individual : d \in n.types[y] <=> d \in ont.types[y]
    BY <1>2, <1>4
  <2>3. Instances(n, d) = Instances(ont, d)
    BY <2>1, <2>2
  <2>4. QED
    BY <2>3 DEF NumInst
<1>5. QED
  BY <1>2, <1>3, <1>4

\* A tree that is right but for the class that got an individual, and has its
\* current row on that class, is right after the look at it.
LEMMA PopulatedKeeps ==
  ASSUME InstancesInv, ont' \in Ontologies, Told' => Told, done' \subseteq Gestures,
         NEW c \in Class, c \in ont'.live, Told => Tame(ont'),
         NEW t \in Seq(TreeItem), Told => Almost(ont', t, c),
         NEW i \in DOMAIN t, t[i].cls = c, Picked(t) # {}, Told => Picked(t) = {i},
         LoadInstanceList(ont', t)
  PROVE  InstancesInv'
<1>1. list \in Lists /\ DOMAIN t = 1..Len(t) /\ \A k \in 1..Len(t) : t[k].cls \in Class
  BY InvType, ItemsType
<1>2. PICK j : j = CHOOSE k \in Picked(t) : TRUE
  OBVIOUS
<1>3. j \in Picked(t) /\ j \in 1..Len(t) /\ (Told => j = i)
  BY <1>1, <1>2 DEF Picked
<1>4. PICK d : d = t[j].cls
  OBVIOUS
<1>5. d \in Class /\ (Told => d = c)
  BY <1>1, <1>3, <1>4
<1>6. tree' = InstancesShown(ont', t, d) /\ list' = ListOf(ont', d)
  BY <1>2, <1>4 DEF LoadInstanceList
<1>7. Told => Almost(ont', t, d) /\ d \in ont'.live
  BY <1>5
<1>8. Fair(Told, ont', tree')
  BY <1>6, <1>7, ShownFair
<1>9. list' \in Lists /\ (Told => Listing(ont', list'))
  BY <1>1, <1>5, <1>6, ListOfIs
<1>10. Fair(Told', ont', tree')
  BY <1>8 DEF Fair
<1>11. QED
  BY <1>9, <1>10, InvFrom

LEMMA CreateIndividualKeeps ==
  ASSUME InstancesInv, NEW i \in DOMAIN tree, NEW x \in Individual, CreateIndividual(i, x)
  PROVE  InstancesInv'
<1>1. ont \in Ontologies /\ tree \in Seq(TreeItem)
  BY InvType
<1>2. PICK c \in Class : c = tree[i].cls
  BY RowType
<1>3. /\ done' \subseteq Gestures /\ (Told' => Told) /\ i \in Picked(tree) /\ c \in ont.live
      /\ ont.types[x] = {} /\ ont' = [ont EXCEPT !.types[x] = {c}] /\ LoadInstanceList(ont', tree)
  BY <1>2, MayTells DEF CreateIndividual
<1>4. /\ ont' \in Ontologies /\ ont'.live = ont.live /\ (Told => Tame(ont'))
      /\ Told => \A d \in Class : d # c => NumInst(ont', d) = NumInst(ont, d)
  <2>1. Retyped(ont', ont, x, {c})
    BY <1>3 DEF Retyped
  <2>2. QED
    BY <2>1, <1>3, PopulatedIs
<1>5. DOMAIN tree = 1..Len(tree) /\ \A k \in 1..Len(tree) : tree[k].cls \in Class
  BY <1>1, ItemsType
<1>6. Told => Almost(ont', tree, c)
  BY <1>4, <1>5 DEF InstancesInv, Fair, Counted, Almost
<1>7. Picked(tree) # {} /\ (Told => Picked(tree) = {i})
  BY <1>3 DEF Picked, InstancesInv, Fair, OnePicked
<1>8. QED
  BY <1>1, <1>2, <1>3, <1>4, <1>6, <1>7, PopulatedKeeps

LEMMA DropKeeps ==
  ASSUME InstancesInv, NEW i \in DOMAIN tree, NEW x \in Individual, ClassDragDrop(i, x)
  PROVE  InstancesInv'
<1>1. ont \in Ontologies /\ tree \in Seq(TreeItem)
  BY InvType
<1>2. PICK c \in Class : c = tree[i].cls
  BY RowType
<1>3. /\ done' \subseteq Gestures /\ (Told' => Told) /\ c \in ont.live
      /\ ont.types[x] = {} /\ ont' = [ont EXCEPT !.types[x] = {c}]
      /\ LoadInstanceList(ont', Pick(InstancesShown(ont', tree, c), i))
  BY <1>2, MayTells DEF ClassDragDrop
<1>4. /\ ont' \in Ontologies /\ ont'.live = ont.live /\ (Told => Tame(ont'))
      /\ Told => \A d \in Class : d # c => NumInst(ont', d) = NumInst(ont, d)
  <2>1. Retyped(ont', ont, x, {c})
    BY <1>3 DEF Retyped
  <2>2. QED
    BY <2>1, <1>3, PopulatedIs
<1>5. DOMAIN tree = 1..Len(tree) /\ \A k \in 1..Len(tree) : tree[k].cls \in Class
  BY <1>1, ItemsType
<1>6. Told => Almost(ont', tree, c)
  BY <1>4, <1>5 DEF InstancesInv, Fair, Counted, Almost
<1>7. PICK u : u = InstancesShown(ont', tree, c)
  OBVIOUS
<1>8. Fair(Told, ont', u) /\ DOMAIN u = DOMAIN tree /\ \A k \in DOMAIN tree : u[k].cls = tree[k].cls
  <2>1. Told => Almost(ont', tree, c) /\ c \in ont'.live
    BY <1>3, <1>4, <1>6
  <2>2. PICK o \in Ontologies : o = ont'
    BY <1>4
  <2>3. Told => Almost(o, tree, c) /\ c \in o.live
    BY <2>1, <2>2
  <2>4. u = InstancesShown(o, tree, c)
    BY <1>7, <2>2
  <2>5. Fair(Told, o, u) /\ DOMAIN u = DOMAIN tree /\ \A k \in DOMAIN tree : u[k].cls = tree[k].cls
    BY <1>1, <2>3, <2>4, ShownFair
  <2>6. QED
    BY <2>2, <2>5
<1>9. PICK t : t = Pick(u, i)
  OBVIOUS
<1>10. Fair(Told, ont', t) /\ DOMAIN t = DOMAIN u /\ t[i].cls = u[i].cls /\ Picked(t) = {i}
  BY <1>8, <1>9, PickFair
<1>11. t[i].cls = c /\ i \in DOMAIN t /\ t \in Seq(TreeItem) /\ (Told => Almost(ont', t, c))
  BY <1>2, <1>8, <1>10 DEF Fair, Counted, Almost
<1>12. LoadInstanceList(ont', t) /\ Picked(t) # {} /\ c \in ont'.live
  BY <1>3, <1>4, <1>7, <1>9, <1>10
<1>13. QED
  BY <1>3, <1>4, <1>10, <1>11, <1>12, PopulatedKeeps

LEMMA RemoveIndividualKeeps ==
  ASSUME InstancesInv, NEW x \in Individual, RemoveIndividual(x)
  PROVE  InstancesInv'
<1>1. ont \in Ontologies /\ list \in Lists /\ tree \in Seq(TreeItem) /\ Fair(Told, ont, tree)
  BY InvType DEF InstancesInv
<1>2. PICK c : c = list.cls
  OBVIOUS
<1>3. /\ done' \subseteq Gestures /\ (Told' => Told) /\ x \in list.insts /\ ont.types[x] # {}
      /\ ont' = [ont EXCEPT !.types[x] = {}] /\ list' = [list EXCEPT !.insts = @ \ {x}]
      /\ tree' = [k \in DOMAIN tree |->
                    IF tree[k].cls = c THEN [tree[k] EXCEPT !.count = @ - 1] ELSE tree[k]]
  BY <1>2, MayTells DEF RemoveIndividual
<1>4. /\ ont' \in Ontologies /\ ont'.live = ont.live
      /\ \A y \in Individual : ont'.types[y] = IF y = x THEN {} ELSE ont.types[y]
      /\ Told => Tame(ont')
  <2>1. PICK T \in SUBSET Class : T = {}
    OBVIOUS
  <2>2. PICK n : n = ont'
    OBVIOUS
  <2>3. Retyped(n, ont, x, T)
    BY <2>1, <2>2, <1>3 DEF Retyped
  <2>4. /\ n \in Ontologies /\ n.live = ont.live
        /\ \A y \in Individual : n.types[y] = IF y = x THEN T ELSE ont.types[y]
        /\ (Tame(ont) /\ Single(ont, T) => Tame(n))
    BY <2>3, <1>1, TypedTame
  <2>5. Single(ont, T)
    BY <2>1 DEF Single
  <2>6. QED
    BY <2>1, <2>2, <2>4, <2>5 DEF InstancesInv
<1>5. list' \in Lists /\ list'.cls = c /\ list'.insts = list.insts \ {x}
  BY <1>1, <1>2, <1>3 DEF Lists
<1>6. Told => c \in Class /\ x \in Instances(ont, c) /\ list.insts = Instances(ont, c)
  BY <1>1, <1>2, <1>3 DEF InstancesInv, Listing, Lists
<1>7. Told => \A d \in Class : /\ Instances(ont', d) = IF d = c THEN Instances(ont, d) \ {x} ELSE Instances(ont, d)
                               /\ NumInst(ont', d) = IF d = c THEN NumInst(ont, d) - 1 ELSE NumInst(ont, d)
  <2>1. SUFFICES ASSUME Told, NEW d \in Class
                 PROVE  /\ Instances(ont', d) = IF d = c THEN Instances(ont, d) \ {x} ELSE Instances(ont, d)
                        /\ NumInst(ont', d) = IF d = c THEN NumInst(ont, d) - 1 ELSE NumInst(ont, d)
    OBVIOUS
  <2>2. \A e \in Class : /\ Instances(ont', e) = {y \in Individual : e \in ont'.types[y]}
                         /\ Instances(ont, e) = {y \in Individual : e \in ont.types[y]}
    BY <1>1, <1>4, <2>1, InstancesAre DEF InstancesInv
  <2>3. c \in ont.types[x] /\ \A e \in ont.types[x] : e = c
    BY <2>1, <2>2, <1>6 DEF InstancesInv, Tame
  <2>4. \A y \in Individual : d \in ont'.types[y] <=> d \in ont.types[y] /\ ~(d = c /\ y = x)
    BY <1>4, <2>3
  <2>5. Instances(ont', d) = IF d = c THEN Instances(ont, d) \ {x} ELSE Instances(ont, d)
    BY <2>2, <2>4
  <2>6. CASE d = c
    <3>1. Cardinality(Instances(ont, d) \ {x}) = Cardinality(Instances(ont, d)) - 1
      BY <2>1, <2>6, <1>6, NumbersType, FS_RemoveElement
    <3>2. QED
      BY <2>5, <2>6, <3>1 DEF NumInst
  <2>7. CASE d # c
    BY <2>5, <2>7 DEF NumInst
  <2>8. QED
    BY <2>5, <2>6, <2>7
<1>8. Told => Listing(ont', list')
  <2>1. SUFFICES ASSUME Told PROVE Listing(ont', list')
    OBVIOUS
  <2>2. c # NoClass /\ c \in Class
    BY <2>1, <1>6, ClassAssumption
  <2>3. list'.insts = Instances(ont', c)
    BY <2>1, <2>2, <1>5, <1>6, <1>7
  <2>4. QED
    BY <2>2, <2>3, <1>5 DEF Listing
<1>9. ASSUME NEW r \in TreeItem
      PROVE  /\ [r EXCEPT !.count = @ - 1] \in TreeItem /\ [r EXCEPT !.count = @ - 1].cls = r.cls
             /\ [r EXCEPT !.count = @ - 1].count = r.count - 1
             /\ [r EXCEPT !.count = @ - 1].picked = r.picked
  BY DEF TreeItem
<1>10. DOMAIN tree = 1..Len(tree) /\ Len(tree) \in Nat /\ \A k \in 1..Len(tree) : tree[k] \in TreeItem /\ tree[k].cls \in Class
  BY <1>1, ItemsType
<1>11. PICK u : u = tree'
  OBVIOUS
<1>12. ASSUME NEW k \in 1..Len(tree)
       PROVE  /\ u[k] \in TreeItem /\ u[k].cls = tree[k].cls /\ u[k].picked = tree[k].picked
              /\ u[k].count = IF tree[k].cls = c THEN tree[k].count - 1 ELSE tree[k].count
  <2>1. u[k] = IF tree[k].cls = c THEN [tree[k] EXCEPT !.count = @ - 1] ELSE tree[k]
    BY <1>3, <1>10, <1>11
  <2>2. tree[k] \in TreeItem
    BY <1>10
  <2>3. QED
    BY <2>1, <2>2, <1>9
<1>13. u \in Seq(TreeItem) /\ DOMAIN u = 1..Len(tree)
  <2>1. u \in [1..Len(tree) -> TreeItem]
    BY <1>3, <1>10, <1>11, <1>12
  <2>2. QED
    BY <2>1, <1>10
<1>14. Told => Counted(ont', u)
  BY <1>1, <1>7, <1>10, <1>12, <1>13 DEF Fair, Counted
<1>15. Told => OnePicked(u)
  BY <1>1, <1>10, <1>12, <1>13 DEF Fair, OnePicked
<1>16. Fair(Told', ont', tree')
  BY <1>3, <1>11, <1>13, <1>14, <1>15 DEF Fair
<1>17. QED
  BY <1>3, <1>4, <1>5, <1>8, <1>16, InvFrom

\* What the editor does to the superclasses leaves the types alone.
LEMMA SuperKeeps ==
  ASSUME InstancesInv, NEW c \in Class, NEW s \in Class,
         AddSuperClass(c, s) \/ RemoveSuperClass(c, s)
  PROVE  InstancesInv'
<1>1. ont \in Ontologies /\ list \in Lists /\ Fair(Told, ont, tree)
  BY InvType DEF InstancesInv
<1>2. /\ done' \subseteq Gestures /\ (Told' => Told) /\ list' = list
      /\ tree' = RefreshTree(ont', tree, c)
  BY MayTells DEF AddSuperClass, RemoveSuperClass
<1>3. ont' \in Ontologies /\ (Told => Tame(ont') /\ ont'.types = ont.types)
  <2>1. CASE AddSuperClass(c, s)
    <3>1. /\ c \in ont.live /\ s \in ont.live /\ c # s /\ c \notin SuperClasses(ont, s)
          /\ ont' = [ont EXCEPT !.supers[c] = @ \cup {s}]
      BY <2>1 DEF AddSuperClass
    <3>2. QED
      BY <3>1, <1>1, MoreTame DEF InstancesInv
  <2>2. CASE RemoveSuperClass(c, s)
    <3>1. ont' = [ont EXCEPT !.supers[c] = @ \ {s}]
      BY <2>2 DEF RemoveSuperClass
    <3>2. QED
      BY <3>1, <1>1, FewerTame DEF InstancesInv
  <2>3. QED
    BY <2>1, <2>2
<1>4. Told => \A d \in Class : /\ NumInst(ont', d) = NumInst(ont, d)
                               /\ Instances(ont', d) = Instances(ont, d)
  BY <1>1, <1>3, NumbersKept DEF InstancesInv
<1>5. Fair(Told, ont', tree)
  BY <1>1, <1>4, StillFair
<1>6. Fair(Told, ont', tree')
  BY <1>2, <1>5, RefreshedFair
<1>7. Fair(Told', ont', tree')
  BY <1>2, <1>6 DEF Fair
<1>8. Told => Listing(ont', list')
  BY <1>1, <1>2, <1>4 DEF InstancesInv, Listing, Lists
<1>9. QED
  BY <1>1, <1>2, <1>3, <1>7, <1>8, InvFrom

LEMMA InstancesInvNext == InstancesInv /\ [ClassNext]_classVars => InstancesInv'
<1> SUFFICES ASSUME InstancesInv, [ClassNext]_classVars PROVE InstancesInv'
  OBVIOUS
<1>1. CASE UNCHANGED classVars
  BY <1>1 DEF classVars, InstancesInv, ClassTypeOK, Fair, Counted, OnePicked, Told, Only
<1>2. CASE Show \/ Hide
  BY <1>2, ShowKeeps, HideKeeps
<1>3. ASSUME NEW i \in DOMAIN tree,
             \/ ClassesTreeClick(i) \/ OpenSubClassesList(i) \/ RemoveClass(i)
             \/ \E n \in Class : RenameClass(i, n)
             \/ \E x \in Individual : CreateIndividual(i, x) \/ ClassDragDrop(i, x)
      PROVE  InstancesInv'
  BY <1>3, ClickKeeps, OpenKeeps, RemoveClassKeeps, RenameClassKeeps, CreateIndividualKeeps, DropKeeps
<1>4. ASSUME NEW c \in Class, SearchFocus(c) PROVE InstancesInv'
  BY <1>4, SearchKeeps
<1>5. ASSUME NEW c \in Class, NEW s \in Class,
             CreateClass(c, s) \/ AddSuperClass(c, s) \/ RemoveSuperClass(c, s)
      PROVE  InstancesInv'
  BY <1>5, CreateClassKeeps, SuperKeeps
<1>6. ASSUME NEW x \in Individual,
             \/ RemoveIndividual(x)
             \/ \E y \in Individual : RenameIndividual(x, y)
             \/ \E c \in Class : AddType(x, c) \/ RemoveType(x, c)
      PROVE  InstancesInv'
  BY <1>6, RemoveIndividualKeeps, RenameIndividualKeeps, TypesKeep
<1>7. QED
  BY <1>1, <1>2, <1>3, <1>4, <1>5, <1>6 DEF ClassNext

LEMMA InstancesTell == InstancesInv => InstancesAreCurrent
<1> SUFFICES ASSUME InstancesInv, Told PROVE ListIsCurrent /\ CountsAreCurrent
  BY DEF InstancesAreCurrent, Told
<1>1. ListIsCurrent
  BY DEF InstancesInv, Listing, ListIsCurrent
<1>2. CountsAreCurrent
  BY DEF InstancesInv, Fair, Counted, CountsAreCurrent
<1>3. QED
  BY <1>1, <1>2

(* The list of instances is that of the class in its header, and the number *)
(* kept in every item is that of the class's instances, whatever is created,*)
(* deleted, dropped, moved or searched for (classEventsGUI.js).             *)
THEOREM NumbersStayCurrent == ClassSpec => []InstancesAreCurrent
<1>1. ClassSpec => []InstancesInv
  BY InstancesStart, InstancesInvNext, PTL DEF ClassSpec
<1>2. QED
  BY <1>1, InstancesTell, PTL

-----------------------------------------------------------------------------
(* The levels of the class tree *)

\* The item at p is the one right above the item at k.
Under(t, p, k) ==
  /\ p \in 1..(k - 1) /\ t[k].depth = t[p].depth + 1
  /\ \A m \in (p + 1)..(k - 1) : t[m].depth >= t[k].depth

(* Outermost is owl:Thing, and every other item is below a class that the   *)
(* server has right above its own.                                          *)
Rooted(t) == 1 \in DOMAIN t => t[1].cls = Thing /\ t[1].depth = 0

Placed(o, t) ==
  \A k \in 2..Len(t) : \E p \in 1..(k - 1) :
    Under(t, p, k) /\ t[k].cls \in DirectSubClasses(o, t[p].cls)

Once(t) == \A k, l \in DOMAIN t : t[k].cls = t[l].cls => k = l

Filled(o, t, i) ==
  t[i].open /\ t[i].kids => \A c \in DirectSubClasses(o, t[i].cls) : InTree(t, c)

Twisties(o, t) == \A i \in DOMAIN t : ~t[i].kids => DirectSubClasses(o, t[i].cls) = {}

\* What is right above the current row is open.
Seen(o, t) ==
  \A i, k \in DOMAIN t : t[k].picked /\ t[k].cls \in DirectSubClasses(o, t[i].cls) => t[i].open

\* All levels are right but, maybe, for what is missing below c.
LevelsBut(o, t, c) ==
  /\ t \in Seq(TreeItem) /\ Rooted(t) /\ Placed(o, t) /\ Once(t) /\ Twisties(o, t) /\ Seen(o, t)
  /\ \A j \in DOMAIN t : t[j].cls # c => Filled(o, t, j)

Levels(o, t) == LevelsBut(o, t, NoClass)

\* No class is right below two others, and none right below itself.
OneAbove(o) ==
  \A c, p, q \in Class :
    c \in DirectSubClasses(o, p) /\ c \in DirectSubClasses(o, q) => p = q

LEMMA SubClassesType ==
  ASSUME NEW o \in Ontologies, NEW c
  PROVE  /\ DirectSubClasses(o, c) \subseteq Class /\ DirectSubClasses(o, c) \subseteq o.live
         /\ Thing \notin DirectSubClasses(o, c)
<1>1. \A d : d \in DirectSubClasses(o, c) => d \in o.live /\ c \in DirectSupers(o, d)
  BY DEF DirectSubClasses
<1>2. DirectSupers(o, Thing) = {}
  BY DEF DirectSupers
<1>3. o.live \subseteq Class
  BY DEF Ontologies
<1>4. QED
  BY <1>1, <1>2, <1>3

\* What is below a class is below the one item of that class.
LEMMA RowAbove ==
  ASSUME NEW o \in Ontologies, OneAbove(o), NEW t \in Seq(TreeItem),
         Rooted(t), Placed(o, t), Once(t), NEW k \in DOMAIN t, NEW c \in Class,
         t[k].cls \in DirectSubClasses(o, c)
  PROVE  \E p \in DOMAIN t : Under(t, p, k) /\ t[p].cls = c
<1>1. /\ Len(t) \in Nat /\ DOMAIN t = 1..Len(t) /\ \A x \in 1..Len(t) : t[x].cls \in Class
  BY ItemsType
<1>2. k # 1
  BY <1>1, SubClassesType DEF Rooted
<1>3. k \in 2..Len(t)
  BY <1>1, <1>2
<1>4. PICK p \in 1..(k - 1) : Under(t, p, k) /\ t[k].cls \in DirectSubClasses(o, t[p].cls)
  BY <1>3 DEF Placed
<1>5. p \in 1..Len(t)
  BY <1>1, <1>3
<1>6. t[p].cls = c
  BY <1>1, <1>4, <1>5 DEF OneAbove
<1>7. QED
  BY <1>1, <1>4, <1>5, <1>6

LEMMA ChildIs ==
  ASSUME NEW o \in Ontologies, OneAbove(o), NEW t \in Seq(TreeItem),
         Rooted(t), Placed(o, t), Once(t), NEW k \in DOMAIN t, NEW i \in DOMAIN t,
         t[k].cls \in DirectSubClasses(o, t[i].cls)
  PROVE  Under(t, i, k)
<1>1. t[i].cls \in Class
  BY ItemsType
<1>2. PICK p \in DOMAIN t : Under(t, p, k) /\ t[p].cls = t[i].cls
  BY <1>1, RowAbove
<1>3. p = i
  BY <1>2 DEF Once
<1>4. QED
  BY <1>2, <1>3

\* The items right below the item at i are its children.
LEMMA UnderIs ==
  ASSUME NEW t \in Seq(TreeItem), NEW i \in DOMAIN t, NEW k \in DOMAIN t
  PROVE  Under(t, i, k) <=> k \in Children(t, i)
<1>1. Len(t) \in Nat /\ DOMAIN t = 1..Len(t) /\ \A x \in 1..Len(t) : t[x].depth \in Nat
  BY ItemsType
<1>2. PICK b : b = LastUnder(t, i)
  OBVIOUS
<1>3. /\ b \in i..Len(t) /\ \A x \in (i + 1)..b : t[x].depth > t[i].depth
      /\ b < Len(t) => t[b + 1].depth <= t[i].depth
  BY <1>2, LastUnderIs
<1>4. ASSUME Under(t, i, k) PROVE k \in (i + 1)..b
  <2>1. /\ i < k /\ t[k].depth = t[i].depth + 1
        /\ \A m \in (i + 1)..(k - 1) : t[m].depth >= t[k].depth
    BY <1>1, <1>4 DEF Under
  <2>2. SUFFICES ASSUME k > b PROVE FALSE
    BY <1>1, <1>3, <2>1
  <2>3. b + 1 \in 1..Len(t) /\ t[b + 1].depth <= t[i].depth
    BY <1>1, <1>3, <2>2
  <2>4. t[b + 1].depth >= t[k].depth
    <3>1. CASE k = b + 1
      BY <3>1, <1>1
    <3>2. CASE k # b + 1
      <4>1. b + 1 \in (i + 1)..(k - 1)
        BY <3>2, <2>2, <1>1, <1>3
      <4>2. QED
        BY <2>1, <4>1
    <3>3. QED
      BY <3>1, <3>2
  <2>5. t[k].depth \in Nat /\ t[i].depth \in Nat /\ t[b + 1].depth \in Nat
    BY <1>1, <2>3
  <2>6. QED
    BY <2>1, <2>3, <2>4, <2>5
<1>5. ASSUME k \in (i + 1)..b, t[k].depth = t[i].depth + 1 PROVE Under(t, i, k)
  <2>1. i \in 1..(k - 1)
    BY <1>1, <1>3, <1>5
  <2>2. ASSUME NEW m \in (i + 1)..(k - 1) PROVE t[m].depth >= t[k].depth
    <3>1. m \in (i + 1)..b /\ m \in 1..Len(t)
      BY <1>1, <1>3, <1>5
    <3>2. t[m].depth > t[i].depth /\ t[m].depth \in Nat /\ t[i].depth \in Nat
      BY <3>1, <1>1, <1>3
    <3>3. QED
      BY <3>2, <1>5
  <2>3. QED
    BY <2>1, <2>2, <1>5 DEF Under
<1>6. Children(t, i) = {j \in (i + 1)..b : t[j].depth = t[i].depth + 1}
  BY <1>2 DEF Children
<1>7. Under(t, i, k) => t[k].depth = t[i].depth + 1
  BY DEF Under
<1>8. QED
  BY <1>4, <1>5, <1>6, <1>7

LEMMA AboveIs ==
  ASSUME NEW t \in Seq(TreeItem), NEW p \in DOMAIN t, NEW k \in DOMAIN t, Under(t, p, k)
  PROVE  ItemAbove(t, k) = p
<1>1. Len(t) \in Nat /\ DOMAIN t = 1..Len(t) /\ \A x \in 1..Len(t) : t[x].depth \in Nat
  BY ItemsType
<1>2. /\ p \in 1..(k - 1) /\ t[k].depth = t[p].depth + 1
      /\ \A m \in (p + 1)..(k - 1) : t[m].depth >= t[k].depth
  BY DEF Under
<1> DEFINE P(x) == /\ t[x].depth = t[k].depth - 1
                   /\ \A m \in (x + 1)..(k - 1) : t[m].depth >= t[k].depth
<1>3. t[k].depth # 0 /\ P(p)
  BY <1>1, <1>2
<1>4. ASSUME NEW x \in 1..(k - 1), P(x) PROVE x = p
  <2>1. x < p => t[p].depth >= t[k].depth
    BY <1>1, <1>2, <1>4
  <2>2. p < x => t[x].depth >= t[k].depth
    BY <1>1, <1>2, <1>4
  <2>3. t[p].depth < t[k].depth /\ t[x].depth < t[k].depth
    <3>1. t[p].depth \in Nat /\ t[k].depth \in Nat
      BY <1>1
    <3>2. QED
      BY <3>1, <1>2, <1>4
  <2>4. t[p].depth \in Nat /\ t[k].depth \in Nat /\ t[x].depth \in Nat
    BY <2>3, <1>1, <1>4
  <2>5. QED
    BY <2>1, <2>2, <2>3, <2>4, <1>1
<1>5. ItemAbove(t, k) = CHOOSE x \in 1..(k - 1) : P(x)
  BY <1>3 DEF ItemAbove
<1> HIDE DEF P
<1>6. QED
  BY <1>2, <1>3, <1>4, <1>5

-----------------------------------------------------------------------------
(* Levels of a list of items after a change in it *)

\* Where the items go, and that no others come.
Moved(u, t, a, w, b, m, n) ==
  /\ \A x \in 1..a : x \in DOMAIN u /\ u[x] = t[x]
  /\ \A x \in 1..m : a + x \in DOMAIN u /\ u[a + x] = w[x]
  /\ \A x \in (b + 1)..n : x - b + a + m \in DOMAIN u /\ u[x - b + a + m] = t[x]
  /\ \A k \in DOMAIN u : \/ k \in 1..a
                         \/ \E x \in 1..m : k = a + x
                         \/ \E x \in (b + 1)..n : k = x - b + a + m

LEMMA SplicedMoves ==
  ASSUME NEW t \in Seq(TreeItem), NEW w \in Seq(TreeItem), NEW a \in Nat, NEW b \in Nat,
         NEW m \in Nat, NEW n \in Nat, m = Len(w), n = Len(t),
         a <= b, b <= n, NEW u, Spliced(u, t, a, w, b)
  PROVE  Moved(u, t, a, w, b, m, n)
<1>1. u \in Seq(TreeItem) /\ DOMAIN u = 1..(a + m + (n - b)) /\ Len(u) = a + m + (n - b)
  BY ItemsType DEF Spliced
<1>2. \A k \in 1..(a + m + (n - b)) :
         \/ k <= a /\ u[k] = t[k]
         \/ k > a /\ k <= a + m /\ u[k] = w[k - a]
         \/ k > a + m /\ u[k] = t[k - a - m + b]
  BY <1>1 DEF Spliced
<1>3. ASSUME NEW x \in 1..a PROVE x \in DOMAIN u /\ u[x] = t[x]
  <2>1. x \in 1..(a + m + (n - b)) /\ ~(x > a) /\ ~(x > a + m)
    OBVIOUS
  <2>2. QED
    BY <2>1, <1>1, <1>2
<1>4. ASSUME NEW x \in 1..m PROVE a + x \in DOMAIN u /\ u[a + x] = w[x]
  <2>1. a + x \in 1..(a + m + (n - b)) /\ ~(a + x <= a) /\ ~(a + x > a + m) /\ (a + x) - a = x
    OBVIOUS
  <2>2. QED
    BY <2>1, <1>1, <1>2
<1>5. ASSUME NEW x \in (b + 1)..n PROVE x - b + a + m \in DOMAIN u /\ u[x - b + a + m] = t[x]
  <2>0. x - b + a + m \in Nat
    OBVIOUS
  <2>1. PICK k \in Nat : k = x - b + a + m
    BY <2>0
  <2>2. k \in 1..(a + m + (n - b)) /\ ~(k <= a) /\ ~(k <= a + m) /\ k - a - m + b = x
    BY <2>1
  <2>3. k \in DOMAIN u /\ u[k] = t[x]
    BY <2>2, <1>1, <1>2
  <2>4. QED
    BY <2>1, <2>3
<1>6. ASSUME NEW k \in DOMAIN u
      PROVE  \/ k \in 1..a
             \/ \E x \in 1..m : k = a + x
             \/ \E x \in (b + 1)..n : k = x - b + a + m
  <2>1. k \in 1..(a + m + (n - b)) /\ k \in Nat
    BY <1>1
  <2>2. CASE k <= a
    BY <2>1, <2>2
  <2>3. CASE k > a /\ k <= a + m
    <3>1. k - a \in 1..m /\ k = a + (k - a)
      BY <2>1, <2>3
    <3>2. QED
      BY <3>1
  <2>4. CASE k > a + m
    <3>1. k - a - m + b \in (b + 1)..n /\ k = (k - a - m + b) - b + a + m
      BY <2>1, <2>4
    <3>2. QED
      BY <3>1
  <2>5. QED
    BY <2>1, <2>2, <2>3, <2>4
<1>7. QED
  BY <1>3, <1>4, <1>5, <1>6 DEF Moved

(* What a splice has to look like to leave every other item below its      *)
(* parent: what goes and what comes is no less deep than d, what follows is *)
(* no deeper.                                                              *)
Flat(t, a, w, b, d) ==
  /\ \A x \in (a + 1)..b : t[x].depth >= d
  /\ b < Len(t) => t[b + 1].depth <= d
  /\ \A x \in DOMAIN w : w[x].depth = d

\* The item below which new ones come.
Parent(o, t, i, a, w, d) ==
  /\ i \in 1..a /\ t[i].depth + 1 = d /\ \A x \in (i + 1)..a : t[x].depth >= d
  /\ \A x \in DOMAIN w : w[x].cls \in DirectSubClasses(o, t[i].cls)

\* The item at k of u is below the one that t has at p.
BelowIn(u, t, p, k) == \E q \in 1..(k - 1) : Under(u, q, k) /\ u[q] = t[p]

LEMMA StillUnder ==
  ASSUME NEW t \in Seq(TreeItem), NEW w \in Seq(TreeItem), NEW a \in Nat, NEW b \in Nat,
         NEW m \in Nat, NEW n \in Nat, m = Len(w), n = Len(t), a <= b, b <= n,
         NEW u \in Seq(TreeItem), Moved(u, t, a, w, b, m, n), NEW d \in Nat, Flat(t, a, w, b, d),
         NEW x \in (b + 1)..n, NEW p \in 1..(x - 1), Under(t, p, x)
  PROVE  BelowIn(u, t, p, x - b + a + m)
<1>1. /\ DOMAIN t = 1..n /\ \A y \in 1..n : t[y].depth \in Nat
      /\ DOMAIN w = 1..m /\ \A y \in 1..m : w[y].depth \in Nat
  BY ItemsType
<1>2. /\ \A y \in 1..a : y \in DOMAIN u /\ u[y] = t[y]
      /\ \A y \in 1..m : a + y \in DOMAIN u /\ u[a + y] = w[y]
      /\ \A y \in (b + 1)..n : y - b + a + m \in DOMAIN u /\ u[y - b + a + m] = t[y]
      /\ \A k \in DOMAIN u : \/ k \in 1..a
                             \/ \E y \in 1..m : k = a + y
                             \/ \E y \in (b + 1)..n : k = y - b + a + m
  BY DEF Moved
<1>3. /\ t[x].depth = t[p].depth + 1 /\ \A y \in (p + 1)..(x - 1) : t[y].depth >= t[x].depth
  BY DEF Under
<1>4. /\ \A y \in (a + 1)..b : t[y].depth >= d
      /\ b < n => t[b + 1].depth <= d
      /\ \A y \in 1..m : w[y].depth = d
  BY <1>1 DEF Flat
<1>0. x - b + a + m \in Nat
  OBVIOUS
<1>5. PICK k \in Nat : k = x - b + a + m
  BY <1>0
<1>6. k \in DOMAIN u /\ u[k] = t[x] /\ DOMAIN u = 1..Len(u) /\ Len(u) \in Nat
  BY <1>2, <1>5, ItemsType
<1>7. p <= b => t[x].depth <= d
  <2>1. SUFFICES ASSUME p <= b PROVE t[x].depth <= d
    OBVIOUS
  <2>2. b + 1 \in 1..n /\ t[b + 1].depth <= d
    BY <1>4
  <2>3. CASE x = b + 1
    BY <2>2, <2>3
  <2>4. CASE x # b + 1
    <3>1. b + 1 \in (p + 1)..(x - 1) /\ x \in 1..n
      BY <2>1, <2>4
    <3>2. t[b + 1].depth >= t[x].depth
      BY <3>1, <1>3
    <3>3. QED
      BY <3>1, <3>2, <2>2, <1>1
  <2>5. QED
    BY <2>3, <2>4
<1>8. p <= a \/ p > b
  <2>1. SUFFICES ASSUME p > a, p <= b PROVE FALSE
    OBVIOUS
  <2>2. p \in (a + 1)..b /\ p \in 1..n /\ x \in 1..n
    BY <2>1
  <2>3. t[p].depth >= d /\ t[p].depth \in Nat /\ t[x].depth <= d /\ t[x].depth \in Nat
    BY <2>1, <2>2, <1>1, <1>4, <1>7
  <2>4. QED
    BY <2>3, <1>3
<1>9. CASE p <= a
  <2>1. p \in 1..a /\ p \in 1..(k - 1) /\ u[p] = t[p]
    BY <1>2, <1>5, <1>9
  <2>2. ASSUME NEW y \in (p + 1)..(k - 1) PROVE u[y].depth >= u[k].depth
    <3>1. y \in DOMAIN u /\ y \in Nat
      BY <1>6
    <3>2. t[x].depth <= d /\ t[x].depth \in Nat
      BY <1>1, <1>7, <1>9
    <3>3. CASE y \in 1..a
      <4>1. y \in (p + 1)..(x - 1) /\ u[y] = t[y]
        BY <3>3, <1>2
      <4>2. QED
        BY <4>1, <1>3, <1>6
    <3>4. ASSUME NEW z \in 1..m, y = a + z PROVE u[y].depth >= u[k].depth
      <4>1. u[y] = w[z] /\ w[z].depth = d
        BY <3>4, <1>2, <1>4
      <4>2. QED
        BY <4>1, <3>2, <1>6
    <3>5. ASSUME NEW z \in (b + 1)..n, y = z - b + a + m PROVE u[y].depth >= u[k].depth
      <4>1. z \in (p + 1)..(x - 1) /\ u[y] = t[z]
        BY <3>5, <1>2, <1>5, <1>9
      <4>2. QED
        BY <4>1, <1>3, <1>6
    <3>6. QED
      BY <3>1, <3>3, <3>4, <3>5, <1>2
  <2>3. Under(u, p, k)
    BY <2>1, <2>2, <1>3, <1>6 DEF Under
  <2>4. QED
    BY <2>1, <2>3, <1>5 DEF BelowIn
<1>10. CASE p > b
  <2>0. p - b + a + m \in Nat
    BY <1>10
  <2>1. PICK q \in Nat : q = p - b + a + m
    BY <2>0
  <2>2. p \in (b + 1)..n /\ q \in 1..(k - 1)
    BY <2>1, <1>5, <1>10
  <2>3. u[q] = t[p]
    BY <2>1, <2>2, <1>2
  <2>4. ASSUME NEW y \in (q + 1)..(k - 1) PROVE u[y].depth >= u[k].depth
    <3>0. y - a - m + b \in Nat
      BY <2>1, <1>10
    <3>1. PICK z \in Nat : z = y - a - m + b
      BY <3>0
    <3>2. z \in (p + 1)..(x - 1) /\ z \in (b + 1)..n /\ y = z - b + a + m
      BY <3>1, <2>1, <1>5, <1>10
    <3>3. u[y] = t[z]
      BY <3>2, <1>2
    <3>4. QED
      BY <3>2, <3>3, <1>3, <1>6
  <2>5. Under(u, q, k)
    BY <2>2, <2>3, <2>4, <1>3, <1>6 DEF Under
  <2>6. QED
    BY <2>2, <2>3, <2>5, <1>5 DEF BelowIn
<1>11. QED
  BY <1>8, <1>9, <1>10

\* The items that stay are still where they belong.
StillRight(o, n0, t, S) ==
  \A x \in S : \A c \in Class :
    t[x].cls \in DirectSubClasses(o, c) => t[x].cls \in DirectSubClasses(n0, c)

Stay(a, b, n) == (1..a) \cup ((b + 1)..n)

LEMMA SplicedPlaced ==
  ASSUME NEW o, NEW n0, NEW t \in Seq(TreeItem), NEW w \in Seq(TreeItem), NEW a \in Nat, NEW b \in Nat,
         NEW m \in Nat, NEW n \in Nat, m = Len(w), n = Len(t), a <= b, b <= n, 1 <= a,
         NEW u \in Seq(TreeItem), Moved(u, t, a, w, b, m, n), NEW d \in Nat, Flat(t, a, w, b, d),
         NEW i, m # 0 => Parent(n0, t, i, a, w, d), Placed(o, t), Rooted(t),
         StillRight(o, n0, t, Stay(a, b, n))
  PROVE  Placed(n0, u) /\ Rooted(u)
<1>1. /\ DOMAIN t = 1..n /\ \A y \in 1..n : t[y].depth \in Nat /\ t[y].cls \in Class
      /\ DOMAIN w = 1..m /\ \A y \in 1..m : w[y].depth \in Nat
      /\ DOMAIN u = 1..Len(u) /\ Len(u) \in Nat
  BY ItemsType
<1>2. /\ \A y \in 1..a : y \in DOMAIN u /\ u[y] = t[y]
      /\ \A y \in 1..m : a + y \in DOMAIN u /\ u[a + y] = w[y]
      /\ \A y \in (b + 1)..n : y - b + a + m \in DOMAIN u /\ u[y - b + a + m] = t[y]
      /\ \A k \in DOMAIN u : \/ k \in 1..a
                             \/ \E y \in 1..m : k = a + y
                             \/ \E y \in (b + 1)..n : k = y - b + a + m
  BY DEF Moved
<1>3. ASSUME NEW x \in 2..n
      PROVE  \E p \in 1..(x - 1) : Under(t, p, x) /\ t[x].cls \in DirectSubClasses(o, t[p].cls) /\ t[p].cls \in Class
  <2>1. PICK p \in 1..(x - 1) : Under(t, p, x) /\ t[x].cls \in DirectSubClasses(o, t[p].cls)
    BY <1>3 DEF Placed
  <2>2. p \in 1..n
    OBVIOUS
  <2>3. QED
    BY <2>1, <2>2, <1>1
<1>4. ASSUME NEW k \in 2..Len(u)
      PROVE  \E p \in 1..(k - 1) : Under(u, p, k) /\ u[k].cls \in DirectSubClasses(n0, u[p].cls)
  <2>1. k \in DOMAIN u
    BY <1>1
  <2>2. CASE k \in 1..a
    <3>1. PICK p \in 1..(k - 1) : /\ Under(t, p, k) /\ t[k].cls \in DirectSubClasses(o, t[p].cls)
                                  /\ t[p].cls \in Class
      <4>1. k \in 2..n
        BY <2>2
      <4>2. QED
        BY <4>1, <1>3
    <3>2. t[k].cls \in DirectSubClasses(n0, t[p].cls)
      BY <2>2, <3>1 DEF StillRight, Stay
    <3>3. \A y \in 1..k : u[y] = t[y]
      BY <2>2, <1>2
    <3>4. Under(u, p, k)
      BY <3>1, <3>3 DEF Under
    <3>5. u[p] = t[p] /\ u[k] = t[k]
      <4>1. p \in 1..k /\ k \in 1..k
        BY <2>2
      <4>2. QED
        BY <4>1, <3>3
    <3>6. QED
      BY <3>2, <3>4, <3>5
  <2>3. ASSUME NEW x \in 1..m, k = a + x
        PROVE  \E p \in 1..(k - 1) : Under(u, p, k) /\ u[k].cls \in DirectSubClasses(n0, u[p].cls)
    <3>1. /\ i \in 1..a /\ t[i].depth + 1 = d /\ \A y \in (i + 1)..a : t[y].depth >= d
          /\ \A y \in 1..m : w[y].cls \in DirectSubClasses(n0, t[i].cls)
      <4>1. m # 0
        BY <2>3
      <4>2. QED
        BY <4>1, <1>1 DEF Parent
    <3>2. \A y \in 1..m : w[y].depth = d
      BY <1>1 DEF Flat
    <3>3. u[k] = w[x] /\ u[i] = t[i] /\ i \in 1..(k - 1)
      BY <3>1, <2>3, <1>2
    <3>4. ASSUME NEW y \in (i + 1)..(k - 1) PROVE u[y].depth >= u[k].depth
      <4>1. CASE y <= a
        <5>1. y \in 1..a /\ y \in (i + 1)..a
          BY <3>1, <4>1
        <5>2. u[y] = t[y] /\ t[y].depth >= d
          BY <5>1, <1>2, <3>1
        <5>3. QED
          BY <5>2, <3>2, <3>3
      <4>2. CASE ~(y <= a)
        <5>1. y - a \in 1..m /\ a + (y - a) = y
          BY <4>2, <2>3, <3>1
        <5>2. u[y] = w[y - a]
          BY <5>1, <1>2
        <5>3. u[y].depth = d /\ u[k].depth = d
          BY <5>1, <5>2, <3>2, <3>3
        <5>4. QED
          BY <5>3
      <4>3. QED
        BY <4>1, <4>2
    <3>5. Under(u, i, k)
      <4>1. u[k].depth = u[i].depth + 1
        BY <3>1, <3>2, <3>3
      <4>2. QED
        BY <3>3, <3>4, <4>1 DEF Under
    <3>6. u[k].cls \in DirectSubClasses(n0, u[i].cls)
      BY <3>1, <3>3
    <3>7. QED
      BY <3>3, <3>5, <3>6
  <2>4. ASSUME NEW x \in (b + 1)..n, k = x - b + a + m
        PROVE  \E p \in 1..(k - 1) : Under(u, p, k) /\ u[k].cls \in DirectSubClasses(n0, u[p].cls)
    <3>1. PICK p \in 1..(x - 1) : /\ Under(t, p, x) /\ t[x].cls \in DirectSubClasses(o, t[p].cls)
                                  /\ t[p].cls \in Class
      <4>1. x \in 2..n
        OBVIOUS
      <4>2. QED
        BY <4>1, <1>3
    <3>2. PICK q \in 1..(k - 1) : Under(u, q, k) /\ u[q] = t[p]
      <4>1. BelowIn(u, t, p, x - b + a + m)
        BY <3>1, StillUnder
      <4>2. QED
        BY <4>1, <2>4 DEF BelowIn
    <3>3. t[x].cls \in DirectSubClasses(n0, t[p].cls) /\ u[k] = t[x]
      BY <3>1, <2>4, <1>2 DEF StillRight, Stay
    <3>4. QED
      BY <3>2, <3>3
  <2>5. QED
    BY <2>1, <2>2, <2>3, <2>4, <1>2
<1>5. Rooted(u)
  <2>1. 1 \in 1..a /\ 1 \in 1..n
    OBVIOUS
  <2>2. QED
    BY <2>1, <1>1, <1>2 DEF Rooted
<1>6. QED
  BY <1>4, <1>5 DEF Placed

\* The items of u are those of t at the positions of S and those of w.
Made(u, t, S, w, m) ==
  /\ \A k \in DOMAIN u : (\E x \in S : u[k] = t[x]) \/ (\E x \in 1..m : u[k] = w[x])
  /\ \A x \in S : \E k \in DOMAIN u : u[k] = t[x]
  /\ \A x \in 1..m : \E k \in DOMAIN u : u[k] = w[x]

LEMMA SplicedMade ==
  ASSUME NEW u, NEW t, NEW w, NEW a \in Nat, NEW b \in Nat, NEW m \in Nat, NEW n \in Nat,
         Moved(u, t, a, w, b, m, n)
  PROVE  Made(u, t, Stay(a, b, n), w, m)
<1>1. ASSUME NEW k \in DOMAIN u
      PROVE  (\E x \in Stay(a, b, n) : u[k] = t[x]) \/ (\E x \in 1..m : u[k] = w[x])
  BY <1>1 DEF Moved, Stay
<1>2. ASSUME NEW x \in Stay(a, b, n) PROVE \E k \in DOMAIN u : u[k] = t[x]
  BY <1>2 DEF Moved, Stay
<1>3. ASSUME NEW x \in 1..m PROVE \E k \in DOMAIN u : u[k] = w[x]
  BY <1>3 DEF Moved
<1>4. QED
  BY <1>1, <1>2, <1>3 DEF Made

\* The classes of the new items are new.
Apartness(t, S, w, m) ==
  /\ \A x, y \in 1..m : w[x].cls = w[y].cls => x = y
  /\ \A x \in S, y \in 1..m : t[x].cls # w[y].cls

LEMMA SplicedOnce ==
  ASSUME NEW u, NEW t, NEW w, NEW a \in Nat, NEW b \in Nat, NEW m \in Nat, NEW n \in Nat,
         a <= b, b <= n, DOMAIN t = 1..n,
         Moved(u, t, a, w, b, m, n), Once(t), Apartness(t, Stay(a, b, n), w, m)
  PROVE  Once(u)
<1>1. SUFFICES ASSUME NEW k \in DOMAIN u, NEW l \in DOMAIN u, u[k].cls = u[l].cls PROVE k = l
  BY DEF Once
<1>2. /\ \A y \in 1..a : y \in DOMAIN u /\ u[y] = t[y]
      /\ \A y \in 1..m : a + y \in DOMAIN u /\ u[a + y] = w[y]
      /\ \A y \in (b + 1)..n : y - b + a + m \in DOMAIN u /\ u[y - b + a + m] = t[y]
      /\ \A x \in DOMAIN u : \/ x \in 1..a
                             \/ \E y \in 1..m : x = a + y
                             \/ \E y \in (b + 1)..n : x = y - b + a + m
  BY DEF Moved
<1>3. /\ \A x, y \in 1..n : t[x].cls = t[y].cls => x = y
      /\ \A x, y \in 1..m : w[x].cls = w[y].cls => x = y
      /\ \A x \in 1..a, y \in 1..m : t[x].cls # w[y].cls
      /\ \A x \in (b + 1)..n, y \in 1..m : t[x].cls # w[y].cls
      /\ \A x \in 1..a : x \in 1..n /\ x <= b
      /\ \A x \in (b + 1)..n : x \in 1..n
  BY DEF Once, Apartness, Stay
<1>4. CASE k \in 1..a
  <2>1. u[k] = t[k] /\ k \in 1..n /\ k <= b
    BY <1>2, <1>3, <1>4
  <2>2. ASSUME l \in 1..a PROVE k = l
    BY <2>1, <2>2, <1>1, <1>2, <1>3
  <2>3. ASSUME NEW y \in 1..m, l = a + y PROVE FALSE
    <3>1. u[l] = w[y]
      BY <2>3, <1>2
    <3>2. QED
      BY <3>1, <2>1, <1>1, <1>3, <1>4
  <2>4. ASSUME NEW y \in (b + 1)..n, l = y - b + a + m PROVE FALSE
    <3>1. u[l] = t[y] /\ y \in 1..n
      BY <2>4, <1>2, <1>3
    <3>2. k = y
      BY <3>1, <2>1, <1>1, <1>3
    <3>3. QED
      BY <3>2, <2>1
  <2>5. QED
    BY <2>2, <2>3, <2>4, <1>2
<1>5. ASSUME NEW x \in 1..m, k = a + x PROVE k = l
  <2>1. u[k] = w[x]
    BY <1>2, <1>5
  <2>2. ASSUME l \in 1..a PROVE FALSE
    BY <2>1, <2>2, <1>1, <1>2, <1>3
  <2>3. ASSUME NEW y \in 1..m, l = a + y PROVE k = l
    <3>1. u[l] = w[y]
      BY <2>3, <1>2
    <3>2. x = y
      BY <3>1, <2>1, <1>1, <1>3
    <3>3. QED
      BY <3>2, <2>3, <1>5
  <2>4. ASSUME NEW y \in (b + 1)..n, l = y - b + a + m PROVE FALSE
    <3>1. u[l] = t[y]
      BY <2>4, <1>2
    <3>2. QED
      BY <3>1, <2>1, <1>1, <1>3
  <2>5. QED
    BY <2>2, <2>3, <2>4, <1>2
<1>6. ASSUME NEW x \in (b + 1)..n, k = x - b + a + m PROVE k = l
  <2>1. u[k] = t[x] /\ x \in 1..n
    BY <1>2, <1>3, <1>6
  <2>2. ASSUME l \in 1..a PROVE FALSE
    <3>1. u[l] = t[l] /\ l \in 1..n /\ l <= b
      BY <2>2, <1>2, <1>3
    <3>2. x = l
      BY <3>1, <2>1, <1>1, <1>3
    <3>3. QED
      BY <3>1, <3>2
  <2>3. ASSUME NEW y \in 1..m, l = a + y PROVE FALSE
    <3>1. u[l] = w[y]
      BY <2>3, <1>2
    <3>2. QED
      BY <3>1, <2>1, <1>1, <1>3
  <2>4. ASSUME NEW y \in (b + 1)..n, l = y - b + a + m PROVE k = l
    <3>1. u[l] = t[y] /\ y \in 1..n
      BY <2>4, <1>2, <1>3
    <3>2. x = y
      BY <3>1, <2>1, <1>1, <1>3
    <3>3. QED
      BY <3>2, <2>4, <1>6
  <2>5. QED
    BY <2>2, <2>3, <2>4, <1>2
<1>7. QED
  BY <1>4, <1>5, <1>6, <1>2

\* What is below the item at i, with it or without it, goes as a whole: the
\* items that went are below i or in the place of i itself.
LEMMA GoneIs ==
  ASSUME NEW o \in Ontologies, OneAbove(o), NEW t \in Seq(TreeItem),
         Rooted(t), Placed(o, t), Once(t), NEW i \in DOMAIN t, NEW x \in (i + 1)..LastUnder(t, i),
         NEW j \in DOMAIN t, t[x].cls \in DirectSubClasses(o, t[j].cls)
  PROVE  j \in i..LastUnder(t, i)
<1>1. /\ Len(t) \in Nat /\ DOMAIN t = 1..Len(t) /\ \A y \in 1..Len(t) : t[y].depth \in Nat
  BY ItemsType
<1>2. PICK b \in Nat : b = LastUnder(t, i)
  BY <1>1, LastUnderIs
<1>3. i <= b /\ b <= Len(t) /\ \A y \in (i + 1)..b : t[y].depth > t[i].depth
  BY <1>1, <1>2, LastUnderIs
<1>4. x \in (i + 1)..b /\ x \in DOMAIN t
  BY <1>1, <1>2, <1>3
<1>5. Under(t, j, x)
  BY <1>4, ChildIs
<1>6. j \in 1..(x - 1) /\ \A y \in (j + 1)..(x - 1) : t[y].depth >= t[x].depth
  BY <1>5 DEF Under
<1>7. ~(j < i)
  <2>1. SUFFICES ASSUME j < i PROVE FALSE
    OBVIOUS
  <2>2. i \in (j + 1)..(x - 1)
    BY <2>1, <1>1, <1>4, <1>6
  <2>3. t[i].depth >= t[x].depth /\ t[x].depth > t[i].depth /\ t[i].depth \in Nat /\ t[x].depth \in Nat
    BY <2>2, <1>1, <1>3, <1>4, <1>6
  <2>4. QED
    BY <2>3
<1>8. QED
  BY <1>1, <1>2, <1>4, <1>6, <1>7

\* An item whose class is right below that of i is below i.
LEMMA BelowIs ==
  ASSUME NEW o \in Ontologies, OneAbove(o), NEW t \in Seq(TreeItem),
         Rooted(t), Placed(o, t), Once(t), NEW i \in DOMAIN t, NEW x \in DOMAIN t,
         t[x].cls \in DirectSubClasses(o, t[i].cls)
  PROVE  x \in (i + 1)..LastUnder(t, i)
<1>1. x \in Children(t, i)
  BY ChildIs, UnderIs
<1>2. QED
  BY <1>1 DEF Children

-----------------------------------------------------------------------------
(* Opening and closing *)

LEMMA LevelsType ==
  ASSUME NEW o, NEW c, NEW t, LevelsBut(o, t, c)
  PROVE  /\ t \in Seq(TreeItem) /\ Len(t) \in Nat /\ DOMAIN t = 1..Len(t)
         /\ \A x \in 1..Len(t) : /\ t[x] \in TreeItem /\ t[x].cls \in Class /\ t[x].depth \in Nat
         /\ Rooted(t) /\ Placed(o, t) /\ Once(t) /\ Twisties(o, t) /\ Seen(o, t)
  BY ItemsType DEF LevelsBut

LEMMA NothingIs == <<>> \in Seq(TreeItem) /\ Len(<<>>) = 0
  OBVIOUS

\* No class right below c is in the tree.
NoneBelow(o, t, c) == \A d \in DirectSubClasses(o, c) : ~InTree(t, d)

LEMMA EmptiedLevels ==
  ASSUME NEW o \in Ontologies, OneAbove(o), NEW t, NEW i \in DOMAIN t, LevelsBut(o, t, t[i].cls)
  PROVE  /\ LevelsBut(o, Emptied(t, i), t[i].cls) /\ NoneBelow(o, Emptied(t, i), t[i].cls)
         /\ i \in DOMAIN Emptied(t, i) /\ Emptied(t, i)[i] = t[i]
<1>1. /\ t \in Seq(TreeItem) /\ Len(t) \in Nat /\ DOMAIN t = 1..Len(t)
      /\ \A x \in 1..Len(t) : t[x].cls \in Class /\ t[x].depth \in Nat
      /\ Rooted(t) /\ Placed(o, t) /\ Once(t) /\ Twisties(o, t) /\ Seen(o, t)
  BY LevelsType
<1>0. /\ LastUnder(t, i) \in i..Len(t)
      /\ \A k \in (i + 1)..LastUnder(t, i) : t[k].depth > t[i].depth
      /\ LastUnder(t, i) < Len(t) => t[LastUnder(t, i) + 1].depth <= t[i].depth
  <2>1. t \in Seq(TreeItem)
    BY <1>1
  <2>2. QED
    BY <2>1, LastUnderIs
<1>2. PICK n \in Nat, b \in Nat : n = Len(t) /\ b = LastUnder(t, i)
  <2>1. i \in 1..Len(t) /\ LastUnder(t, i) \in i..Len(t)
    BY <1>0, <1>1
  <2>2. LastUnder(t, i) \in Nat
    BY <2>1
  <2>3. QED
    BY <2>2, <1>1
<1>3. /\ i \in Nat /\ 1 <= i /\ i <= b /\ b <= n /\ i \in 1..n
      /\ \A x \in (i + 1)..b : t[x].depth > t[i].depth
      /\ b < n => t[b + 1].depth <= t[i].depth
  BY <1>0, <1>1, <1>2
<1>4. PICK u : u = Emptied(t, i)
  OBVIOUS
<1>5. Spliced(u, t, i, <<>>, b)
  BY <1>1, <1>2, <1>3, <1>4, CutIs DEF Emptied
<1>6. u \in Seq(TreeItem) /\ Moved(u, t, i, <<>>, b, 0, n)
  <2>1. u \in Seq(TreeItem)
    BY <1>5 DEF Spliced
  <2>2. PICK m \in Nat, w \in Seq(TreeItem) : m = 0 /\ w = <<>> /\ m = Len(w)
    BY NothingIs
  <2>3. Spliced(u, t, i, w, b)
    BY <1>5, <2>2
  <2>4. Moved(u, t, i, w, b, m, n)
    BY <1>1, <1>2, <1>3, <2>2, <2>3, SplicedMoves
  <2>5. QED
    BY <2>1, <2>2, <2>4
<1>7. Placed(o, u) /\ Rooted(u)
  <2>1. PICK d \in Nat : d = t[i].depth + 1
    BY <1>1, <1>3
  <2>2. Flat(t, i, <<>>, b, d)
    <3>1. ASSUME NEW x \in (i + 1)..b PROVE t[x].depth >= d
      <4>1. x \in 1..n
        BY <1>3
      <4>2. t[x].depth \in Nat /\ t[i].depth \in Nat /\ t[x].depth > t[i].depth
        BY <4>1, <1>1, <1>2, <1>3
      <4>3. QED
        BY <4>2, <2>1
    <3>2. ASSUME b < n PROVE t[b + 1].depth <= d
      <4>1. b + 1 \in 1..n /\ t[b + 1].depth <= t[i].depth
        BY <1>3, <3>2
      <4>2. t[b + 1].depth \in Nat /\ t[i].depth \in Nat
        BY <4>1, <1>1, <1>2, <1>3
      <4>3. QED
        BY <4>1, <4>2, <2>1
    <3>3. DOMAIN <<>> = {}
      OBVIOUS
    <3>4. QED
      BY <3>1, <3>2, <3>3, <1>2 DEF Flat
  <2>3. PICK m \in Nat, w \in Seq(TreeItem) : m = 0 /\ w = <<>> /\ m = Len(w)
    BY NothingIs
  <2>4. Moved(u, t, i, w, b, m, n) /\ Flat(t, i, w, b, d) /\ StillRight(o, o, t, Stay(i, b, n))
    BY <1>6, <2>2, <2>3 DEF StillRight
  <2>5. QED
    BY <2>3, <2>4, <1>1, <1>2, <1>3, <1>6, SplicedPlaced
<1>8. PICK S : S = Stay(i, b, n)
  OBVIOUS
<1>9. /\ \A k \in DOMAIN u : \E x \in S : u[k] = t[x]
      /\ \A x \in S : \E k \in DOMAIN u : u[k] = t[x]
      /\ \A x \in S : x \in DOMAIN t /\ x \notin (i + 1)..b
      /\ \A x \in DOMAIN t : x \notin S => x \in (i + 1)..b
  <2>1. Made(u, t, S, <<>>, 0)
    BY <1>3, <1>6, <1>8, SplicedMade
  <2>2. 1..0 = {}
    OBVIOUS
  <2>3. /\ \A x \in S : x \in 1..n /\ x \notin (i + 1)..b
        /\ \A x \in 1..n : x \notin S => x \in (i + 1)..b
    BY <1>3, <1>8 DEF Stay
  <2>4. QED
    BY <2>1, <2>2, <2>3, <1>1, <1>2 DEF Made
<1>10. Once(u)
  <2>1. Apartness(t, S, <<>>, 0)
    BY DEF Apartness
  <2>2. PICK m \in Nat : m = 0
    OBVIOUS
  <2>3. QED
    BY <2>1, <2>2, <1>1, <1>2, <1>3, <1>6, <1>8, SplicedOnce
<1>11. Twisties(o, u)
  BY <1>1, <1>9 DEF Twisties
<1>12. Seen(o, u)
  <2>1. SUFFICES ASSUME NEW j \in DOMAIN u, NEW k \in DOMAIN u, u[k].picked,
                        u[k].cls \in DirectSubClasses(o, u[j].cls)
                 PROVE  u[j].open
    BY DEF Seen
  <2>2. PICK x \in S, y \in S : u[k] = t[x] /\ u[j] = t[y]
    BY <1>9
  <2>3. x \in DOMAIN t /\ y \in DOMAIN t
    BY <1>9
  <2>4. QED
    BY <2>1, <2>2, <2>3, <1>1 DEF Seen
<1>13. ASSUME NEW j \in DOMAIN u, u[j].cls # t[i].cls PROVE Filled(o, u, j)
  <2>1. SUFFICES ASSUME u[j].open, u[j].kids, NEW c \in DirectSubClasses(o, u[j].cls)
                 PROVE  InTree(u, c)
    BY DEF Filled
  <2>2. PICK y \in S : u[j] = t[y]
    BY <1>9
  <2>3. y \in DOMAIN t /\ t[y].cls # t[i].cls
    BY <1>9, <1>13, <2>2
  <2>4. InTree(t, c)
    BY <2>1, <2>2, <2>3 DEF LevelsBut, Filled
  <2>5. PICK x \in DOMAIN t : t[x].cls = c
    BY <2>4 DEF InTree
  <2>6. CASE x \in S
    BY <2>5, <2>6, <1>9 DEF InTree
  <2>7. CASE x \notin S
    <3>1. x \in (i + 1)..LastUnder(t, i)
      BY <2>7, <1>2, <1>9
    <3>2. t[x].cls \in DirectSubClasses(o, t[y].cls)
      BY <2>1, <2>2, <2>5
    <3>3. y \in i..b
      BY <3>1, <3>2, <2>3, <1>1, <1>2, GoneIs
    <3>4. y = i
      BY <3>3, <1>3, <1>9
    <3>5. QED
      BY <3>4, <2>3
  <2>8. QED
    BY <2>6, <2>7
<1>14. NoneBelow(o, u, t[i].cls)
  <2>1. SUFFICES ASSUME NEW k \in DOMAIN u, u[k].cls \in DirectSubClasses(o, t[i].cls) PROVE FALSE
    BY DEF NoneBelow, InTree
  <2>2. PICK x \in S : u[k] = t[x]
    BY <1>9
  <2>3. x \in DOMAIN t /\ t[x].cls \in DirectSubClasses(o, t[i].cls)
    BY <2>1, <2>2, <1>9
  <2>4. x \in (i + 1)..b
    BY <2>3, <1>1, <1>2, BelowIs
  <2>5. QED
    BY <2>4, <1>9
<1>15. i \in DOMAIN u /\ u[i] = t[i]
  <2>1. i \in 1..i
    BY <1>3
  <2>2. QED
    BY <2>1, <1>6 DEF Moved
<1>16. LevelsBut(o, u, t[i].cls)
  BY <1>6, <1>7, <1>10, <1>11, <1>12, <1>13 DEF LevelsBut
<1>17. QED
  BY <1>4, <1>14, <1>15, <1>16

\* The items of a level: one for each class right below c.
LevelOf(o, w, c, d) ==
  /\ w \in Seq(TreeItem)
  /\ \A x \in DOMAIN w : \E e \in DirectSubClasses(o, c) : w[x] = NewItem(o, e, d)
  /\ \A e \in DirectSubClasses(o, c) : \E x \in DOMAIN w : w[x] = NewItem(o, e, d)
  /\ \A x, y \in DOMAIN w : w[x].cls = w[y].cls => x = y

LEMMA LevelIs ==
  ASSUME NEW o \in Ontologies, NEW c, NEW d \in Nat
  PROVE  LevelOf(o, SetToSeq({NewItem(o, e, d) : e \in DirectSubClasses(o, c)}), c, d)
<1>1. DirectSubClasses(o, c) \subseteq Class
  BY SubClassesType
<1>2. PICK S : S = {NewItem(o, e, d) : e \in DirectSubClasses(o, c)}
  OBVIOUS
<1>3. PICK w : w = SetToSeq(S)
  OBVIOUS
<1>4. Fresh(FALSE, o, w)
  BY <1>2, <1>3, LevelFresh
<1>5. w \in Seq(TreeItem)
  BY <1>4 DEF Fresh
<1>6. IsFiniteSet(S)
  <2>1. IsFiniteSet(Class)
    BY ClassAssumption
  <2>2. IsFiniteSet(DirectSubClasses(o, c))
    BY <1>1, <2>1, FS_Subset
  <2> DEFINE f == [e \in DirectSubClasses(o, c) |-> NewItem(o, e, d)]
  <2>3. f \in Surjection(DirectSubClasses(o, c), S)
    BY <1>2 DEF Surjection
  <2> HIDE DEF f
  <2>4. QED
    BY <2>2, <2>3, FS_Surjection
<1>7. PICK N : /\ DOMAIN w = 1..N
               /\ \A x \in 1..N : w[x] \in S
               /\ \A x, y \in 1..N : w[x] = w[y] => x = y
               /\ {w[x] : x \in 1..N} = S
  <2>1. PICK N : N = Cardinality(S)
    OBVIOUS
  <2>2. /\ DOMAIN w = 1..N
        /\ \A x \in 1..N : w[x] \in S
        /\ \A x, y \in 1..N : w[x] = w[y] => x = y
        /\ {w[x] : x \in 1..N} = S
    BY <1>3, <1>6, <2>1, Listed
  <2>3. QED
    BY <2>2
<1>8. \A x \in DOMAIN w : \E e \in DirectSubClasses(o, c) : w[x] = NewItem(o, e, d)
  BY <1>2, <1>7
<1>9. ASSUME NEW e \in DirectSubClasses(o, c) PROVE \E x \in DOMAIN w : w[x] = NewItem(o, e, d)
  <2>1. NewItem(o, e, d) \in {w[x] : x \in 1..N}
    BY <1>2, <1>7
  <2>2. QED
    BY <2>1, <1>7
<1>10. ASSUME NEW x \in DOMAIN w, NEW y \in DOMAIN w, w[x].cls = w[y].cls PROVE x = y
  <2>1. PICK e \in DirectSubClasses(o, c), f \in DirectSubClasses(o, c) :
          w[x] = NewItem(o, e, d) /\ w[y] = NewItem(o, f, d)
    BY <1>8, <1>10
  <2>2. e = f
    <3>1. w[x].cls = e /\ w[y].cls = f
      BY <2>1 DEF NewItem
    <3>2. QED
      BY <3>1, <1>10
  <2>3. QED
    BY <2>1, <2>2, <1>7, <1>10
<1>11. LevelOf(o, w, c, d)
  BY <1>5, <1>8, <1>9, <1>10 DEF LevelOf
<1>12. QED
  BY <1>2, <1>3, <1>11

\* What appending does to a list: nothing goes, and what comes is at the end
\* of what is below i.
Longer(u, t, i, w, b, m, n, d) ==
  /\ i <= b /\ b <= n /\ Moved(u, t, b, w, b, m, n) /\ u \in Seq(TreeItem) /\ Flat(t, b, w, b, d)
  /\ \A x \in (i + 1)..b : t[x].depth >= d

LEMMA AppendedMoves ==
  ASSUME NEW t \in Seq(TreeItem), NEW i \in DOMAIN t, NEW w \in Seq(TreeItem),
         NEW n \in Nat, NEW m \in Nat, n = Len(t), m = Len(w), NEW d \in Nat, d = t[i].depth + 1,
         \A x \in DOMAIN w : w[x].depth = d, NEW u, u = Appended(t, i, w)
  PROVE  \E b \in Nat : Longer(u, t, i, w, b, m, n, d)
<1>1. /\ Len(t) \in Nat /\ DOMAIN t = 1..Len(t) /\ \A x \in 1..Len(t) : t[x].depth \in Nat
  BY ItemsType
<1>2. /\ LastUnder(t, i) \in i..Len(t)
      /\ \A k \in (i + 1)..LastUnder(t, i) : t[k].depth > t[i].depth
      /\ LastUnder(t, i) < Len(t) => t[LastUnder(t, i) + 1].depth <= t[i].depth
  BY LastUnderIs
<1>3. PICK b : b = LastUnder(t, i)
  OBVIOUS
<1>4. b \in Nat /\ i <= b /\ b <= n /\ i \in 1..n
  BY <1>1, <1>2, <1>3
<1>6. Spliced(u, t, b, w, b)
  BY <1>3, <1>4, SpliceIs DEF Appended
<1>7. Moved(u, t, b, w, b, m, n)
  BY <1>4, <1>6, SplicedMoves
<1>8. u \in Seq(TreeItem)
  BY <1>6 DEF Spliced
<1>9. ASSUME NEW x \in (i + 1)..b PROVE t[x].depth >= d
  <2>1. x \in 1..n /\ t[x].depth > t[i].depth
    BY <1>2, <1>3, <1>4
  <2>2. t[x].depth \in Nat /\ t[i].depth \in Nat
    BY <2>1, <1>1, <1>4
  <2>3. QED
    BY <2>1, <2>2
<1>10. ASSUME b < n PROVE t[b + 1].depth <= d
  <2>1. b + 1 \in 1..n /\ t[b + 1].depth <= t[i].depth
    BY <1>2, <1>3, <1>4, <1>10
  <2>2. t[b + 1].depth \in Nat /\ t[i].depth \in Nat
    BY <2>1, <1>1, <1>4
  <2>3. QED
    BY <2>1, <2>2
<1>11. Flat(t, b, w, b, d)
  <2>1. (b + 1)..b = {}
    BY <1>4
  <2>2. QED
    BY <2>1, <1>10 DEF Flat
<1>5. Longer(u, t, i, w, b, m, n, d)
  BY <1>4, <1>7, <1>8, <1>9, <1>11 DEF Longer
<1>12. QED
  BY <1>4, <1>5

LEMMA FilledLevels ==
  ASSUME NEW o \in Ontologies, OneAbove(o), NEW t, NEW i \in DOMAIN t,
         LevelsBut(o, t, t[i].cls), NoneBelow(o, t, t[i].cls)
  PROVE  /\ Levels(o, SubClassesTree(o, t, i))
         /\ \A c \in DirectSubClasses(o, t[i].cls) : InTree(SubClassesTree(o, t, i), c)
         /\ i \in DOMAIN SubClassesTree(o, t, i) /\ SubClassesTree(o, t, i)[i] = t[i]
<1>1. /\ t \in Seq(TreeItem) /\ Len(t) \in Nat /\ DOMAIN t = 1..Len(t)
      /\ \A x \in 1..Len(t) : t[x].cls \in Class /\ t[x].depth \in Nat
      /\ Rooted(t) /\ Placed(o, t) /\ Once(t) /\ Twisties(o, t) /\ Seen(o, t)
  <2>1. PICK c : c = t[i].cls
    OBVIOUS
  <2>2. LevelsBut(o, t, c)
    BY <2>1
  <2>3. QED
    BY <2>2, LevelsType
<1>2. PICK n \in Nat, d \in Nat : n = Len(t) /\ d = t[i].depth + 1
  <2>1. t[i].depth + 1 \in Nat
    BY <1>1
  <2>2. QED
    BY <2>1, <1>1
<1>3. PICK C : C = DirectSubClasses(o, t[i].cls)
  OBVIOUS
<1>4. PICK w : w = SetToSeq({NewItem(o, c, d) : c \in C})
  OBVIOUS
<1>5. /\ w \in Seq(TreeItem)
      /\ \A x \in DOMAIN w : \E e \in C : w[x] = NewItem(o, e, d)
      /\ \A e \in C : \E x \in DOMAIN w : w[x] = NewItem(o, e, d)
      /\ \A x, y \in DOMAIN w : w[x].cls = w[y].cls => x = y
  <2>1. LevelOf(o, w, t[i].cls, d)
    BY <1>3, <1>4, LevelIs
  <2>2. QED
    BY <2>1, <1>3 DEF LevelOf
<1>6. PICK m \in Nat : m = Len(w) /\ DOMAIN w = 1..m
  BY <1>5, ItemsType
<1>7. ASSUME NEW x \in 1..m
      PROVE  /\ w[x].depth = d /\ w[x].cls \in C /\ ~w[x].open /\ ~w[x].picked
             /\ ~w[x].kids => DirectSubClasses(o, w[x].cls) = {}
  <2>1. PICK e \in C : w[x] = NewItem(o, e, d)
    BY <1>5, <1>6
  <2>2. w[x].depth = d /\ w[x].cls = e /\ w[x].open = FALSE /\ w[x].picked = FALSE
    BY <2>1 DEF NewItem
  <2>3. w[x].kids = (DirectSubClasses(o, e) # {})
    BY <2>1 DEF NewItem
  <2>4. QED
    BY <2>2, <2>3
<1>8. PICK v : v = SubClassesTree(o, t, i)
  OBVIOUS
<1>9. v = Appended(t, i, w)
  BY <1>2, <1>3, <1>4, <1>8 DEF SubClassesTree, SubClassItems
<1>10. PICK b \in Nat : /\ i <= b /\ b <= n /\ Moved(v, t, b, w, b, m, n)
                        /\ v \in Seq(TreeItem) /\ Flat(t, b, w, b, d)
                        /\ \A x \in (i + 1)..b : t[x].depth >= d
  <2>1. /\ t \in Seq(TreeItem) /\ n = Len(t) /\ m = Len(w) /\ d = t[i].depth + 1
        /\ \A x \in DOMAIN w : w[x].depth = d
    BY <1>1, <1>2, <1>6, <1>7
  <2>2. PICK b \in Nat : Longer(v, t, i, w, b, m, n, d)
    BY <2>1, <1>5, <1>9, AppendedMoves
  <2>3. QED
    BY <2>2 DEF Longer
<1>11. i \in 1..n /\ 1 <= b /\ i \in 1..b
  BY <1>1, <1>2, <1>10
<1>12. Placed(o, v) /\ Rooted(v)
  <2>1. Parent(o, t, i, b, w, d) /\ StillRight(o, o, t, Stay(b, b, n))
    BY <1>2, <1>3, <1>6, <1>7, <1>10, <1>11 DEF Parent, StillRight
  <2>2. QED
    BY <2>1, <1>1, <1>2, <1>5, <1>6, <1>10, <1>11, SplicedPlaced
<1>13. /\ \A k \in DOMAIN v : (\E x \in DOMAIN t : v[k] = t[x]) \/ (\E x \in 1..m : v[k] = w[x])
       /\ \A x \in DOMAIN t : \E k \in DOMAIN v : v[k] = t[x]
       /\ \A x \in 1..m : \E k \in DOMAIN v : v[k] = w[x]
  <2>1. Stay(b, b, n) = DOMAIN t
    BY <1>1, <1>2, <1>10 DEF Stay
  <2>2. Made(v, t, Stay(b, b, n), w, m)
    BY <1>10, SplicedMade
  <2>3. QED
    BY <2>1, <2>2 DEF Made
<1>14. \A x \in DOMAIN t : t[x].cls \notin C
  BY <1>3 DEF NoneBelow, InTree
<1>15. Once(v)
  <2>1. Apartness(t, Stay(b, b, n), w, m)
    <3>1. Stay(b, b, n) = DOMAIN t
      BY <1>1, <1>2, <1>10 DEF Stay
    <3>2. QED
      BY <3>1, <1>5, <1>6, <1>7, <1>14 DEF Apartness
  <2>2. QED
    BY <2>1, <1>1, <1>2, <1>10, SplicedOnce
<1>16. Twisties(o, v)
  BY <1>1, <1>7, <1>13 DEF Twisties
<1>17. Seen(o, v)
  <2>1. SUFFICES ASSUME NEW j \in DOMAIN v, NEW k \in DOMAIN v, v[k].picked,
                        v[k].cls \in DirectSubClasses(o, v[j].cls)
                 PROVE  v[j].open
    BY DEF Seen
  <2>2. PICK x \in DOMAIN t : v[k] = t[x]
    BY <2>1, <1>7, <1>13
  <2>3. CASE \E y \in DOMAIN t : v[j] = t[y]
    BY <2>1, <2>2, <2>3, <1>1 DEF Seen
  <2>4. ASSUME NEW y \in 1..m, v[j] = w[y] PROVE FALSE
    <3>1. PICK c : c = w[y].cls
      OBVIOUS
    <3>2. c \in C /\ c \in Class /\ t[x].cls \in DirectSubClasses(o, c)
      BY <2>1, <2>2, <2>4, <3>1, <1>3, <1>7, SubClassesType
    <3>3. PICK p \in DOMAIN t : Under(t, p, x) /\ t[p].cls = c
      BY <3>2, <1>1, RowAbove
    <3>4. QED
      BY <3>2, <3>3, <1>14
  <2>5. QED
    BY <2>3, <2>4, <1>13
<1>18. ASSUME NEW c \in C PROVE InTree(v, c)
  <2>1. PICK x \in 1..m : w[x] = NewItem(o, c, d)
    BY <1>5, <1>6
  <2>2. w[x].cls = c
    BY <2>1 DEF NewItem
  <2>3. QED
    BY <2>2, <1>13 DEF InTree
<1>19. ASSUME NEW j \in DOMAIN v PROVE Filled(o, v, j)
  <2>1. SUFFICES ASSUME v[j].open, v[j].kids, NEW c \in DirectSubClasses(o, v[j].cls)
                 PROVE  InTree(v, c)
    BY DEF Filled
  <2>2. PICK y \in DOMAIN t : v[j] = t[y]
    BY <2>1, <1>7, <1>13
  <2>3. CASE t[y].cls = t[i].cls
    BY <2>1, <2>2, <2>3, <1>3, <1>18
  <2>4. CASE t[y].cls # t[i].cls
    <3>1. InTree(t, c)
      BY <2>1, <2>2, <2>4 DEF LevelsBut, Filled
    <3>2. QED
      BY <3>1, <1>13 DEF InTree
  <2>5. QED
    BY <2>3, <2>4
<1>20. i \in DOMAIN v /\ v[i] = t[i]
  BY <1>10, <1>11 DEF Moved
<1>21. Levels(o, v)
  BY <1>10, <1>12, <1>15, <1>16, <1>17, <1>19 DEF Levels, LevelsBut
<1>22. QED
  BY <1>3, <1>8, <1>18, <1>20, <1>21

\* Two lists that differ in nothing that places an item.
SameShape(u, t) ==
  /\ u \in Seq(TreeItem) /\ DOMAIN u = DOMAIN t
  /\ \A k \in DOMAIN t : u[k].cls = t[k].cls /\ u[k].depth = t[k].depth

LEMMA ShapeTells ==
  ASSUME NEW o, NEW t \in Seq(TreeItem), NEW u, SameShape(u, t)
  PROVE  /\ Rooted(t) => Rooted(u)
         /\ Placed(o, t) => Placed(o, u)
         /\ Once(t) => Once(u)
         /\ \A c : InTree(u, c) <=> InTree(t, c)
<1>1. DOMAIN t = 1..Len(t) /\ DOMAIN u = 1..Len(u) /\ Len(t) \in Nat /\ Len(u) \in Nat
  BY ItemsType DEF SameShape
<1>2. Len(u) = Len(t)
  BY <1>1 DEF SameShape
<1>3. ASSUME Placed(o, t) PROVE Placed(o, u)
  <2>1. SUFFICES ASSUME NEW k \in 2..Len(t)
                 PROVE  \E p \in 1..(k - 1) : Under(u, p, k) /\ u[k].cls \in DirectSubClasses(o, u[p].cls)
    BY <1>2 DEF Placed
  <2>2. PICK p \in 1..(k - 1) : Under(t, p, k) /\ t[k].cls \in DirectSubClasses(o, t[p].cls)
    BY <1>3 DEF Placed
  <2>3. \A y \in 1..k : y \in DOMAIN t /\ u[y].cls = t[y].cls /\ u[y].depth = t[y].depth
    BY <1>1 DEF SameShape
  <2>4. p \in 1..k /\ k \in 1..k /\ \A y \in (p + 1)..(k - 1) : y \in 1..k
    OBVIOUS
  <2>5. Under(u, p, k)
    BY <2>2, <2>3, <2>4 DEF Under
  <2>6. QED
    BY <2>2, <2>3, <2>4, <2>5
<1>4. (Rooted(t) => Rooted(u)) /\ (Once(t) => Once(u))
  BY DEF SameShape, Rooted, Once
<1>5. \A c : InTree(u, c) <=> InTree(t, c)
  BY DEF SameShape, InTree
<1>6. QED
  BY <1>3, <1>4, <1>5

\* The list t with the twisty of the item at i as told.
Twin(u, t, i, kids, open) ==
  /\ SameShape(u, t)
  /\ \A k \in DOMAIN t : /\ u[k].picked = t[k].picked /\ u[k].locked = t[k].locked
                         /\ k # i => u[k].kids = t[k].kids /\ u[k].open = t[k].open
                         /\ k = i => u[k].kids = kids /\ u[k].open = open

LEMMA TwinIs ==
  ASSUME NEW t \in Seq(TreeItem), NEW i \in DOMAIN t, NEW kids \in BOOLEAN, NEW open \in BOOLEAN
  PROVE  /\ Twin([t EXCEPT ![i].kids = kids, ![i].open = open], t, i, kids, open)
         /\ Twin([t EXCEPT ![i].open = open], t, i, t[i].kids, open)
<1>1. Len(t) \in Nat /\ DOMAIN t = 1..Len(t) /\ \A k \in 1..Len(t) : t[k] \in TreeItem
  BY ItemsType
<1>2. PICK u, v, w : /\ v = [t EXCEPT ![i].kids = kids] /\ u = [v EXCEPT ![i].open = open]
                     /\ w = [t EXCEPT ![i].open = open]
  OBVIOUS
<1>3. /\ v = [k \in 1..Len(t) |-> IF k = i THEN [t[k] EXCEPT !.kids = kids] ELSE t[k]]
      /\ w = [k \in 1..Len(t) |-> IF k = i THEN [t[k] EXCEPT !.open = open] ELSE t[k]]
  BY <1>1, <1>2
<1>4. u = [k \in 1..Len(t) |-> IF k = i THEN [t[k] EXCEPT !.kids = kids, !.open = open] ELSE t[k]]
  BY <1>2, <1>3
<1>5. /\ u \in Seq(TreeItem) /\ \A k \in DOMAIN t : u[k].cls = t[k].cls /\ u[k].depth = t[k].depth
      /\ w \in Seq(TreeItem) /\ \A k \in DOMAIN t : w[k].cls = t[k].cls /\ w[k].depth = t[k].depth
  <2>1. Alike(u, t) /\ Alike(w, t)
    BY <1>2, Marked
  <2>2. QED
    BY <2>1, <1>1 DEF Alike
<1>6. SameShape(u, t) /\ SameShape(w, t)
  BY <1>1, <1>3, <1>4, <1>5 DEF SameShape
<1>7. ASSUME NEW r \in TreeItem
      PROVE  /\ [r EXCEPT !.kids = kids, !.open = open].kids = kids
             /\ [r EXCEPT !.kids = kids, !.open = open].open = open
             /\ [r EXCEPT !.kids = kids, !.open = open].picked = r.picked
             /\ [r EXCEPT !.kids = kids, !.open = open].locked = r.locked
             /\ [r EXCEPT !.open = open].kids = r.kids
             /\ [r EXCEPT !.open = open].open = open
             /\ [r EXCEPT !.open = open].picked = r.picked
             /\ [r EXCEPT !.open = open].locked = r.locked
  BY DEF TreeItem
<1>8. ASSUME NEW k \in DOMAIN t
      PROVE  /\ u[k].picked = t[k].picked /\ u[k].locked = t[k].locked
             /\ w[k].picked = t[k].picked /\ w[k].locked = t[k].locked
             /\ k # i => /\ u[k].kids = t[k].kids /\ u[k].open = t[k].open
                         /\ w[k].kids = t[k].kids /\ w[k].open = t[k].open
             /\ k = i => /\ u[k].kids = kids /\ u[k].open = open
                         /\ w[k].kids = t[k].kids /\ w[k].open = open
  <2>1. t[k] \in TreeItem /\ k \in 1..Len(t)
    BY <1>1
  <2>2. CASE k = i
    <3>1. u[k] = [t[k] EXCEPT !.kids = kids, !.open = open] /\ w[k] = [t[k] EXCEPT !.open = open]
      BY <1>3, <1>4, <2>1, <2>2
    <3>2. QED
      BY <3>1, <2>1, <2>2, <1>7
  <2>3. CASE k # i
    BY <1>3, <1>4, <2>1, <2>3
  <2>4. QED
    BY <2>2, <2>3
<1>9. Twin(u, t, i, kids, open)
  BY <1>6, <1>8 DEF Twin
<1>10. Twin(w, t, i, t[i].kids, open)
  BY <1>6, <1>8 DEF Twin
<1>11. QED
  BY <1>2, <1>9, <1>10

\* The twisty may be opened when nothing is missing below the item, and
\* closed when nothing is there.
LEMMA TwinLevels ==
  ASSUME NEW o \in Ontologies, OneAbove(o), NEW t, NEW i \in DOMAIN t, NEW kids, NEW open,
         LevelsBut(o, t, t[i].cls), NEW u, Twin(u, t, i, kids, open),
         open /\ kids => \A c \in DirectSubClasses(o, t[i].cls) : InTree(t, c),
         ~kids => DirectSubClasses(o, t[i].cls) = {},
         open \/ ~t[i].open \/ NoneBelow(o, t, t[i].cls)
  PROVE  Levels(o, u)
<1>1. /\ t \in Seq(TreeItem) /\ DOMAIN t = 1..Len(t)
      /\ Rooted(t) /\ Placed(o, t) /\ Once(t) /\ Twisties(o, t) /\ Seen(o, t)
  BY LevelsType
<1>2. u \in Seq(TreeItem) /\ DOMAIN u = DOMAIN t /\ SameShape(u, t)
  BY DEF Twin, SameShape
<1>3. Rooted(u) /\ Placed(o, u) /\ Once(u) /\ \A c : InTree(u, c) <=> InTree(t, c)
  BY <1>1, <1>2, ShapeTells
<1>4. \A k \in DOMAIN t : /\ u[k].picked = t[k].picked /\ u[k].cls = t[k].cls
                          /\ k # i => u[k].kids = t[k].kids /\ u[k].open = t[k].open
                          /\ k = i => u[k].kids = kids /\ u[k].open = open
  BY DEF Twin, SameShape
<1>5. Twisties(o, u)
  BY <1>1, <1>2, <1>4 DEF Twisties
<1>6. Seen(o, u)
  <2>1. SUFFICES ASSUME NEW j \in DOMAIN t, NEW k \in DOMAIN t, t[k].picked,
                        t[k].cls \in DirectSubClasses(o, t[j].cls)
                 PROVE  u[j].open
    BY <1>2, <1>4 DEF Seen
  <2>2. t[j].open
    BY <2>1, <1>1 DEF Seen
  <2>3. CASE j # i
    BY <2>2, <2>3, <1>4
  <2>4. CASE j = i
    <3>1. ~NoneBelow(o, t, t[i].cls)
      BY <2>1, <2>4 DEF NoneBelow, InTree
    <3>2. QED
      BY <3>1, <2>2, <2>4, <1>4
  <2>5. QED
    BY <2>3, <2>4
<1>7. ASSUME NEW j \in DOMAIN u PROVE Filled(o, u, j)
  <2>1. CASE j = i
    BY <2>1, <1>2, <1>3, <1>4 DEF Filled
  <2>2. CASE j # i
    <3>1. t[j].cls # t[i].cls
      BY <2>2, <1>1, <1>2 DEF Once
    <3>2. Filled(o, t, j)
      BY <3>1, <1>2 DEF LevelsBut
    <3>3. QED
      BY <3>2, <2>2, <1>2, <1>3, <1>4 DEF Filled
  <2>3. QED
    BY <2>1, <2>2
<1>8. QED
  BY <1>2, <1>3, <1>5, <1>6, <1>7 DEF Levels, LevelsBut

-----------------------------------------------------------------------------
(* The hierarchy as long as superclasses are not edited *)

Settled == Only(PlainGestures \cup {"types"})

OneGiven == \A c \in ImportedClass : Cardinality(DirectSupers(GivenOnt, c)) <= 1

GivenKept(o) == ImportedClass \subseteq o.live /\ \A c \in ImportedClass : o.supers[c] = Given[c]

(* The other classes were created, below one class each, which is deleted   *)
(* after them only.                                                        *)
Treelike(o) ==
  /\ GivenKept(o)
  /\ \A c \in Class : c \notin SuperClasses(o, c)
  /\ \A c \in Class \ ImportedClass :
       IF c \in o.live THEN \E s \in o.live : o.supers[c] = {s} ELSE o.supers[c] = {}

\* Above an imported class there are only imported ones.
LEMMA GivenUp ==
  ASSUME NEW o \in Ontologies, GivenKept(o), NEW c \in ImportedClass
  PROVE  SuperClasses(o, c) \subseteq ImportedClass
<1>1. ImportedClass \in SUBSET Class /\ Given \in [ImportedClass -> SUBSET ImportedClass] /\ c \in Class
  BY ClassAssumption
<1>2. o.supers[c] \subseteq ImportedClass /\ ClosedUpward(o, ImportedClass)
  BY <1>1 DEF GivenKept, ClosedUpward
<1>3. QED
  BY <1>1, <1>2, SuperClassesUp

LEMMA GivenSame ==
  ASSUME NEW o \in Ontologies, GivenKept(o), NEW n \in Ontologies, GivenKept(n), NEW c \in ImportedClass
  PROVE  DirectSupers(n, c) = DirectSupers(o, c) /\ DirectSupers(o, c) \subseteq ImportedClass
<1>1. /\ ImportedClass \subseteq Class /\ Given[c] \subseteq ImportedClass /\ Thing \in ImportedClass
      /\ o.supers[c] = Given[c] /\ n.supers[c] = Given[c]
  BY ClassAssumption DEF GivenKept
<1>2. ASSUME NEW d \in ImportedClass PROVE SuperClasses(n, d) = SuperClasses(o, d)
  <2>1. d \in Class /\ SuperClasses(o, d) \subseteq ImportedClass /\ SuperClasses(n, d) \subseteq ImportedClass
    BY <1>1, GivenUp
  <2>2. /\ \A e \in SuperClasses(o, d) \cup {d} : n.supers[e] \subseteq o.supers[e]
        /\ \A e \in SuperClasses(n, d) \cup {d} : o.supers[e] \subseteq n.supers[e]
    BY <2>1 DEF GivenKept
  <2>3. SuperClasses(n, d) \subseteq SuperClasses(o, d)
    BY <2>1, <2>2, SuperClassesShrink
  <2>4. SuperClasses(o, d) \subseteq SuperClasses(n, d)
    BY <2>1, <2>2, SuperClassesShrink
  <2>5. QED
    BY <2>3, <2>4
<1>3. Lowest(o, Given[c]) = Lowest(n, Given[c]) /\ Lowest(o, Given[c]) \subseteq Given[c]
  BY <1>1, <1>2 DEF Lowest
<1>4. QED
  BY <1>1, <1>3 DEF DirectSupers

LEMMA CreatedUnder ==
  ASSUME NEW o \in Ontologies, Treelike(o), NEW c \in o.live, c \notin ImportedClass,
         NEW s, o.supers[c] = {s}
  PROVE  DirectSupers(o, c) = {s}
<1>1. c # Thing /\ s \in Class
  BY ClassAssumption DEF Ontologies
<1>2. Lowest(o, {s}) = {s}
  BY <1>1 DEF Lowest, Treelike
<1>3. QED
  BY <1>1, <1>2 DEF DirectSupers

LEMMA TreelikeTells ==
  ASSUME NEW o \in Ontologies, Treelike(o)
  PROVE  /\ \A c \in Class : o.supers[c] \subseteq o.live
         /\ \A c \in o.live : DirectSupers(o, c) \subseteq o.live
         /\ ClosedUpward(o, o.live)
<1>1. ASSUME NEW c \in Class PROVE o.supers[c] \subseteq o.live
  <2>1. CASE c \in ImportedClass
    BY <2>1, ClassAssumption DEF Treelike, GivenKept
  <2>2. CASE c \notin ImportedClass
    BY <2>2 DEF Treelike
  <2>3. QED
    BY <2>1, <2>2
<1>2. ASSUME NEW c \in o.live PROVE DirectSupers(o, c) \subseteq o.live
  <2>1. CASE c \in ImportedClass
    <3>1. DirectSupers(o, c) \subseteq ImportedClass
      BY <2>1, GivenSame DEF Treelike
    <3>2. QED
      BY <3>1 DEF Treelike, GivenKept
  <2>2. CASE c \notin ImportedClass
    <3>1. PICK s \in o.live : o.supers[c] = {s}
      BY <2>2 DEF Treelike, Ontologies
    <3>2. QED
      BY <3>1, <2>2, CreatedUnder
  <2>3. QED
    BY <2>1, <2>2
<1>3. ClosedUpward(o, o.live)
  BY <1>1 DEF ClosedUpward, Ontologies
<1>4. QED
  BY <1>1, <1>2, <1>3

\* The classes that both ontologies have are below the same ones.
LEMMA SupersSame ==
  ASSUME NEW o \in Ontologies, Treelike(o), NEW n \in Ontologies, Treelike(n),
         NEW c \in o.live, c \in n.live, n.supers[c] = o.supers[c]
  PROVE  DirectSupers(n, c) = DirectSupers(o, c)
<1>1. CASE c \in ImportedClass
  BY <1>1, GivenSame DEF Treelike
<1>2. CASE c \notin ImportedClass
  <2>1. PICK s \in o.live : o.supers[c] = {s}
    BY <1>2 DEF Treelike, Ontologies
  <2>2. QED
    BY <2>1, <1>2, CreatedUnder
<1>3. QED
  BY <1>1, <1>2

LEMMA OneAboveIs ==
  ASSUME NEW o \in Ontologies, Treelike(o), OneGiven
  PROVE  OneAbove(o)
<1>1. SUFFICES ASSUME NEW c \in Class, NEW p \in Class, NEW q \in Class,
                      c \in DirectSubClasses(o, p), c \in DirectSubClasses(o, q)
               PROVE  p = q
  BY DEF OneAbove
<1>2. c \in o.live /\ p \in DirectSupers(o, c) /\ q \in DirectSupers(o, c)
  BY <1>1 DEF DirectSubClasses
<1>3. CASE c \in ImportedClass
  <2>1. PICK S : S = DirectSupers(GivenOnt, c)
    OBVIOUS
  <2>2. GivenOnt \in Ontologies /\ GivenKept(GivenOnt)
    <3>1. GivenOnt \in Ontologies
      BY GivenTame
    <3>2. GivenOnt.live = ImportedClass /\ \A d \in ImportedClass : GivenOnt.supers[d] = Given[d]
      BY ClassAssumption DEF GivenOnt
    <3>3. QED
      BY <3>1, <3>2 DEF GivenKept
  <2>3. p \in S /\ q \in S /\ S \subseteq ImportedClass
    BY <1>2, <1>3, <2>1, <2>2, GivenSame DEF Treelike
  <2>4. IsFiniteSet(S) /\ Cardinality(S) <= 1
    <3>1. IsFiniteSet(Class) /\ ImportedClass \subseteq Class
      BY ClassAssumption
    <3>2. IsFiniteSet(S)
      BY <3>1, <2>3, FS_Subset
    <3>3. QED
      BY <3>2, <1>3, <2>1 DEF OneGiven
  <2>5. /\ IsFiniteSet(S \ {p}) /\ Cardinality(S \ {p}) = Cardinality(S) - 1 /\ Cardinality(S) \in Nat
        /\ Cardinality(S \ {p}) \in Nat
    BY <2>3, <2>4, FS_RemoveElement, FS_CardinalityType
  <2>6. Cardinality(S \ {p}) = 0
    BY <2>4, <2>5
  <2>7. S \ {p} = {}
    BY <2>5, <2>6, FS_EmptySet
  <2>8. QED
    BY <2>3, <2>7
<1>4. CASE c \notin ImportedClass
  <2>1. PICK s \in o.live : o.supers[c] = {s}
    BY <1>2, <1>4 DEF Treelike
  <2>2. DirectSupers(o, c) = {s}
    BY <2>1, <1>2, <1>4, CreatedUnder
  <2>3. QED
    BY <2>2, <1>2
<1>5. QED
  BY <1>3, <1>4

LEMMA GivenTreelike == GivenOnt \in Ontologies /\ Treelike(GivenOnt)
<1>1. /\ GivenOnt.live = ImportedClass
      /\ \A c \in Class : GivenOnt.supers[c] = IF c \in ImportedClass THEN Given[c] ELSE {}
      /\ ImportedClass \subseteq Class
  BY ClassAssumption DEF GivenOnt
<1>2. \A c \in Class : c \notin SuperClasses(GivenOnt, c)
  BY HierarchyAssumption
<1>3. GivenOnt \in Ontologies
  BY GivenTame
<1>4. QED
  BY <1>1, <1>2, <1>3 DEF Treelike, GivenKept

Extended(n, o, c, s) == n = [o EXCEPT !.live = @ \cup {c}, !.supers[c] = {s}]

(* A new class is right below the one it was made for.                      *)
LEMMA CreatedSubs ==
  ASSUME NEW o \in Ontologies, Treelike(o), NEW c \in Class, c \notin o.live, NEW s \in o.live,
         NEW n, Extended(n, o, c, s)
  PROVE  /\ n \in Ontologies /\ Treelike(n) /\ c \notin ImportedClass /\ s # c /\ s \in Class
         /\ DirectSubClasses(n, c) = {} /\ DirectSubClasses(n, s) = DirectSubClasses(o, s) \cup {c}
         /\ \A p \in Class : p # s => DirectSubClasses(n, p) = DirectSubClasses(o, p)
<1>1. /\ o.live \in SUBSET Class /\ o.supers \in [Class -> SUBSET Class]
      /\ o.types \in [Individual -> SUBSET Class] /\ s \in Class /\ s # c
  BY DEF Ontologies
<1>2. /\ n \in Ontologies /\ n.live = o.live \cup {c}
      /\ \A d \in Class : n.supers[d] = IF d = c THEN {s} ELSE o.supers[d]
  <2>1. /\ n.live = o.live \cup {c} /\ n.supers = [o.supers EXCEPT ![c] = {s}] /\ n.types = o.types
        /\ n = [live |-> n.live, supers |-> n.supers, types |-> n.types]
    BY DEF Ontologies, Extended
  <2>2. /\ [o.supers EXCEPT ![c] = {s}] \in [Class -> SUBSET Class]
        /\ \A d \in Class : [o.supers EXCEPT ![c] = {s}][d] = IF d = c THEN {s} ELSE o.supers[d]
    BY <1>1
  <2>3. n \in Ontologies
    BY <2>1, <2>2, <1>1 DEF Ontologies
  <2>4. QED
    BY <2>1, <2>2, <2>3
<1>3. /\ \A e \in Class : o.supers[e] \subseteq o.live
      /\ \A e \in o.live : DirectSupers(o, e) \subseteq o.live
      /\ ClosedUpward(o, o.live)
  BY TreelikeTells
<1>4. GivenKept(n) /\ c \notin ImportedClass
  <2>1. c \notin ImportedClass /\ ImportedClass \subseteq Class /\ GivenKept(o)
    BY ClassAssumption DEF Treelike, GivenKept
  <2>2. QED
    BY <2>1, <1>2 DEF GivenKept
<1>5. ASSUME NEW d \in Class PROVE d \notin SuperClasses(n, d)
  <2>1. CASE d = c
    <3>1. n.supers[c] \subseteq o.live /\ ClosedUpward(n, o.live)
      BY <1>1, <1>2, <1>3 DEF ClosedUpward
    <3>2. SuperClasses(n, c) \subseteq o.live
      BY <3>1, <1>1, <1>2, SuperClassesUp
    <3>3. QED
      BY <2>1, <3>2
  <2>2. CASE d # c
    <3>1. c \notin SuperClasses(o, d)
      BY <1>1, <1>3, SuperClassesUp
    <3>2. SuperClasses(o, d) \subseteq Class
      BY SuperClassesUp
    <3>3. \A e \in SuperClasses(o, d) \cup {d} : n.supers[e] \subseteq o.supers[e]
      BY <2>2, <3>1, <3>2, <1>2
    <3>4. SuperClasses(n, d) \subseteq SuperClasses(o, d)
      BY <3>3, <1>2, SuperClassesShrink
    <3>5. QED
      BY <3>4 DEF Treelike
  <2>3. QED
    BY <2>1, <2>2
<1>6. ASSUME NEW d \in Class \ ImportedClass
      PROVE  IF d \in n.live THEN \E x \in n.live : n.supers[d] = {x} ELSE n.supers[d] = {}
  <2>1. CASE d = c
    BY <2>1, <1>2
  <2>2. CASE d # c
    BY <2>2, <1>2 DEF Treelike
  <2>3. QED
    BY <2>1, <2>2
<1>7. Treelike(n)
  BY <1>4, <1>5, <1>6 DEF Treelike
<1>8. DirectSupers(n, c) = {s}
  <2>1. n \in Ontologies /\ Treelike(n) /\ c \in n.live /\ c \notin ImportedClass /\ n.supers[c] = {s}
    BY <1>2, <1>4, <1>7
  <2>2. QED
    BY <2>1, CreatedUnder
<1>9. ASSUME NEW d \in o.live PROVE DirectSupers(n, d) = DirectSupers(o, d)
  <2>1. d \in n.live /\ n.supers[d] = o.supers[d]
    BY <1>1, <1>2
  <2>2. QED
    BY <2>1, <1>2, <1>7, SupersSame
<1>10. /\ DirectSubClasses(n, s) = DirectSubClasses(o, s) \cup {c}
       /\ \A p \in Class : p # s => DirectSubClasses(n, p) = DirectSubClasses(o, p)
  <2>1. \A d, p : d \in DirectSubClasses(n, p) <=>
                    d \in DirectSubClasses(o, p) \/ (d = c /\ p = s)
    BY <1>2, <1>8, <1>9 DEF DirectSubClasses
  <2>2. QED
    BY <2>1
<1>11. DirectSubClasses(o, c) = {}
  BY <1>3 DEF DirectSubClasses
<1>12. DirectSubClasses(n, c) = {}
  BY <1>1, <1>10, <1>11
<1>13. QED
  BY <1>1, <1>2, <1>4, <1>7, <1>10, <1>12

(* The deletion of a class without subclasses leaves the others in their    *)
(* places.                                                                  *)
LEMMA DeletedSubs ==
  ASSUME NEW o \in Ontologies, Treelike(o), NEW c \in o.live, c \notin ImportedClass,
         DirectSubClasses(o, c) = {}
  PROVE  /\ Treelike(Deleted(o, c))
         /\ \A p \in Class : DirectSubClasses(Deleted(o, c), p) = DirectSubClasses(o, p) \ {c}
<1>1. c \in Class /\ ImportedClass \subseteq o.live /\ ImportedClass \subseteq Class /\ o.live \subseteq Class
  BY ClassAssumption DEF Treelike, GivenKept, Ontologies
<1>2. PICK n : n = Deleted(o, c)
  OBVIOUS
<1>3. /\ n \in Ontologies /\ n.live = o.live \ {c}
      /\ \A d \in Class : n.supers[d] = IF d = c THEN {} ELSE o.supers[d] \ {c}
  <2>1. n \in Ontologies
    BY <1>1, <1>2, DeletedTame
  <2>2. QED
    BY <2>1, <1>2 DEF Deleted
<1>4. ASSUME NEW d \in Class PROVE c \notin o.supers[d]
  <2>1. CASE d \in ImportedClass
    BY <2>1, ClassAssumption DEF Treelike, GivenKept
  <2>2. CASE d \notin ImportedClass /\ d \notin o.live
    BY <2>2 DEF Treelike
  <2>3. CASE d \notin ImportedClass /\ d \in o.live
    <3>1. PICK x \in o.live : o.supers[d] = {x}
      BY <2>3 DEF Treelike
    <3>2. DirectSupers(o, d) = {x}
      BY <3>1, <2>3, CreatedUnder
    <3>3. x # c
      BY <3>2, <2>3 DEF DirectSubClasses
    <3>4. QED
      BY <3>1, <3>3
  <2>4. QED
    BY <2>1, <2>2, <2>3
<1>5. \A d \in Class : n.supers[d] = IF d = c THEN {} ELSE o.supers[d]
  <2>1. \A d \in Class : o.supers[d] \ {c} = o.supers[d]
    BY <1>4
  <2>2. QED
    BY <2>1, <1>3
<1>6. GivenKept(n)
  BY <1>1, <1>3, <1>5 DEF Treelike, GivenKept
<1>7. ASSUME NEW d \in Class PROVE d \notin SuperClasses(n, d)
  <2>1. SuperClasses(o, d) \subseteq Class
    BY SuperClassesUp
  <2>2. \A e \in SuperClasses(o, d) \cup {d} : n.supers[e] \subseteq o.supers[e]
    BY <2>1, <1>5
  <2>3. SuperClasses(n, d) \subseteq SuperClasses(o, d)
    BY <2>2, <1>3, SuperClassesShrink
  <2>4. QED
    BY <2>3 DEF Treelike
<1>8. ASSUME NEW d \in Class \ ImportedClass
      PROVE  IF d \in n.live THEN \E x \in n.live : n.supers[d] = {x} ELSE n.supers[d] = {}
  <2>1. CASE d = c
    BY <2>1, <1>3, <1>5
  <2>2. CASE d # c
    <3>1. n.supers[d] = o.supers[d] /\ c \notin o.supers[d] /\ (d \in n.live <=> d \in o.live)
      BY <2>2, <1>3, <1>4, <1>5
    <3>2. IF d \in o.live THEN \E x \in o.live : o.supers[d] = {x} ELSE o.supers[d] = {}
      BY DEF Treelike
    <3>3. QED
      BY <3>1, <3>2, <1>3
  <2>3. QED
    BY <2>1, <2>2
<1>9. Treelike(n)
  BY <1>6, <1>7, <1>8 DEF Treelike
<1>10. ASSUME NEW d \in n.live PROVE DirectSupers(n, d) = DirectSupers(o, d)
  <2>1. d \in o.live /\ n.supers[d] = o.supers[d]
    BY <1>1, <1>3, <1>5
  <2>2. QED
    BY <2>1, <1>3, <1>9, SupersSame
<1>11. \A p \in Class : DirectSubClasses(n, p) = DirectSubClasses(o, p) \ {c}
  BY <1>3, <1>10 DEF DirectSubClasses
<1>12. QED
  BY <1>2, <1>9, <1>11

\* The hierarchy does not depend on the individuals.
LEMMA TypedSubs ==
  ASSUME NEW o \in Ontologies, NEW n \in Ontologies, n.live = o.live, n.supers = o.supers
  PROVE  /\ \A c \in Class : DirectSubClasses(n, c) = DirectSubClasses(o, c)
         /\ Treelike(o) => Treelike(n)
         /\ GivenKept(o) => GivenKept(n)
<1>1. \A c : SuperClasses(n, c) = SuperClasses(o, c)
  BY DEF SuperClasses, ClosedUpward
<1>2. \A S : Lowest(n, S) = Lowest(o, S)
  BY <1>1 DEF Lowest
<1>3. \A c : DirectSupers(n, c) = DirectSupers(o, c)
  BY <1>2 DEF DirectSupers
<1>4. \A c \in Class : DirectSubClasses(n, c) = DirectSubClasses(o, c)
  BY <1>3 DEF DirectSubClasses
<1>5. GivenKept(o) => GivenKept(n)
  BY DEF GivenKept
<1>6. Treelike(o) => Treelike(n)
  BY <1>1, <1>5 DEF Treelike
<1>7. QED
  BY <1>4, <1>5, <1>6

-----------------------------------------------------------------------------
(* The imported classes cannot be deleted *)

Guarded(t) == \A k \in DOMAIN t : t[k].cls \in ImportedClass => t[k].locked

\* The items of u have the classes and the locks of those of t.
SameLocks(u, t) ==
  /\ u \in Seq(TreeItem) /\ DOMAIN u = DOMAIN t
  /\ \A k \in DOMAIN t : u[k].cls = t[k].cls /\ u[k].locked = t[k].locked

LEMMA LocksTell ==
  ASSUME NEW t, Guarded(t), NEW u, SameLocks(u, t)
  PROVE  Guarded(u)
  BY DEF Guarded, SameLocks

LEMMA MarkedLocks ==
  ASSUME NEW t \in Seq(TreeItem), NEW i, NEW kids \in BOOLEAN, NEW open \in BOOLEAN
  PROVE  /\ SameLocks([t EXCEPT ![i].kids = kids, ![i].open = open], t)
         /\ SameLocks([t EXCEPT ![i].open = open], t)
<1>1. DOMAIN t = 1..Len(t) /\ Len(t) \in Nat /\ \A k \in 1..Len(t) : t[k] \in TreeItem
  BY ItemsType
<1>2. ASSUME NEW r \in TreeItem
      PROVE  /\ [r EXCEPT !.kids = kids].cls = r.cls /\ [r EXCEPT !.kids = kids].locked = r.locked
             /\ [r EXCEPT !.open = open].cls = r.cls /\ [r EXCEPT !.open = open].locked = r.locked
             /\ [r EXCEPT !.kids = kids] \in TreeItem /\ [r EXCEPT !.open = open] \in TreeItem
  <2>1. PICK q, s : q = [r EXCEPT !.kids = kids] /\ s = [r EXCEPT !.open = open]
    OBVIOUS
  <2>2. q \in TreeItem /\ q.cls = r.cls /\ q.locked = r.locked
    BY <2>1 DEF TreeItem
  <2>3. s \in TreeItem /\ s.cls = r.cls /\ s.locked = r.locked
    BY <2>1 DEF TreeItem
  <2>4. /\ [r EXCEPT !.kids = kids].cls = r.cls /\ [r EXCEPT !.kids = kids].locked = r.locked
        /\ [r EXCEPT !.kids = kids] \in TreeItem
    BY <2>1, <2>2
  <2>5. /\ [r EXCEPT !.open = open].cls = r.cls /\ [r EXCEPT !.open = open].locked = r.locked
        /\ [r EXCEPT !.open = open] \in TreeItem
    BY <2>1, <2>3
  <2>6. QED
    BY <2>4, <2>5
<1>3. PICK u, v, w : /\ v = [t EXCEPT ![i].kids = kids] /\ u = [v EXCEPT ![i].open = open]
                     /\ w = [t EXCEPT ![i].open = open]
  OBVIOUS
<1>4. /\ DOMAIN v = DOMAIN t /\ DOMAIN u = DOMAIN t /\ DOMAIN w = DOMAIN t
      /\ \A k \in DOMAIN t : /\ v[k] = (IF k = i THEN [t[k] EXCEPT !.kids = kids] ELSE t[k])
                             /\ u[k] = (IF k = i THEN [v[k] EXCEPT !.open = open] ELSE v[k])
                             /\ w[k] = (IF k = i THEN [t[k] EXCEPT !.open = open] ELSE t[k])
  BY <1>1, <1>3
<1>5. ASSUME NEW k \in DOMAIN t
      PROVE  /\ v[k] \in TreeItem /\ v[k].cls = t[k].cls /\ v[k].locked = t[k].locked
             /\ w[k].cls = t[k].cls /\ w[k].locked = t[k].locked
  <2>1. t[k] \in TreeItem
    BY <1>1
  <2>2. v[k] \in TreeItem /\ v[k].cls = t[k].cls /\ v[k].locked = t[k].locked
    BY <2>1, <1>2, <1>4
  <2>3. w[k].cls = t[k].cls /\ w[k].locked = t[k].locked
    BY <2>1, <1>2, <1>4
  <2>4. QED
    BY <2>2, <2>3
<1>6. ASSUME NEW k \in DOMAIN t PROVE u[k].cls = t[k].cls /\ u[k].locked = t[k].locked
  <2>1. v[k] \in TreeItem
    BY <1>5
  <2>2. u[k].cls = v[k].cls /\ u[k].locked = v[k].locked
    BY <2>1, <1>2, <1>4
  <2>3. QED
    BY <2>2, <1>5
<1>7. u \in Seq(TreeItem) /\ w \in Seq(TreeItem)
  BY <1>3, Marked DEF Alike
<1>8. QED
  BY <1>3, <1>4, <1>5, <1>6, <1>7 DEF SameLocks

LEMMA SplicedLocks ==
  ASSUME NEW t \in Seq(TreeItem), NEW w \in Seq(TreeItem), Guarded(t), Guarded(w),
         NEW a \in Nat, NEW b \in Nat, a <= b, b <= Len(t), NEW u, Spliced(u, t, a, w, b)
  PROVE  Guarded(u)
<1>1. DOMAIN t = 1..Len(t) /\ DOMAIN w = 1..Len(w)
  BY ItemsType
<1>2. PICK n \in Nat, m \in Nat : n = Len(t) /\ m = Len(w)
  BY ItemsType
<1>3. Moved(u, t, a, w, b, m, n)
  BY <1>2, SplicedMoves
<1>4. \A k \in DOMAIN u : (\E x \in Stay(a, b, n) : u[k] = t[x]) \/ (\E x \in 1..m : u[k] = w[x])
  <2>1. Made(u, t, Stay(a, b, n), w, m)
    BY <1>3, SplicedMade
  <2>2. QED
    BY <2>1 DEF Made
<1>5. \A x \in Stay(a, b, n) : x \in 1..n
  BY <1>2 DEF Stay
<1>6. QED
  BY <1>1, <1>2, <1>4, <1>5 DEF Guarded

-----------------------------------------------------------------------------
(* What createdSubClass and removedClass do to the levels *)

\* v is t without the item at i and what is below it.
Rest(v, t, i, a, b, n) ==
  /\ v \in Seq(TreeItem) /\ b \in Nat /\ b = LastUnder(t, i) /\ i <= b /\ b <= n
  /\ Spliced(v, t, a, <<>>, b) /\ Moved(v, t, a, <<>>, b, 0, n)
  /\ CheckAndRemove(t, i) =
       IF ItemAbove(t, i) # 0 /\ Children(v, ItemAbove(t, i)) = {}
       THEN [v EXCEPT ![ItemAbove(t, i)].kids = FALSE, ![ItemAbove(t, i)].open = FALSE] ELSE v

LEMMA RestIs ==
  ASSUME NEW t \in Seq(TreeItem), NEW i \in DOMAIN t, NEW a \in Nat, a = i - 1,
         NEW n \in Nat, n = Len(t)
  PROVE  \E v, b : Rest(v, t, i, a, b, n)
<1>1. i \in 1..n /\ LastUnder(t, i) \in i..n
  BY ItemsType, LastUnderIs
<1>2. PICK b \in Nat : b = LastUnder(t, i) /\ i <= b /\ a <= b /\ b <= n
  BY <1>1
<1>3. PICK v : v = SubSeq(t, 1, i - 1) \o SubSeq(t, LastUnder(t, i) + 1, Len(t))
  OBVIOUS
<1>4. Spliced(v, t, a, <<>>, b)
  BY <1>1, <1>2, <1>3, CutIs
<1>5. PICK m \in Nat, w \in Seq(TreeItem) : m = 0 /\ w = <<>> /\ m = Len(w)
  BY NothingIs
<1>6. Moved(v, t, a, w, b, m, n)
  BY <1>2, <1>4, <1>5, SplicedMoves
<1>7. v \in Seq(TreeItem)
  BY <1>4 DEF Spliced
<1>8. CheckAndRemove(t, i) =
        IF ItemAbove(t, i) # 0 /\ Children(v, ItemAbove(t, i)) = {}
        THEN [v EXCEPT ![ItemAbove(t, i)].kids = FALSE, ![ItemAbove(t, i)].open = FALSE] ELSE v
  BY <1>3 DEF CheckAndRemove
<1>9. Rest(v, t, i, a, b, n)
  BY <1>2, <1>4, <1>5, <1>6, <1>7, <1>8 DEF Rest
<1>10. QED
  BY <1>9

LEMMA CheckedLocks ==
  ASSUME NEW t \in Seq(TreeItem), Guarded(t), NEW i \in DOMAIN t
  PROVE  CheckAndRemove(t, i) \in Seq(TreeItem) /\ Guarded(CheckAndRemove(t, i))
<1>1. i \in 1..Len(t) /\ Len(t) \in Nat
  BY ItemsType
<1>2. PICK a \in Nat, n \in Nat : a = i - 1 /\ n = Len(t)
  BY <1>1
<1>3. PICK v, b : Rest(v, t, i, a, b, n)
  BY <1>2, RestIs
<1>4. v \in Seq(TreeItem) /\ Guarded(v)
  <2>1. v \in Seq(TreeItem) /\ b \in Nat /\ a <= b /\ b <= Len(t) /\ Spliced(v, t, a, <<>>, b)
    BY <1>1, <1>2, <1>3 DEF Rest
  <2>2. PICK w \in Seq(TreeItem) : w = <<>>
    BY NothingIs
  <2>3. Guarded(w)
    BY <2>2 DEF Guarded
  <2>4. QED
    BY <2>1, <2>2, <2>3, SplicedLocks
<1>5. PICK p : p = ItemAbove(t, i)
  OBVIOUS
<1>6. SameLocks([v EXCEPT ![p].kids = FALSE, ![p].open = FALSE], v)
  BY <1>4, MarkedLocks
<1>7. PICK u : u = [v EXCEPT ![p].kids = FALSE, ![p].open = FALSE]
  OBVIOUS
<1>8. u \in Seq(TreeItem) /\ Guarded(u)
  BY <1>4, <1>6, <1>7, LocksTell DEF SameLocks
<1>9. CheckAndRemove(t, i) = u \/ CheckAndRemove(t, i) = v
  BY <1>3, <1>5, <1>7 DEF Rest
<1>10. QED
  BY <1>4, <1>8, <1>9

\* Where the class shows once only, removedClass takes that item away.
LEMMA RemovedAt ==
  ASSUME NEW t \in Seq(TreeItem), Once(t), NEW i \in DOMAIN t
  PROVE  RemovedClass(t, t[i].cls) = CheckAndRemove(t, i)
<1>1. i \in 1..Len(t) /\ Len(t) \in Nat /\ DOMAIN t = 1..Len(t)
  BY ItemsType
<1>2. PICK a \in Nat, n \in Nat : a = i - 1 /\ n = Len(t)
  <2>1. i - 1 \in Nat /\ Len(t) \in Nat
    BY <1>1
  <2>2. QED
    BY <2>1
<1>0. PICK c : c = t[i].cls
  OBVIOUS
<1>3. PICK v, b : Rest(v, t, i, a, b, n)
  BY <1>2, RestIs
<1>4. PICK u : u = CheckAndRemove(t, i)
  OBVIOUS
<1>5. \A k \in DOMAIN v : v[k].cls # c
  <2>1. /\ b \in Nat /\ i <= b /\ b <= n /\ Moved(v, t, a, <<>>, b, 0, n)
    BY <1>3 DEF Rest
  <2>2. PICK m \in Nat : m = 0
    OBVIOUS
  <2>3. Made(v, t, Stay(a, b, n), <<>>, m)
    BY <2>1, <2>2, SplicedMade
  <2>4. \A x \in Stay(a, b, n) : x \in 1..n /\ x # i
    BY <1>1, <1>2, <2>1 DEF Stay
  <2>5. \A k \in DOMAIN v : \E x \in Stay(a, b, n) : v[k] = t[x]
    <3>1. 1..m = {}
      BY <2>2
    <3>2. QED
      BY <2>3, <3>1 DEF Made
  <2>6. QED
    BY <2>4, <2>5, <1>0, <1>1, <1>2 DEF Once
<1>6. DOMAIN u = 1..Len(u) /\ \A k \in DOMAIN u : u[k].cls # c
  <2>1. v \in Seq(TreeItem)
    BY <1>3 DEF Rest
  <2>2. PICK p : p = ItemAbove(t, i)
    OBVIOUS
  <2>3. SameLocks([v EXCEPT ![p].kids = FALSE, ![p].open = FALSE], v)
    BY <2>1, MarkedLocks
  <2>4. u = v \/ SameLocks(u, v)
    BY <1>3, <1>4, <2>2, <2>3 DEF Rest
  <2>5. u \in Seq(TreeItem)
    BY <2>1, <2>4 DEF SameLocks
  <2>6. QED
    BY <2>4, <2>5, <1>5 DEF SameLocks
<1>7. \A k \in 1..n : k # i => RemovingTurn(t, k, c) = t
  BY <1>0, <1>1, <1>2 DEF RemovingTurn, Once
<1>8. \A k \in 1..n : RemovingTurn(u, k, c) = u
  BY <1>6 DEF RemovingTurn
<1>9. RemovingTurn(t, i, c) = u
  BY <1>0, <1>1, <1>2, <1>4 DEF RemovingTurn
<1>10. PICK h : RemovedBy(h, t, c, n)
  BY <1>2, RemovedTurns
<1>11. /\ h[0] = t /\ \A k \in 1..n : h[k] = RemovingTurn(h[k - 1], k, c)
       /\ RemovedClass(t, c) = h[n]
  BY <1>10 DEF RemovedBy
<1> DEFINE P == {k \in Nat : k <= n => h[k] = IF k < i THEN t ELSE u}
<1>12. 0 \in P
  BY <1>1, <1>11
<1>13. ASSUME NEW k \in P PROVE k + 1 \in P
  <2>1. SUFFICES ASSUME k + 1 <= n PROVE h[k + 1] = IF k + 1 < i THEN t ELSE u
    BY <1>13
  <2>2. k \in Nat /\ k <= n /\ k + 1 \in 1..n /\ (k + 1) - 1 = k
    BY <1>13, <2>1
  <2>3. h[k + 1] = RemovingTurn(h[k], k + 1, c)
    BY <2>2, <1>11
  <2>4. h[k] = IF k < i THEN t ELSE u
    BY <2>2, <1>13
  <2>5. CASE k + 1 < i
    BY <2>2, <2>3, <2>4, <2>5, <1>1, <1>7
  <2>6. CASE k + 1 = i
    BY <2>2, <2>3, <2>4, <2>6, <1>1, <1>9
  <2>7. CASE k + 1 > i
    BY <2>2, <2>3, <2>4, <2>7, <1>1, <1>8
  <2>8. QED
    BY <2>2, <2>5, <2>6, <2>7, <1>1
<1> HIDE DEF P
<1>14. P = Nat
  BY <1>12, <1>13, UpTo DEF P
<1>15. h[n] = u
  BY <1>1, <1>2, <1>14 DEF P
<1>16. QED
  BY <1>0, <1>4, <1>11, <1>15

\* The current row, when it is a leaf, goes alone, and what is above it stays
\* open as long as it has other subclasses.
LEMMA RemovedLevels ==
  ASSUME NEW o \in Ontologies, Treelike(o), OneAbove(o), NEW t, Levels(o, t), NEW i \in DOMAIN t,
         t[i].picked, ~t[i].kids, t[i].cls \in o.live, t[i].cls \notin ImportedClass
  PROVE  Levels(Deleted(o, t[i].cls), RemovedClass(t, t[i].cls))
<1>1. /\ t \in Seq(TreeItem) /\ Len(t) \in Nat /\ DOMAIN t = 1..Len(t)
      /\ \A x \in 1..Len(t) : t[x].cls \in Class /\ t[x].depth \in Nat
      /\ Rooted(t) /\ Placed(o, t) /\ Once(t) /\ Twisties(o, t) /\ Seen(o, t)
  BY LevelsType DEF Levels
<1>2. \A j \in DOMAIN t : Filled(o, t, j)
  <2>1. NoClass \notin Class
    BY ClassAssumption
  <2>2. QED
    BY <2>1, <1>1 DEF Levels, LevelsBut
<1>3. PICK c \in Class : c = t[i].cls
  BY <1>1
<1>4. DirectSubClasses(o, c) = {} /\ c \in o.live /\ c \notin ImportedClass
  BY <1>1, <1>3 DEF Twisties
<1>5. PICK nn : nn = Deleted(o, c)
  OBVIOUS
<1>6. /\ nn \in Ontologies
      /\ \A q \in Class : DirectSubClasses(nn, q) = DirectSubClasses(o, q) \ {c}
  BY <1>4, <1>5, DeletedSubs, DeletedTame
<1>7. OneAbove(nn)
  <2>1. \A q \in Class : DirectSubClasses(nn, q) \subseteq DirectSubClasses(o, q)
    BY <1>6
  <2>2. QED
    BY <2>1 DEF OneAbove
<1>8. PICK p \in 1..(i - 1) : Under(t, p, i) /\ c \in DirectSubClasses(o, t[p].cls)
  <2>1. i # 1
    <3>1. Thing \in ImportedClass
      BY ClassAssumption
    <3>2. QED
      BY <3>1, <1>1, <1>3, <1>4 DEF Rooted
  <2>2. i \in 2..Len(t)
    BY <2>1, <1>1
  <2>3. QED
    BY <2>2, <1>1, <1>3 DEF Placed
<1>9. /\ i \in 1..Len(t) /\ i \in Nat /\ p \in Nat /\ 1 <= p /\ p < i /\ p \in DOMAIN t
      /\ t[p].cls \in Class /\ ItemAbove(t, i) = p
  <2>1. i \in 1..Len(t) /\ p \in 1..Len(t) /\ 1 <= p /\ p < i
    BY <1>1, <1>8
  <2>2. ItemAbove(t, i) = p
    BY <2>1, <1>1, <1>8, AboveIs
  <2>3. QED
    BY <2>1, <2>2, <1>1
<1>10. t[p].open /\ t[p].kids /\ \A d \in DirectSubClasses(o, t[p].cls) : InTree(t, d)
  <2>1. t[p].open
    BY <1>1, <1>3, <1>8, <1>9 DEF Seen
  <2>2. t[p].kids
    BY <1>1, <1>8, <1>9 DEF Twisties
  <2>3. QED
    BY <2>1, <2>2, <1>2, <1>9 DEF Filled
<1>11. PICK a \in Nat, n \in Nat : a = i - 1 /\ n = Len(t)
  <2>1. i - 1 \in Nat /\ Len(t) \in Nat
    BY <1>1, <1>9
  <2>2. QED
    BY <2>1
<1>12. PICK v, b : Rest(v, t, i, a, b, n)
  BY <1>1, <1>11, RestIs
<1>13. /\ v \in Seq(TreeItem) /\ b = LastUnder(t, i) /\ b \in Nat /\ i <= b /\ b <= n
       /\ Moved(v, t, a, <<>>, b, 0, n)
  BY <1>12 DEF Rest
<1>14. b = i
  <2>1. SUFFICES ASSUME b # i PROVE FALSE
    OBVIOUS
  <2>2. PICK x \in Nat : x = i + 1
    BY <1>9
  <2>3. x \in (i + 1)..LastUnder(t, i) /\ x \in 2..Len(t) /\ x \in DOMAIN t
    BY <2>1, <2>2, <1>1, <1>9, <1>11, <1>13
  <2>4. PICK j \in 1..(x - 1) : t[x].cls \in DirectSubClasses(o, t[j].cls)
    BY <2>3, <1>1 DEF Placed
  <2>5. j \in DOMAIN t /\ j <= i
    BY <2>2, <2>3, <2>4, <1>1, <1>9
  <2>6. j \in i..LastUnder(t, i)
    BY <2>3, <2>4, <2>5, <1>1, GoneIs
  <2>7. j = i
    BY <2>5, <2>6, <1>9
  <2>8. QED
    BY <2>4, <2>7, <1>3, <1>4
<1>15. PICK S : S = Stay(a, b, n)
  OBVIOUS
<1>16. \A x : x \in S <=> x \in DOMAIN t /\ x # i
  BY <1>1, <1>9, <1>11, <1>14, <1>15 DEF Stay
<1>17. /\ \A k \in DOMAIN v : \E x \in S : v[k] = t[x]
       /\ \A x \in S : \E k \in DOMAIN v : v[k] = t[x]
  <2>1. PICK m \in Nat : m = 0 /\ 1..m = {}
    OBVIOUS
  <2>2. Made(v, t, S, <<>>, m)
    BY <2>1, <1>13, <1>15, SplicedMade
  <2>3. QED
    BY <2>1, <2>2 DEF Made
<1>18. \A x \in S : t[x].cls # c
  BY <1>3, <1>1, <1>16 DEF Once
<1>19. Placed(nn, v) /\ Rooted(v)
  <2>1. PICK d \in Nat : d = t[i].depth
    BY <1>1, <1>9
  <2>2. PICK m \in Nat, w \in Seq(TreeItem) : m = 0 /\ w = <<>> /\ m = Len(w)
    BY NothingIs
  <2>3. Flat(t, a, w, b, d)
    <3>1. b < Len(t) => t[b + 1].depth <= d
      BY <2>1, <1>1, <1>13, LastUnderIs
    <3>2. \A x \in (a + 1)..b : x = i
      BY <1>9, <1>11, <1>14
    <3>3. DOMAIN w = {}
      BY <2>2
    <3>4. \A x \in (a + 1)..b : t[x].depth >= d
      BY <3>2, <2>1
    <3>5. QED
      BY <3>1, <3>3, <3>4 DEF Flat
  <2>4. StillRight(o, nn, t, Stay(a, b, n))
    BY <1>6, <1>15, <1>18 DEF StillRight
  <2>5. Moved(v, t, a, w, b, m, n)
    BY <2>2, <1>13
  <2>6. a <= b /\ b <= n /\ 1 <= a
    BY <1>9, <1>11, <1>13
  <2>7. m # 0 => Parent(nn, t, p, a, w, d)
    BY <2>2
  <2>8. /\ t \in Seq(TreeItem) /\ n = Len(t) /\ m = Len(w) /\ v \in Seq(TreeItem)
        /\ Placed(o, t) /\ Rooted(t)
    BY <2>2, <1>1, <1>11, <1>13
  <2>9. QED
    BY <2>3, <2>4, <2>5, <2>6, <2>7, <2>8, <1>13, SplicedPlaced
<1>20. Once(v)
  <2>1. PICK m \in Nat : m = 0
    OBVIOUS
  <2>2. Apartness(t, S, <<>>, m)
    BY <2>1 DEF Apartness
  <2>3. a <= b /\ b <= n
    BY <1>9, <1>11, <1>13
  <2>4. QED
    BY <2>1, <2>2, <2>3, <1>1, <1>11, <1>13, <1>15, SplicedOnce
<1>21. Twisties(nn, v)
  <2>1. SUFFICES ASSUME NEW k \in DOMAIN v, ~v[k].kids PROVE DirectSubClasses(nn, v[k].cls) = {}
    BY DEF Twisties
  <2>2. PICK x \in S : v[k] = t[x]
    BY <1>17
  <2>3. x \in DOMAIN t /\ t[x].cls \in Class
    BY <1>1, <1>16
  <2>4. DirectSubClasses(o, t[x].cls) = {}
    BY <2>1, <2>2, <2>3, <1>1 DEF Twisties
  <2>5. QED
    BY <2>2, <2>3, <2>4, <1>6
<1>22. Seen(nn, v)
  <2>1. SUFFICES ASSUME NEW j \in DOMAIN v, NEW k \in DOMAIN v, v[k].picked,
                        v[k].cls \in DirectSubClasses(nn, v[j].cls)
                 PROVE  v[j].open
    BY DEF Seen
  <2>2. PICK x \in S, y \in S : v[k] = t[x] /\ v[j] = t[y]
    BY <1>17
  <2>3. x \in DOMAIN t /\ y \in DOMAIN t /\ t[y].cls \in Class
    BY <1>1, <1>16
  <2>4. t[x].cls \in DirectSubClasses(o, t[y].cls)
    BY <2>1, <2>2, <2>3, <1>6
  <2>5. QED
    BY <2>1, <2>2, <2>3, <2>4, <1>1 DEF Seen
<1>23. ASSUME NEW j \in DOMAIN v PROVE Filled(nn, v, j)
  <2>1. SUFFICES ASSUME v[j].open, v[j].kids, NEW d \in DirectSubClasses(nn, v[j].cls)
                 PROVE  InTree(v, d)
    BY DEF Filled
  <2>2. PICK y \in S : v[j] = t[y]
    BY <1>17
  <2>3. y \in DOMAIN t /\ t[y].cls \in Class
    BY <1>1, <1>16
  <2>4. d \in DirectSubClasses(o, t[y].cls) /\ d # c
    BY <2>1, <2>2, <2>3, <1>6
  <2>5. PICK x \in DOMAIN t : t[x].cls = d
    BY <2>1, <2>2, <2>3, <2>4, <1>2 DEF Filled, InTree
  <2>6. x \in S
    BY <2>4, <2>5, <1>3, <1>16
  <2>7. QED
    BY <2>5, <2>6, <1>17 DEF InTree
<1>24. Levels(nn, v) /\ \A d : LevelsBut(nn, v, d)
  BY <1>13, <1>19, <1>20, <1>21, <1>22, <1>23 DEF Levels, LevelsBut
<1>25. p \in DOMAIN v /\ v[p] = t[p]
  <2>1. p \in 1..a
    BY <1>9, <1>11
  <2>2. QED
    BY <2>1, <1>13 DEF Moved
<1>26. ASSUME Children(v, p) = {} PROVE DirectSubClasses(nn, v[p].cls) = {}
  <2>1. SUFFICES ASSUME NEW d \in DirectSubClasses(nn, v[p].cls) PROVE FALSE
    OBVIOUS
  <2>2. InTree(v, d)
    <3>1. Filled(nn, v, p)
      BY <1>23, <1>25
    <3>2. QED
      BY <3>1, <2>1, <1>10, <1>25 DEF Filled
  <2>3. PICK k \in DOMAIN v : v[k].cls = d
    BY <2>2 DEF InTree
  <2>4. Under(v, p, k)
    BY <2>1, <2>3, <1>6, <1>7, <1>13, <1>19, <1>20, <1>25, ChildIs
  <2>5. k \in Children(v, p)
    BY <2>3, <2>4, <1>13, <1>25, UnderIs
  <2>6. QED
    BY <2>5, <1>26
<1>27. PICK u : u = [v EXCEPT ![p].kids = FALSE, ![p].open = FALSE]
  OBVIOUS
<1>28. CASE Children(v, p) = {}
  <2>1. DirectSubClasses(nn, v[p].cls) = {} /\ NoneBelow(nn, v, v[p].cls)
    BY <1>26, <1>28 DEF NoneBelow
  <2>2. Twin(u, v, p, FALSE, FALSE)
    BY <1>13, <1>25, <1>27, TwinIs
  <2>3. PICK no \in BOOLEAN : no = FALSE
    OBVIOUS
  <2>4. Levels(nn, u)
    BY <2>1, <2>2, <2>3, <1>6, <1>7, <1>24, <1>25, TwinLevels
  <2>5. CheckAndRemove(t, i) = u
    BY <1>9, <1>12, <1>27, <1>28 DEF Rest
  <2>6. QED
    BY <2>4, <2>5, <1>1, <1>3, <1>5, RemovedAt
<1>29. CASE Children(v, p) # {}
  <2>1. CheckAndRemove(t, i) = v
    BY <1>9, <1>12, <1>29 DEF Rest
  <2>2. QED
    BY <2>1, <1>1, <1>3, <1>5, <1>24, RemovedAt
<1>30. QED
  BY <1>28, <1>29

\* What one turn of createdSubClass makes: the item at i is a container, open
\* if it was a leaf, and a leaf for c comes below it.
Grows(v, w, t, i, c) ==
  /\ \E open \in BOOLEAN : open = (t[i].open \/ ~t[i].kids) /\ Twin(v, t, i, TRUE, open)
  /\ w \in Seq(TreeItem) /\ Len(w) = 1 /\ w[1].cls = c /\ w[1].depth = t[i].depth + 1
  /\ ~w[1].kids /\ ~w[1].open /\ ~w[1].picked
  /\ CreatingTurn(t, i, c, t[i].cls) = Appended(v, i, w)

LEMMA GrowsIs ==
  ASSUME NEW t \in Seq(TreeItem), NEW i \in DOMAIN t, NEW c \in Class
  PROVE  \E v, w : Grows(v, w, t, i, c)
<1>1. i \in 1..Len(t) /\ Len(t) \in Nat /\ t[i] \in TreeItem
  BY ItemsType
<1>2. PICK b \in BOOLEAN : b = (t[i].open \/ ~t[i].kids)
  OBVIOUS
<1>3. PICK v : v = [t EXCEPT ![i].kids = TRUE, ![i].open = @ \/ ~t[i].kids]
  OBVIOUS
<1>4. v = [t EXCEPT ![i].kids = TRUE, ![i].open = b]
  <2>1. [t EXCEPT ![i].kids = TRUE][i].open = t[i].open
    BY <1>1 DEF TreeItem
  <2>2. QED
    BY <1>2, <1>3, <2>1
<1>5. Twin(v, t, i, TRUE, b)
  BY <1>4, TwinIs
<1>6. PICK r : r = [cls |-> c, depth |-> t[i].depth + 1, kids |-> FALSE, open |-> FALSE,
                    count |-> 0, locked |-> FALSE, picked |-> FALSE]
  OBVIOUS
<1>7. r \in TreeItem /\ r.cls = c /\ r.depth = t[i].depth + 1 /\ ~r.kids /\ ~r.open /\ ~r.picked
  <2>1. t[i].depth + 1 \in Nat
    BY <1>1 DEF TreeItem
  <2>2. QED
    BY <1>6, <2>1 DEF TreeItem
<1>8. PICK w : w = <<r>>
  OBVIOUS
<1>9. w \in Seq(TreeItem) /\ Len(w) = 1 /\ w[1] = r
  BY <1>7, <1>8
<1>10. CreatingTurn(t, i, c, t[i].cls) = Appended(v, i, w)
  BY <1>1, <1>3, <1>6, <1>8 DEF CreatingTurn
<1>11. Grows(v, w, t, i, c)
  BY <1>2, <1>5, <1>7, <1>9, <1>10 DEF Grows
<1>12. QED
  BY <1>11

LEMMA CreatingLocks ==
  ASSUME NEW t \in Seq(TreeItem), Guarded(t), NEW i \in Nat \ {0}, NEW c \in Class, c \notin ImportedClass,
         NEW s
  PROVE  CreatingTurn(t, i, c, s) \in Seq(TreeItem) /\ Guarded(CreatingTurn(t, i, c, s))
<1>1. CASE ~(i <= Len(t) /\ t[i].cls = s)
  BY <1>1 DEF CreatingTurn
<1>2. CASE i <= Len(t) /\ t[i].cls = s
  <2>1. i \in DOMAIN t
    BY <1>2, ItemsType
  <2>2. PICK v, w : Grows(v, w, t, i, c)
    BY <2>1, GrowsIs
  <2>3. v \in Seq(TreeItem) /\ i \in DOMAIN v /\ Guarded(v)
    <3>1. PICK open \in BOOLEAN : Twin(v, t, i, TRUE, open)
      BY <2>2 DEF Grows
    <3>2. SameLocks(v, t)
      BY <3>1 DEF Twin, SameShape, SameLocks
    <3>3. QED
      BY <3>2, <2>1, LocksTell DEF SameLocks
  <2>4. w \in Seq(TreeItem) /\ Guarded(w)
    <3>1. w \in Seq(TreeItem) /\ Len(w) = 1 /\ w[1].cls = c
      BY <2>2 DEF Grows
    <3>2. DOMAIN w = {1}
      BY <3>1
    <3>3. QED
      BY <3>1, <3>2 DEF Guarded
  <2>5. PICK b, u : b \in Nat /\ b = LastUnder(v, i) /\ b <= Len(v) /\ u = Appended(v, i, w)
    <3>1. LastUnder(v, i) \in i..Len(v) /\ Len(v) \in Nat /\ i \in Nat
      BY <2>3, LastUnderIs, ItemsType
    <3>2. LastUnder(v, i) \in Nat /\ LastUnder(v, i) <= Len(v)
      BY <3>1
    <3>3. QED
      BY <3>2
  <2>6. Spliced(u, v, b, w, b)
    BY <2>3, <2>4, <2>5, SpliceIs DEF Appended
  <2>7. u \in Seq(TreeItem) /\ Guarded(u)
    <3>1. u \in Seq(TreeItem)
      BY <2>6 DEF Spliced
    <3>2. Guarded(u)
      BY <2>3, <2>4, <2>5, <2>6, SplicedLocks
    <3>3. QED
      BY <3>1, <3>2
  <2>8. CreatingTurn(t, i, c, s) = u
    BY <1>2, <2>2, <2>5 DEF Grows
  <2>9. QED
    BY <2>7, <2>8
<1>3. QED
  BY <1>1, <1>2

\* Where the class above shows once only, the new one comes below that item.
LEMMA CreatedAt ==
  ASSUME NEW t \in Seq(TreeItem), Once(t), NEW i \in DOMAIN t, NEW c \in Class,
         NEW u, u = CreatingTurn(t, i, c, t[i].cls), Once(u)
  PROVE  CreatedSubClass(t, c, t[i].cls) = u
<1>1. i \in 1..Len(t) /\ i \in Nat /\ Len(t) \in Nat /\ DOMAIN t = 1..Len(t)
  BY ItemsType
<1>2. PICK s : s = t[i].cls
  OBVIOUS
<1>3. u \in Seq(TreeItem) /\ DOMAIN u = 1..Len(u) /\ i \in DOMAIN u /\ u[i].cls = s
  <2>1. PICK v, w : Grows(v, w, t, i, c)
    BY GrowsIs
  <2>2. v \in Seq(TreeItem) /\ i \in DOMAIN v /\ v[i].cls = s
    BY <2>1, <1>2 DEF Grows, Twin, SameShape
  <2>3. w \in Seq(TreeItem) /\ u = Appended(v, i, w)
    BY <2>1 DEF Grows
  <2>0. PICK told \in BOOLEAN : told = FALSE
    OBVIOUS
  <2>4. Fair(told, GivenOnt, v) /\ Fresh(told, GivenOnt, w)
    BY <2>0, <2>2, <2>3 DEF Fair, Fresh
  <2>5. Fair(told, GivenOnt, u) /\ i \in DOMAIN u /\ u[i] = v[i]
    BY <2>2, <2>3, <2>4, AppendedFair
  <2>6. u \in Seq(TreeItem)
    BY <2>5 DEF Fair
  <2>7. QED
    BY <2>2, <2>5, <2>6, ItemsType
<1>4. PICK N \in Nat : N = Turns(t)
  BY TurnsType
<1>5. i <= N
  <2>1. PICK K \in Nat : K = Cardinality(Class)
    BY ClassAssumption, FS_CardinalityType
  <2>2. PICK n \in Nat : n = Len(t)
    BY <1>1
  <2>3. N = n * (K + 1) /\ i <= n
    BY <1>1, <1>4, <2>1, <2>2 DEF Turns
  <2>4. n * (K + 1) = n * K + n /\ n * K \in Nat
    OBVIOUS
  <2>5. QED
    BY <2>3, <2>4, <1>1
<1>6. \A k \in Nat \ {0} : k # i => CreatingTurn(t, k, c, s) = t /\ CreatingTurn(u, k, c, s) = u
  <2>1. SUFFICES ASSUME NEW k \in Nat \ {0}, k # i
                 PROVE  CreatingTurn(t, k, c, s) = t /\ CreatingTurn(u, k, c, s) = u
    OBVIOUS
  <2>2. ~(k <= Len(t) /\ t[k].cls = s)
    BY <2>1, <1>1, <1>2 DEF Once
  <2>3. ~(k <= Len(u) /\ u[k].cls = s)
    <3>1. Len(u) \in Nat
      BY <1>3, ItemsType
    <3>2. k <= Len(u) => k \in DOMAIN u
      BY <3>1, <1>3
    <3>3. QED
      BY <3>2, <2>1, <1>3 DEF Once
  <2>4. QED
    BY <2>2, <2>3 DEF CreatingTurn
<1>7. PICK h : CreatedBy(h, t, c, s, N)
  BY <1>4, CreatedTurns
<1>8. /\ h[0] = t /\ \A k \in 1..N : h[k] = CreatingTurn(h[k - 1], k, c, s)
      /\ CreatedSubClass(t, c, s) = h[N]
  BY <1>7 DEF CreatedBy
<1> DEFINE P == {k \in Nat : k <= N => h[k] = IF k < i THEN t ELSE u}
<1>9. 0 \in P
  BY <1>1, <1>8
<1>10. ASSUME NEW k \in P PROVE k + 1 \in P
  <2>1. SUFFICES ASSUME k + 1 <= N PROVE h[k + 1] = IF k + 1 < i THEN t ELSE u
    BY <1>10
  <2>2. k \in Nat /\ k <= N /\ k + 1 \in 1..N /\ (k + 1) - 1 = k /\ k + 1 \in Nat \ {0}
    BY <1>10, <2>1
  <2>3. h[k + 1] = CreatingTurn(h[k], k + 1, c, s)
    BY <2>2, <1>8
  <2>4. h[k] = IF k < i THEN t ELSE u
    BY <2>2, <1>10
  <2>5. CASE k + 1 < i
    BY <2>2, <2>3, <2>4, <2>5, <1>1, <1>6
  <2>6. CASE k + 1 = i
    BY <2>2, <2>3, <2>4, <2>6, <1>1, <1>2
  <2>7. CASE k + 1 > i
    BY <2>2, <2>3, <2>4, <2>7, <1>1, <1>6
  <2>8. QED
    BY <2>2, <2>5, <2>6, <2>7, <1>1
<1> HIDE DEF P
<1>11. P = Nat
  BY <1>9, <1>10, UpTo DEF P
<1>12. h[N] = u
  <2>1. N \in P
    BY <1>11
  <2>2. QED
    BY <2>1, <1>1, <1>5 DEF P
<1>13. QED
  BY <1>2, <1>8, <1>12

LEMMA LevelsLive ==
  ASSUME NEW o \in Ontologies, Treelike(o), NEW c, NEW t, LevelsBut(o, t, c)
  PROVE  \A k \in DOMAIN t : t[k].cls \in o.live
<1>1. DOMAIN t = 1..Len(t) /\ Len(t) \in Nat /\ Rooted(t) /\ Placed(o, t)
  BY LevelsType
<1>2. Thing \in o.live
  BY ClassAssumption DEF Treelike, GivenKept
<1>3. SUFFICES ASSUME NEW k \in DOMAIN t PROVE t[k].cls \in o.live
  OBVIOUS
<1>4. CASE k = 1
  BY <1>1, <1>2, <1>4 DEF Rooted
<1>5. CASE k # 1
  <2>1. k \in 2..Len(t)
    BY <1>1, <1>5
  <2>2. PICK p : t[k].cls \in DirectSubClasses(o, t[p].cls)
    BY <2>1, <1>1 DEF Placed
  <2>3. QED
    BY <2>2, SubClassesType
<1>6. QED
  BY <1>4, <1>5

\* The new class shows below the item of its superclass, which is open, or is
\* loaded when it is opened.
LEMMA CreatedLevels ==
  ASSUME NEW o \in Ontologies, Treelike(o), NEW t, Levels(o, t), NEW i \in DOMAIN t,
         NEW c \in Class, c \notin o.live,
         NEW nn, Extended(nn, o, c, t[i].cls)
  PROVE  Levels(nn, CreatedSubClass(t, c, t[i].cls))
<1>1. /\ t \in Seq(TreeItem) /\ Len(t) \in Nat /\ DOMAIN t = 1..Len(t)
      /\ \A x \in 1..Len(t) : t[x].cls \in Class /\ t[x].depth \in Nat
      /\ Rooted(t) /\ Placed(o, t) /\ Once(t) /\ Twisties(o, t) /\ Seen(o, t)
  BY LevelsType DEF Levels
<1>2. \A j \in DOMAIN t : Filled(o, t, j)
  <2>1. NoClass \notin Class
    BY ClassAssumption
  <2>2. QED
    BY <2>1, <1>1 DEF Levels, LevelsBut
<1>3. \A k \in DOMAIN t : t[k].cls \in o.live
  BY LevelsLive DEF Levels
<1>4. PICK s \in Class : s = t[i].cls
  BY <1>1
<1>5. /\ nn \in Ontologies /\ s # c /\ DirectSubClasses(nn, c) = {} /\ c \in DirectSubClasses(nn, s)
      /\ \A q \in Class : q # s => DirectSubClasses(nn, q) = DirectSubClasses(o, q)
      /\ \A q \in Class : DirectSubClasses(o, q) \subseteq DirectSubClasses(nn, q)
      /\ \A q \in Class : \A e \in DirectSubClasses(nn, q) : e \in DirectSubClasses(o, q) \/ e = c
  <2>1. s \in o.live /\ Extended(nn, o, c, s)
    BY <1>3, <1>4
  <2>2. /\ nn \in Ontologies /\ s # c
        /\ DirectSubClasses(nn, c) = {} /\ DirectSubClasses(nn, s) = DirectSubClasses(o, s) \cup {c}
        /\ \A q \in Class : q # s => DirectSubClasses(nn, q) = DirectSubClasses(o, q)
    BY <2>1, CreatedSubs
  <2>3. QED
    BY <2>2
<1>6. PICK v, w : Grows(v, w, t, i, c)
  BY <1>1, GrowsIs
<1>7. /\ w \in Seq(TreeItem) /\ Len(w) = 1 /\ DOMAIN w = {1} /\ w[1].cls = c
      /\ w[1].depth = t[i].depth + 1
      /\ ~w[1].kids /\ ~w[1].open /\ ~w[1].picked
      /\ CreatingTurn(t, i, c, t[i].cls) = Appended(v, i, w)
  <2>1. w \in Seq(TreeItem) /\ Len(w) = 1
    BY <1>6 DEF Grows
  <2>2. DOMAIN w = {1}
    BY <2>1
  <2>3. QED
    BY <2>1, <2>2, <1>6 DEF Grows
<1>8. PICK open \in BOOLEAN : open = (t[i].open \/ ~t[i].kids) /\ Twin(v, t, i, TRUE, open)
  BY <1>6 DEF Grows
<1>9. /\ v \in Seq(TreeItem) /\ DOMAIN v = DOMAIN t /\ SameShape(v, t)
      /\ \A k \in DOMAIN t : /\ v[k].picked = t[k].picked /\ v[k].cls = t[k].cls
                             /\ v[k].depth = t[k].depth
                             /\ k # i => v[k].kids = t[k].kids /\ v[k].open = t[k].open
                             /\ k = i => v[k].kids = TRUE /\ v[k].open = open
  BY <1>8 DEF Twin, SameShape
<1>10. Rooted(v) /\ Placed(o, v) /\ Once(v)
  BY <1>1, <1>9, ShapeTells
<1>11. PICK n \in Nat, m \in Nat, d \in Nat : n = Len(v) /\ m = 1 /\ d = v[i].depth + 1
  <2>1. Len(v) \in Nat /\ v[i].depth + 1 \in Nat
    BY <1>1, <1>9, ItemsType
  <2>2. QED
    BY <2>1
<1>12. DOMAIN v = 1..n /\ i \in 1..n /\ i \in DOMAIN v /\ m = Len(w) /\ v[i].cls = s
       /\ \A x \in DOMAIN w : w[x].depth = d /\ w[x].cls = c
  <2>1. DOMAIN v = 1..n
    BY <1>9, <1>11, ItemsType
  <2>2. QED
    BY <2>1, <1>4, <1>7, <1>9, <1>11
<1>13. PICK u : u = Appended(v, i, w)
  OBVIOUS
<1>14. PICK b \in Nat : /\ i <= b /\ b <= n /\ Moved(u, v, b, w, b, m, n)
                        /\ u \in Seq(TreeItem) /\ Flat(v, b, w, b, d)
                        /\ \A x \in (i + 1)..b : v[x].depth >= d
  <2>1. \A x \in DOMAIN w : w[x].depth = d
    BY <1>12
  <2>2. v \in Seq(TreeItem) /\ i \in DOMAIN v /\ w \in Seq(TreeItem) /\ m = Len(w)
    BY <1>7, <1>9, <1>12
  <2>3. PICK b \in Nat : Longer(u, v, i, w, b, m, n, d)
    BY <2>1, <2>2, <1>11, <1>13, AppendedMoves
  <2>4. QED
    BY <2>3 DEF Longer
<1>15. 1 <= b /\ i \in 1..b
  BY <1>12, <1>14
<1>16. Placed(nn, u) /\ Rooted(u)
  <2>1. Parent(nn, v, i, b, w, d)
    BY <1>4, <1>5, <1>11, <1>12, <1>14, <1>15 DEF Parent
  <2>2. StillRight(o, nn, v, Stay(b, b, n))
    BY <1>5 DEF StillRight
  <2>3. /\ v \in Seq(TreeItem) /\ w \in Seq(TreeItem) /\ m = Len(w) /\ n = Len(v)
        /\ Placed(o, v) /\ Rooted(v)
    BY <1>7, <1>9, <1>10, <1>11, <1>12
  <2>4. QED
    BY <2>1, <2>2, <2>3, <1>14, <1>15, SplicedPlaced
<1>17. Stay(b, b, n) = DOMAIN v
  BY <1>12, <1>14 DEF Stay
<1>18. /\ \A k \in DOMAIN u : (\E x \in DOMAIN v : u[k] = v[x]) \/ u[k] = w[1]
       /\ \A x \in DOMAIN v : \E k \in DOMAIN u : u[k] = v[x]
       /\ \E k \in DOMAIN u : u[k] = w[1]
  <2>1. Made(u, v, Stay(b, b, n), w, m)
    BY <1>14, SplicedMade
  <2>2. \A x : x \in 1..m <=> x = 1
    BY <1>11
  <2>3. QED
    BY <2>1, <2>2, <1>17 DEF Made
<1>19. \A x \in DOMAIN v : v[x].cls # c /\ v[x].cls \in Class
  BY <1>1, <1>3, <1>9
<1>20. Once(u)
  <2>1. Apartness(v, Stay(b, b, n), w, m)
    <3>1. \A x \in 1..m : x = 1
      BY <1>11
    <3>2. QED
      BY <3>1, <1>7, <1>17, <1>19 DEF Apartness
  <2>2. QED
    BY <2>1, <1>10, <1>12, <1>14, SplicedOnce
<1>21. Twisties(nn, u)
  <2>1. SUFFICES ASSUME NEW k \in DOMAIN u, ~u[k].kids PROVE DirectSubClasses(nn, u[k].cls) = {}
    BY DEF Twisties
  <2>2. CASE u[k] = w[1]
    BY <2>2, <1>5, <1>7
  <2>3. ASSUME NEW x \in DOMAIN v, u[k] = v[x] PROVE DirectSubClasses(nn, u[k].cls) = {}
    <3>1. x # i
      BY <2>1, <2>3, <1>9
    <3>2. x \in DOMAIN t /\ ~t[x].kids /\ u[k].cls = t[x].cls
      BY <2>1, <2>3, <3>1, <1>9
    <3>3. t[x].cls # s /\ t[x].cls \in Class
      BY <3>1, <3>2, <1>1, <1>4 DEF Once
    <3>4. QED
      BY <3>2, <3>3, <1>1, <1>5 DEF Twisties
  <2>4. QED
    BY <2>2, <2>3, <1>18
<1>22. Seen(nn, u)
  <2>1. SUFFICES ASSUME NEW j \in DOMAIN u, NEW k \in DOMAIN u, u[k].picked,
                        u[k].cls \in DirectSubClasses(nn, u[j].cls)
                 PROVE  u[j].open
    BY DEF Seen
  <2>2. PICK x \in DOMAIN v : u[k] = v[x]
    BY <2>1, <1>7, <1>18
  <2>3. u[j] # w[1]
    BY <2>1, <1>5, <1>7
  <2>4. PICK y \in DOMAIN v : u[j] = v[y]
    BY <2>3, <1>18
  <2>5. v[x].cls \in DirectSubClasses(o, v[y].cls)
    BY <2>1, <2>2, <2>4, <1>5, <1>19
  <2>6. t[x].picked /\ t[x].cls \in DirectSubClasses(o, t[y].cls)
    BY <2>1, <2>2, <2>4, <2>5, <1>9
  <2>7. t[y].open
    BY <2>2, <2>4, <2>6, <1>1, <1>9 DEF Seen
  <2>8. v[y].open
    BY <2>4, <2>7, <1>8, <1>9
  <2>9. QED
    BY <2>4, <2>8
<1>23. ASSUME NEW j \in DOMAIN u PROVE Filled(nn, u, j)
  <2>1. SUFFICES ASSUME u[j].open, u[j].kids, NEW e \in DirectSubClasses(nn, u[j].cls)
                 PROVE  InTree(u, e)
    BY DEF Filled
  <2>2. PICK y \in DOMAIN v : u[j] = v[y]
    BY <2>1, <1>7, <1>18
  <2>3. y \in DOMAIN t /\ u[j].cls = t[y].cls /\ t[y].cls \in Class
    BY <2>2, <1>1, <1>9
  <2>4. ASSUME e \in DirectSubClasses(o, t[y].cls) PROVE InTree(u, e)
    <3>1. t[y].kids
      BY <2>3, <2>4, <1>1 DEF Twisties
    <3>2. t[y].open
      <4>1. v[y].open
        BY <2>1, <2>2
      <4>2. CASE y = i
        BY <4>1, <4>2, <3>1, <1>8, <1>9
      <4>3. CASE y # i
        BY <4>1, <4>3, <2>3, <1>9
      <4>4. QED
        BY <4>2, <4>3
    <3>3. PICK x \in DOMAIN t : t[x].cls = e
      BY <2>3, <2>4, <3>1, <3>2, <1>2 DEF Filled, InTree
    <3>4. x \in DOMAIN v /\ v[x].cls = e
      BY <3>3, <1>9
    <3>5. QED
      BY <3>4, <1>18 DEF InTree
  <2>5. ASSUME e = c PROVE InTree(u, e)
    BY <2>5, <1>7, <1>18 DEF InTree
  <2>6. QED
    BY <2>1, <2>3, <2>4, <2>5, <1>5
<1>24. Levels(nn, u)
  BY <1>14, <1>16, <1>20, <1>21, <1>22, <1>23 DEF Levels, LevelsBut
<1>25. CreatedSubClass(t, c, t[i].cls) = u
  BY <1>1, <1>7, <1>13, <1>20, CreatedAt
<1>26. QED
  BY <1>24, <1>25

-----------------------------------------------------------------------------
(* What changes neither the items nor their places *)

\* u is t but, maybe, for the numbers.
Still(u, t) ==
  /\ SameShape(u, t)
  /\ \A k \in DOMAIN t : /\ u[k].kids = t[k].kids /\ u[k].open = t[k].open
                         /\ u[k].picked = t[k].picked /\ u[k].locked = t[k].locked

SameSubs(n, o) == \A c \in Class : DirectSubClasses(n, c) = DirectSubClasses(o, c)

\* What is right above the item at i is open.
OpenAbove(o, t, i) ==
  \A j \in DOMAIN t : t[i].cls \in DirectSubClasses(o, t[j].cls) => t[j].open

LEMMA StillLevels ==
  ASSUME NEW o, NEW n, SameSubs(n, o), NEW t, Levels(o, t), NEW u, Still(u, t)
  PROVE  Levels(n, u) /\ \A i \in DOMAIN t : OpenAbove(o, t, i) => OpenAbove(n, u, i)
<1>1. /\ t \in Seq(TreeItem) /\ DOMAIN t = 1..Len(t) /\ \A x \in 1..Len(t) : t[x].cls \in Class
      /\ Rooted(t) /\ Placed(o, t) /\ Once(t) /\ Twisties(o, t) /\ Seen(o, t)
  BY LevelsType DEF Levels
<1>2. \A j \in DOMAIN t : Filled(o, t, j)
  <2>1. NoClass \notin Class
    BY ClassAssumption
  <2>2. QED
    BY <2>1, <1>1 DEF Levels, LevelsBut
<1>3. /\ u \in Seq(TreeItem) /\ DOMAIN u = DOMAIN t /\ SameShape(u, t)
      /\ \A k \in DOMAIN t : /\ u[k].kids = t[k].kids /\ u[k].open = t[k].open
                             /\ u[k].picked = t[k].picked /\ u[k].cls = t[k].cls
  BY DEF Still, SameShape
<1>4. Rooted(u) /\ Placed(o, u) /\ Once(u) /\ \A c : InTree(u, c) <=> InTree(t, c)
  BY <1>1, <1>3, ShapeTells
<1>5. \A k \in DOMAIN t : DirectSubClasses(n, u[k].cls) = DirectSubClasses(o, t[k].cls)
  BY <1>1, <1>3 DEF SameSubs
<1>6. Placed(n, u)
  <2>1. DOMAIN u = 1..Len(u) /\ Len(u) \in Nat
    BY <1>3, ItemsType
  <2>2. SUFFICES ASSUME NEW k \in 2..Len(u)
                 PROVE  \E p \in 1..(k - 1) : Under(u, p, k) /\ u[k].cls \in DirectSubClasses(n, u[p].cls)
    BY DEF Placed
  <2>3. PICK p \in 1..(k - 1) : Under(u, p, k) /\ u[k].cls \in DirectSubClasses(o, u[p].cls)
    BY <1>4 DEF Placed
  <2>4. p \in DOMAIN u
    BY <2>1
  <2>5. u[k].cls \in DirectSubClasses(n, u[p].cls)
    BY <2>3, <2>4, <1>3, <1>5
  <2>6. QED
    BY <2>3, <2>5
<1>7. Twisties(n, u) /\ Seen(n, u)
  BY <1>1, <1>3, <1>5 DEF Twisties, Seen
<1>8. \A j \in DOMAIN u : Filled(n, u, j)
  BY <1>2, <1>3, <1>4, <1>5 DEF Filled
<1>9. Levels(n, u)
  BY <1>3, <1>4, <1>6, <1>7, <1>8 DEF Levels, LevelsBut
<1>10. \A i \in DOMAIN t : OpenAbove(o, t, i) => OpenAbove(n, u, i)
  BY <1>3, <1>5 DEF OpenAbove
<1>11. QED
  BY <1>9, <1>10

LEMMA StillLocks ==
  ASSUME NEW t, Guarded(t), NEW u, Still(u, t)
  PROVE  u \in Seq(TreeItem) /\ Guarded(u)
<1>1. SameLocks(u, t)
  BY DEF Still, SameShape, SameLocks
<1>2. QED
  BY <1>1, LocksTell DEF SameLocks

\* u is t, where an item with another number has that of f.
Recounted(u, t, f) ==
  /\ DOMAIN u = DOMAIN t /\ u = [k \in DOMAIN t |-> u[k]]
  /\ \A k \in DOMAIN t : /\ f[k] \in Int
                         /\ u[k] = t[k] \/ u[k] = [t[k] EXCEPT !.count = f[k]]

LEMMA RecountedStill ==
  ASSUME NEW t \in Seq(TreeItem), NEW u, NEW f, Recounted(u, t, f)
  PROVE  Still(u, t)
<1>1. DOMAIN t = 1..Len(t) /\ Len(t) \in Nat /\ \A k \in 1..Len(t) : t[k] \in TreeItem
  BY ItemsType
<1>2. ASSUME NEW r \in TreeItem, NEW b \in Int
      PROVE  /\ [r EXCEPT !.count = b] \in TreeItem
             /\ [r EXCEPT !.count = b].cls = r.cls /\ [r EXCEPT !.count = b].depth = r.depth
             /\ [r EXCEPT !.count = b].kids = r.kids /\ [r EXCEPT !.count = b].open = r.open
             /\ [r EXCEPT !.count = b].picked = r.picked /\ [r EXCEPT !.count = b].locked = r.locked
  BY DEF TreeItem
<1>3. ASSUME NEW k \in DOMAIN t
      PROVE  /\ u[k] \in TreeItem /\ u[k].cls = t[k].cls /\ u[k].depth = t[k].depth
             /\ u[k].kids = t[k].kids /\ u[k].open = t[k].open
             /\ u[k].picked = t[k].picked /\ u[k].locked = t[k].locked
  <2>1. t[k] \in TreeItem /\ \E b \in Int : b = f[k]
    BY <1>1 DEF Recounted
  <2>5. u[k] = t[k] \/ u[k] = [t[k] EXCEPT !.count = f[k]]
    BY DEF Recounted
  <2>2. PICK b \in Int : b = f[k]
    BY <2>1
  <2>3. CASE u[k] = t[k]
    BY <2>1, <2>3
  <2>4. CASE u[k] = [t[k] EXCEPT !.count = f[k]]
    <3>1. PICK r \in TreeItem : r = t[k]
      BY <2>1
    <3>2. u[k] = [r EXCEPT !.count = b]
      BY <2>2, <2>4, <3>1
    <3>3. /\ u[k] \in TreeItem /\ u[k].cls = r.cls /\ u[k].depth = r.depth
          /\ u[k].kids = r.kids /\ u[k].open = r.open
          /\ u[k].picked = r.picked /\ u[k].locked = r.locked
      BY <3>2, <1>2
    <3>4. QED
      BY <3>1, <3>3
  <2>6. QED
    BY <2>3, <2>4, <2>5
<1>4. u \in Seq(TreeItem)
  <2>1. u \in [1..Len(t) -> TreeItem]
    BY <1>1, <1>3 DEF Recounted
  <2>2. QED
    BY <2>1, <1>1
<1>5. QED
  BY <1>3, <1>4 DEF Still, SameShape, Recounted

LEMMA ShownStill ==
  ASSUME NEW o, NEW t \in Seq(TreeItem), NEW c
  PROVE  Still(InstancesShown(o, t, c), t)
<1>1. PICK u : u = InstancesShown(o, t, c)
  OBVIOUS
<1>2. PICK f : f = [k \in DOMAIN t |-> NumInst(o, c)]
  OBVIOUS
<1>3. \A k \in DOMAIN t : f[k] = NumInst(o, c) /\ f[k] \in Int
  BY <1>2, NumbersType
<1>4. DOMAIN u = DOMAIN t /\ \A k \in DOMAIN t : u[k] = t[k] \/ u[k] = [t[k] EXCEPT !.count = f[k]]
  BY <1>1, <1>3 DEF InstancesShown
<1>5. u = [k \in DOMAIN t |-> u[k]]
  BY <1>1 DEF InstancesShown
<1>6. Recounted(u, t, f)
  BY <1>3, <1>4, <1>5 DEF Recounted
<1>7. Still(u, t)
  BY <1>6, RecountedStill
<1>8. QED
  BY <1>1, <1>7

LEMMA LoadedStill ==
  ASSUME NEW o, NEW t \in Seq(TreeItem), LoadInstanceList(o, t)
  PROVE  Still(tree', t)
<1>1. Still(t, t)
  BY DEF Still, SameShape
<1>2. QED
  BY <1>1, ShownStill DEF LoadInstanceList

\* The row that is made the current one is seen.
LEMMA VisibleIs ==
  ASSUME NEW o \in Ontologies, OneAbove(o), NEW t, Levels(o, t), NEW i \in DOMAIN t, Visible(t, i)
  PROVE  OpenAbove(o, t, i)
<1>1. /\ t \in Seq(TreeItem) /\ DOMAIN t = 1..Len(t) /\ Len(t) \in Nat
      /\ Rooted(t) /\ Placed(o, t) /\ Once(t)
  BY LevelsType DEF Levels
<1>2. SUFFICES ASSUME NEW j \in DOMAIN t, t[i].cls \in DirectSubClasses(o, t[j].cls)
               PROVE  t[j].open
  BY DEF OpenAbove
<1>3. i \in (j + 1)..LastUnder(t, j)
  BY <1>1, <1>2, BelowIs
<1>4. LastUnder(t, j) \in Nat /\ i \in Nat /\ j \in Nat /\ 1 <= j
  <2>1. LastUnder(t, j) \in j..Len(t)
    BY <1>1, LastUnderIs
  <2>2. QED
    BY <2>1, <1>1
<1>5. j \in 1..(i - 1) /\ LastUnder(t, j) >= i
  BY <1>3, <1>4
<1>6. QED
  BY <1>5 DEF Visible

LEMMA PickIs ==
  ASSUME NEW t \in Seq(TreeItem), NEW i \in DOMAIN t
  PROVE  /\ SameShape(Pick(t, i), t) /\ SameLocks(Pick(t, i), t)
         /\ \A k \in DOMAIN t : /\ Pick(t, i)[k].kids = t[k].kids /\ Pick(t, i)[k].open = t[k].open
                                /\ Pick(t, i)[k].picked = (k = i)
<1>1. DOMAIN t = 1..Len(t) /\ Len(t) \in Nat /\ \A k \in 1..Len(t) : t[k] \in TreeItem
  BY ItemsType
<1>2. PICK u : u = Pick(t, i)
  OBVIOUS
<1>3. DOMAIN u = DOMAIN t /\ \A k \in DOMAIN t : u[k] = [t[k] EXCEPT !.picked = (k = i)]
  BY <1>2 DEF Pick
<1>4. ASSUME NEW r \in TreeItem, NEW b \in BOOLEAN
      PROVE  /\ [r EXCEPT !.picked = b] \in TreeItem
             /\ [r EXCEPT !.picked = b].cls = r.cls /\ [r EXCEPT !.picked = b].depth = r.depth
             /\ [r EXCEPT !.picked = b].kids = r.kids /\ [r EXCEPT !.picked = b].open = r.open
             /\ [r EXCEPT !.picked = b].picked = b /\ [r EXCEPT !.picked = b].locked = r.locked
  BY DEF TreeItem
<1>5. ASSUME NEW k \in DOMAIN t
      PROVE  /\ u[k] \in TreeItem /\ u[k].cls = t[k].cls /\ u[k].depth = t[k].depth
             /\ u[k].kids = t[k].kids /\ u[k].open = t[k].open
             /\ u[k].picked = (k = i) /\ u[k].locked = t[k].locked
  <2>1. PICK b \in BOOLEAN : b = (k = i)
    OBVIOUS
  <2>2. PICK r \in TreeItem : r = t[k]
    BY <1>1
  <2>3. PICK q : q = u[k]
    OBVIOUS
  <2>4. q = [r EXCEPT !.picked = b]
    BY <2>1, <2>2, <2>3, <1>3
  <2>5. /\ q \in TreeItem /\ q.cls = r.cls /\ q.depth = r.depth /\ q.kids = r.kids /\ q.open = r.open
        /\ q.picked = b /\ q.locked = r.locked
    BY <2>4, <1>4
  <2>6. QED
    BY <2>1, <2>2, <2>3, <2>5
<1>6. u \in Seq(TreeItem)
  <2>1. u \in [1..Len(t) -> TreeItem]
    BY <1>1, <1>2, <1>5 DEF Pick
  <2>2. QED
    BY <2>1, <1>1
<1>7. SameShape(u, t) /\ SameLocks(u, t)
  BY <1>3, <1>5, <1>6 DEF SameShape, SameLocks
<1>8. QED
  BY <1>2, <1>5, <1>7

LEMMA PickLevels ==
  ASSUME NEW o, NEW t, Levels(o, t), NEW i \in DOMAIN t, OpenAbove(o, t, i)
  PROVE  Levels(o, Pick(t, i))
<1>1. /\ t \in Seq(TreeItem) /\ DOMAIN t = 1..Len(t) /\ \A x \in 1..Len(t) : t[x].cls \in Class
      /\ Rooted(t) /\ Placed(o, t) /\ Once(t) /\ Twisties(o, t)
  BY LevelsType DEF Levels
<1>2. \A j \in DOMAIN t : Filled(o, t, j)
  <2>1. NoClass \notin Class
    BY ClassAssumption
  <2>2. QED
    BY <2>1, <1>1 DEF Levels, LevelsBut
<1>3. PICK u : u = Pick(t, i)
  OBVIOUS
<1>4. SameShape(u, t) /\ \A k \in DOMAIN t : /\ u[k].kids = t[k].kids /\ u[k].open = t[k].open
                                             /\ u[k].picked = (k = i)
  BY <1>1, <1>3, PickIs
<1>5. u \in Seq(TreeItem) /\ DOMAIN u = DOMAIN t /\ \A k \in DOMAIN t : u[k].cls = t[k].cls
  BY <1>4 DEF SameShape
<1>6. Rooted(u) /\ Placed(o, u) /\ Once(u) /\ \A c : InTree(u, c) <=> InTree(t, c)
  BY <1>1, <1>4, ShapeTells
<1>7. Twisties(o, u)
  BY <1>1, <1>4, <1>5 DEF Twisties
<1>8. Seen(o, u)
  <2>1. SUFFICES ASSUME NEW j \in DOMAIN u, NEW k \in DOMAIN u, u[k].picked,
                        u[k].cls \in DirectSubClasses(o, u[j].cls)
                 PROVE  u[j].open
    BY DEF Seen
  <2>2. k = i /\ t[i].cls \in DirectSubClasses(o, t[j].cls) /\ j \in DOMAIN t
    BY <2>1, <1>4, <1>5
  <2>3. t[j].open
    BY <2>2 DEF OpenAbove
  <2>4. QED
    BY <2>2, <2>3, <1>4
<1>9. \A j \in DOMAIN u : Filled(o, u, j)
  BY <1>2, <1>4, <1>5, <1>6 DEF Filled
<1>10. Levels(o, u)
  BY <1>5, <1>6, <1>7, <1>8, <1>9 DEF Levels, LevelsBut
<1>11. QED
  BY <1>3, <1>10

-----------------------------------------------------------------------------
(* What is forbidden to delete, through the loops and the loads *)

LEMMA EmptiedLocks ==
  ASSUME NEW t \in Seq(TreeItem), Guarded(t), NEW i \in DOMAIN t
  PROVE  Emptied(t, i) \in Seq(TreeItem) /\ Guarded(Emptied(t, i)) /\ i \in DOMAIN Emptied(t, i)
<1>1. LastUnder(t, i) \in i..Len(t) /\ Len(t) \in Nat /\ i \in 1..Len(t)
  BY LastUnderIs, ItemsType
<1>2. PICK b \in Nat : b = LastUnder(t, i) /\ i <= b /\ b <= Len(t)
  BY <1>1
<1>3. PICK u : u = Emptied(t, i)
  OBVIOUS
<1>4. i \in Nat
  BY <1>1
<1>5. Spliced(u, t, i, <<>>, b)
  BY <1>2, <1>3, <1>4, CutIs DEF Emptied
<1>6. PICK w \in Seq(TreeItem) : w = <<>>
  BY NothingIs
<1>7. Guarded(w)
  BY <1>6 DEF Guarded
<1>8. Guarded(u)
  BY <1>2, <1>4, <1>5, <1>6, <1>7, SplicedLocks
<1>9. u \in Seq(TreeItem)
  BY <1>5 DEF Spliced
<1>10. i \in DOMAIN u
  <2>1. Fair(FALSE, GivenOnt, t)
    BY DEF Fair
  <2>2. QED
    BY <2>1, <1>3, EmptiedFair
<1>11. QED
  BY <1>3, <1>8, <1>9, <1>10

LEMMA FilledLocks ==
  ASSUME NEW o \in Ontologies, NEW t \in Seq(TreeItem), Guarded(t), NEW i \in DOMAIN t
  PROVE  SubClassesTree(o, t, i) \in Seq(TreeItem) /\ Guarded(SubClassesTree(o, t, i))
<1>1. LastUnder(t, i) \in i..Len(t) /\ Len(t) \in Nat /\ i \in 1..Len(t)
  BY LastUnderIs, ItemsType
<1>2. PICK b \in Nat : b = LastUnder(t, i) /\ i <= b /\ b <= Len(t)
  BY <1>1
<1>3. PICK d \in Nat : d = t[i].depth + 1
  <2>1. t[i].depth + 1 \in Nat
    BY ItemsType
  <2>2. QED
    BY <2>1
<1>4. PICK C, w : C = t[i].cls /\ w = SetToSeq({NewItem(o, e, d) : e \in DirectSubClasses(o, C)})
  OBVIOUS
<1>5. LevelOf(o, w, C, d)
  BY <1>4, LevelIs
<1>6. w \in Seq(TreeItem) /\ Guarded(w)
  <2>1. \A e : NewItem(o, e, d).cls = e /\ (NewItem(o, e, d).locked = (e \in ImportedClass))
    BY DEF NewItem
  <2>2. w \in Seq(TreeItem) /\ \A x \in DOMAIN w : \E e : w[x] = NewItem(o, e, d)
    BY <1>5 DEF LevelOf
  <2>3. ASSUME NEW x \in DOMAIN w, w[x].cls \in ImportedClass PROVE w[x].locked
    <3>1. PICK e : w[x] = NewItem(o, e, d)
      BY <2>2
    <3>2. w[x].cls = e /\ (w[x].locked = (e \in ImportedClass))
      BY <2>1, <3>1
    <3>3. QED
      BY <3>2, <2>3
  <2>4. QED
    BY <2>2, <2>3 DEF Guarded
<1>7. PICK u : u = Appended(t, i, w)
  OBVIOUS
<1>8. Spliced(u, t, b, w, b)
  BY <1>2, <1>6, <1>7, SpliceIs DEF Appended
<1>9. Guarded(u)
  BY <1>2, <1>6, <1>8, SplicedLocks
<1>10. u \in Seq(TreeItem)
  BY <1>8 DEF Spliced
<1>11. SubClassesTree(o, t, i) = u
  BY <1>3, <1>4, <1>7 DEF SubClassesTree, SubClassItems
<1>12. QED
  BY <1>9, <1>10, <1>11

LEMMA RemovedLocks ==
  ASSUME NEW t \in Seq(TreeItem), Guarded(t), NEW c
  PROVE  RemovedClass(t, c) \in Seq(TreeItem) /\ Guarded(RemovedClass(t, c))
<1>1. PICK N \in Nat : N = Len(t)
  BY ItemsType
<1>2. PICK S : S = {s \in Seq(TreeItem) : Guarded(s)}
  OBVIOUS
<1>3. PICK h : RemovedBy(h, t, c, N)
  BY <1>1, RemovedTurns
<1>4. ASSUME NEW s \in S, NEW n \in 1..N PROVE RemovingTurn(s, n, c) \in S
  <2>1. s \in Seq(TreeItem) /\ Guarded(s) /\ DOMAIN s = 1..Len(s) /\ Len(s) \in Nat
    BY <1>2, ItemsType
  <2>2. n <= Len(s) => n \in DOMAIN s
    BY <2>1
  <2>3. n <= Len(s) => CheckAndRemove(s, n) \in Seq(TreeItem) /\ Guarded(CheckAndRemove(s, n))
    BY <2>1, <2>2, CheckedLocks
  <2>4. QED
    BY <2>1, <2>3, <1>2 DEF RemovingTurn
<1>5. h[N] \in S
  <2>1. h[0] \in S
    BY <1>2, <1>3 DEF RemovedBy
  <2>2. \A n \in 1..N : h[n - 1] \in S => h[n] \in S
    BY <1>3, <1>4 DEF RemovedBy
  <2>3. QED
    BY <2>1, <2>2, TurnsStay
<1>6. QED
  BY <1>2, <1>3, <1>5 DEF RemovedBy

LEMMA CreatedLocks ==
  ASSUME NEW t \in Seq(TreeItem), Guarded(t), NEW c \in Class, c \notin ImportedClass, NEW d
  PROVE  CreatedSubClass(t, c, d) \in Seq(TreeItem) /\ Guarded(CreatedSubClass(t, c, d))
<1>1. PICK N \in Nat : N = Turns(t)
  BY TurnsType
<1>2. PICK S : S = {s \in Seq(TreeItem) : Guarded(s)}
  OBVIOUS
<1>3. PICK h : CreatedBy(h, t, c, d, N)
  BY <1>1, CreatedTurns
<1>4. ASSUME NEW s \in S, NEW n \in 1..N PROVE CreatingTurn(s, n, c, d) \in S
  <2>1. s \in Seq(TreeItem) /\ Guarded(s) /\ n \in Nat \ {0}
    BY <1>2
  <2>2. CreatingTurn(s, n, c, d) \in Seq(TreeItem) /\ Guarded(CreatingTurn(s, n, c, d))
    BY <2>1, CreatingLocks
  <2>3. QED
    BY <2>2, <1>2
<1>5. h[N] \in S
  <2>1. h[0] \in S
    BY <1>2, <1>3 DEF CreatedBy
  <2>2. \A n \in 1..N : h[n - 1] \in S => h[n] \in S
    BY <1>3, <1>4 DEF CreatedBy
  <2>3. QED
    BY <2>1, <2>2, TurnsStay
<1>6. QED
  BY <1>2, <1>3, <1>5 DEF CreatedBy

-----------------------------------------------------------------------------
(* The tree and the ontology together *)

\* The given classes are kept and forbidden to delete; where none of them has
\* two places, the tree is one of levels.
Orderly(o, t) ==
  /\ t \in Seq(TreeItem) /\ Guarded(t) /\ GivenKept(o)
  /\ OneGiven => Treelike(o) /\ Levels(o, t)

LEMMA NothingOrderly ==
  ASSUME NEW o, GivenKept(o), OneGiven => Treelike(o), NEW t, t = <<>>
  PROVE  Orderly(o, t)
<1>1. t \in Seq(TreeItem) /\ DOMAIN t = {} /\ Len(t) = 0
  OBVIOUS
<1>2. Levels(o, t)
  BY <1>1 DEF Levels, LevelsBut, Rooted, Placed, Once, Twisties, Seen
<1>3. QED
  BY <1>1, <1>2 DEF Orderly, Guarded

LEMMA StillOrderly ==
  ASSUME NEW o \in Ontologies, NEW t, Orderly(o, t), NEW n \in Ontologies,
         n.live = o.live, n.supers = o.supers, NEW u, Still(u, t)
  PROVE  Orderly(n, u)
<1>1. SameSubs(n, o) /\ (Treelike(o) => Treelike(n)) /\ GivenKept(n)
  BY TypedSubs DEF SameSubs, Orderly
<1>2. u \in Seq(TreeItem) /\ Guarded(u)
  BY StillLocks DEF Orderly
<1>3. OneGiven => Levels(n, u)
  BY <1>1, StillLevels DEF Orderly
<1>4. QED
  BY <1>1, <1>2, <1>3 DEF Orderly

\* A look at the current row, with other types of the individuals.
LEMMA LoadedOrderly ==
  ASSUME NEW o \in Ontologies, NEW t, Orderly(o, t), NEW n \in Ontologies,
         n.live = o.live, n.supers = o.supers, LoadInstanceList(n, t)
  PROVE  Orderly(n, tree')
<1>1. Still(tree', t)
  BY LoadedStill DEF Orderly
<1>2. PICK u : u = tree'
  OBVIOUS
<1>3. Orderly(n, u)
  BY <1>1, <1>2, StillOrderly
<1>4. QED
  BY <1>2, <1>3

LEMMA PickOrderly ==
  ASSUME NEW o, NEW t, Orderly(o, t), NEW i \in DOMAIN t, OneGiven => OpenAbove(o, t, i)
  PROVE  Orderly(o, Pick(t, i))
<1>1. t \in Seq(TreeItem) /\ Guarded(t)
  BY DEF Orderly
<1>2. SameLocks(Pick(t, i), t)
  BY <1>1, PickIs
<1>3. Pick(t, i) \in Seq(TreeItem) /\ Guarded(Pick(t, i))
  BY <1>1, <1>2, LocksTell DEF SameLocks
<1>4. OneGiven => Levels(o, Pick(t, i))
  BY PickLevels DEF Orderly
<1>5. QED
  BY <1>3, <1>4 DEF Orderly

LEMMA OrderlyVisible ==
  ASSUME NEW o \in Ontologies, NEW t, Orderly(o, t), NEW i \in DOMAIN t, Visible(t, i)
  PROVE  OneGiven => OneAbove(o) /\ OpenAbove(o, t, i)
<1>1. SUFFICES ASSUME OneGiven PROVE OneAbove(o) /\ OpenAbove(o, t, i)
  OBVIOUS
<1>2. Treelike(o) /\ Levels(o, t)
  BY <1>1 DEF Orderly
<1>3. OneAbove(o)
  BY <1>1, <1>2, OneAboveIs
<1>4. QED
  BY <1>2, <1>3, VisibleIs

LEMMA SingleIs ==
  ASSUME NEW r \in TreeItem, NEW w, w = <<r>>
  PROVE  w \in Seq(TreeItem) /\ DOMAIN w = {1} /\ Len(w) = 1 /\ w[1] = r /\ 1 \in DOMAIN w
  OBVIOUS

LEMMA FilledAt ==
  ASSUME NEW o \in Ontologies, NEW t \in Seq(TreeItem), NEW i \in DOMAIN t, NEW u, u = SubClassesTree(o, t, i)
  PROVE  i \in DOMAIN u /\ u[i] = t[i]
<1>1. PICK b \in Nat : b = LastUnder(t, i) /\ i <= b /\ b <= Len(t)
  <2>1. LastUnder(t, i) \in i..Len(t) /\ Len(t) \in Nat /\ i \in 1..Len(t)
    BY LastUnderIs, ItemsType
  <2>2. LastUnder(t, i) \in Nat /\ i <= LastUnder(t, i) /\ LastUnder(t, i) <= Len(t)
    BY <2>1
  <2>3. QED
    BY <2>2
<1>2. PICK d \in Nat : d = t[i].depth + 1
  <2>1. t[i].depth + 1 \in Nat
    BY ItemsType
  <2>2. QED
    BY <2>1
<1>3. PICK C, w : C = t[i].cls /\ w = SetToSeq({NewItem(o, e, d) : e \in DirectSubClasses(o, C)})
  OBVIOUS
<1>4. w \in Seq(TreeItem)
  <2>1. LevelOf(o, w, C, d)
    BY <1>3, LevelIs
  <2>2. QED
    BY <2>1 DEF LevelOf
<1>5. u = Appended(t, i, w)
  BY <1>2, <1>3 DEF SubClassesTree, SubClassItems
<1>6. Spliced(u, t, b, w, b)
  BY <1>1, <1>4, <1>5, SpliceIs DEF Appended
<1>7. QED
  <2>1. Len(u) = b + Len(w) + (Len(t) - b) /\ u \in Seq(TreeItem) /\ Len(w) \in Nat /\ i \in 1..Len(t) /\ Len(t) \in Nat
    BY <1>4, <1>6, ItemsType DEF Spliced
  <2>2. i \in 1..Len(u) /\ DOMAIN u = 1..Len(u)
    BY <2>1, <1>1
  <2>3. \/ i <= b /\ u[i] = t[i]
        \/ i > b
        \/ i > b + Len(w)
    BY <2>2, <1>6 DEF Spliced
  <2>4. QED
    BY <2>1, <2>2, <2>3, <1>1

\* The first tree: owl:Thing, opened.
LEMMA RootOrderly ==
  ASSUME NEW o \in Ontologies, GivenKept(o), OneGiven => Treelike(o),
         NEW root, root = <<[NewItem(o, Thing, 0) EXCEPT !.picked = TRUE]>>,
         NEW t, t = SubClassesTree(o, root, 1)
  PROVE  Orderly(o, [t EXCEPT ![1].open = t[1].kids])
<1>1. Thing \in ImportedClass /\ Thing \in Class /\ NoClass \notin Class
  BY ClassAssumption
<1>2. PICK z \in Nat : z = 0
  OBVIOUS
<1>3. PICK q : q = NewItem(o, Thing, z)
  OBVIOUS
<1>4. /\ q \in TreeItem /\ q.cls = Thing /\ q.depth = 0 /\ q.locked = TRUE /\ ~q.open
      /\ q.kids = (DirectSubClasses(o, Thing) # {})
  <2>1. q \in TreeItem
    BY <1>1, <1>3, NewItemIs
  <2>2. QED
    BY <2>1, <1>1, <1>2, <1>3 DEF NewItem
<1>5. PICK r : r = [q EXCEPT !.picked = TRUE]
  OBVIOUS
<1>6. /\ r \in TreeItem /\ r.cls = Thing /\ r.depth = 0 /\ r.locked = TRUE /\ ~r.open
      /\ r.kids = (DirectSubClasses(o, Thing) # {}) /\ r.picked
  <2>1. r \in TreeItem /\ r.cls = q.cls /\ r.depth = q.depth /\ r.locked = q.locked
    BY <1>4, <1>5 DEF TreeItem
  <2>2. r.open = q.open /\ r.kids = q.kids /\ r.picked
    BY <1>4, <1>5 DEF TreeItem
  <2>3. QED
    BY <2>1, <2>2, <1>4
<1>7. root = <<r>>
  BY <1>2, <1>3, <1>5
<1>8. root \in Seq(TreeItem) /\ DOMAIN root = {1} /\ Len(root) = 1 /\ root[1] = r /\ 1 \in DOMAIN root
  BY <1>6, <1>7, SingleIs
<1>9. Guarded(root)
  BY <1>6, <1>8 DEF Guarded
<1>10. t \in Seq(TreeItem) /\ Guarded(t)
  BY <1>8, <1>9, FilledLocks
<1>11. t[1].kids \in BOOLEAN /\ 1 \in DOMAIN t /\ t[1] = r
  <2>2. 1 \in DOMAIN t /\ t[1] = root[1]
    <3>1. ASSUME NEW tt \in Seq(TreeItem), NEW j \in DOMAIN tt, NEW uu, uu = SubClassesTree(o, tt, j)
          PROVE  j \in DOMAIN uu /\ uu[j] = tt[j]
      BY <3>1, FilledAt
    <3>2. QED
      BY <3>1, <1>8
  <2>3. QED
    BY <2>2, <1>6, <1>8 DEF TreeItem
<1>12. PICK k \in BOOLEAN : k = t[1].kids
  BY <1>11
<1>13. PICK u : u = [t EXCEPT ![1].open = k]
  OBVIOUS
<1>14. Guarded(u) /\ u \in Seq(TreeItem)
  <2>1. SameLocks(u, t)
    BY <1>10, <1>13, MarkedLocks
  <2>2. QED
    BY <2>1, <1>10, LocksTell DEF SameLocks
<1>15. ASSUME OneGiven PROVE Levels(o, u)
  <2>1. Treelike(o) /\ OneAbove(o)
    BY <1>15, OneAboveIs
  <2>2. Thing \notin DirectSubClasses(o, Thing)
    BY SubClassesType
  <2>3. LevelsBut(o, root, root[1].cls)
    <3>1. \A k1, k2 \in DOMAIN root : k1 = 1 /\ k2 = 1
      BY <1>8
    <3>2. Rooted(root) /\ Once(root)
      BY <3>1, <1>6, <1>8 DEF Rooted, Once
    <3>3. Placed(o, root)
      BY <1>8 DEF Placed
    <3>4. \A k1 \in DOMAIN root : root[k1] = r
      BY <3>1, <1>8
    <3>5. Twisties(o, root)
      BY <3>4, <1>6 DEF Twisties
    <3>6. Seen(o, root)
      BY <3>4, <2>2, <1>6 DEF Seen
    <3>7. \A k1 \in DOMAIN root : root[k1].cls = root[1].cls
      BY <3>1
    <3>8. QED
      BY <3>2, <3>3, <3>5, <3>6, <3>7, <1>8 DEF LevelsBut
  <2>4. NoneBelow(o, root, root[1].cls)
    <3>1. \A d : InTree(root, d) => d = Thing
      BY <1>6, <1>8 DEF InTree
    <3>2. QED
      BY <3>1, <2>2, <1>6, <1>8 DEF NoneBelow
  <2>5. Levels(o, t) /\ \A c \in DirectSubClasses(o, t[1].cls) : InTree(t, c)
    <3>1. ASSUME NEW tt, NEW j \in DOMAIN tt, LevelsBut(o, tt, tt[j].cls), NoneBelow(o, tt, tt[j].cls),
                 NEW uu, uu = SubClassesTree(o, tt, j)
          PROVE  Levels(o, uu) /\ \A c \in DirectSubClasses(o, tt[j].cls) : InTree(uu, c)
      BY <2>1, <3>1, FilledLevels
    <3>2. 1 \in DOMAIN root /\ root[1].cls = t[1].cls
      BY <1>8, <1>11
    <3>3. QED
      BY <2>3, <2>4, <3>1, <3>2, <1>8
  <2>6. LevelsBut(o, t, t[1].cls)
    <3>1. \A x \in 1..Len(t) : t[x].cls \in Class
      BY <1>10, ItemsType
    <3>2. DOMAIN t = 1..Len(t)
      BY <1>10, ItemsType
    <3>3. QED
      BY <3>1, <3>2, <2>5, <1>1 DEF Levels, LevelsBut
  <2>7. Twin(u, t, 1, k, k)
    BY <1>10, <1>11, <1>12, <1>13, TwinIs
  <2>8. ~k => DirectSubClasses(o, t[1].cls) = {}
    BY <1>6, <1>11, <1>12
  <2>9. ~t[1].open
    BY <1>6, <1>11
  <2>10. QED
    BY <2>1, <2>5, <2>6, <2>7, <2>8, <2>9, <1>11, TwinLevels
<1>16. Orderly(o, u)
  BY <1>14, <1>15 DEF Orderly
<1>17. QED
  BY <1>12, <1>13, <1>16

\* A level that is closed, or loaded.
LEMMA ShutOrderly ==
  ASSUME NEW o \in Ontologies, NEW t, Orderly(o, t), NEW i \in DOMAIN t
  PROVE  Orderly(o, [Emptied(t, i) EXCEPT ![i].open = FALSE])
<1>1. t \in Seq(TreeItem) /\ Guarded(t)
  BY DEF Orderly
<1>2. PICK v : v = Emptied(t, i)
  OBVIOUS
<1>3. v \in Seq(TreeItem) /\ Guarded(v) /\ i \in DOMAIN v
  BY <1>1, <1>2, EmptiedLocks
<1>4. PICK open \in BOOLEAN : open = FALSE
  OBVIOUS
<1>5. PICK u : u = [v EXCEPT ![i].open = open]
  OBVIOUS
<1>6. u \in Seq(TreeItem) /\ Guarded(u)
  <2>1. SameLocks(u, v)
    BY <1>3, <1>5, MarkedLocks
  <2>2. QED
    BY <2>1, <1>3, LocksTell DEF SameLocks
<1>7. ASSUME OneGiven PROVE Levels(o, u)
  <2>1. Treelike(o) /\ OneAbove(o) /\ Levels(o, t)
    BY <1>7, OneAboveIs DEF Orderly
  <2>2. LevelsBut(o, t, t[i].cls)
    <3>1. DOMAIN t = 1..Len(t) /\ NoClass \notin Class /\ \A x \in 1..Len(t) : t[x].cls \in Class
      BY <1>1, ItemsType, ClassAssumption
    <3>2. QED
      BY <3>1, <2>1 DEF Levels, LevelsBut
  <2>3. LevelsBut(o, v, t[i].cls) /\ NoneBelow(o, v, t[i].cls) /\ v[i] = t[i]
    BY <2>1, <2>2, <1>2, EmptiedLevels
  <2>4. PICK c : c = v[i].cls
    OBVIOUS
  <2>5. LevelsBut(o, v, v[i].cls) /\ NoneBelow(o, v, v[i].cls)
    BY <2>3
  <2>6. PICK k : k = v[i].kids
    OBVIOUS
  <2>7. Twin(u, v, i, k, open)
    <3>1. v[i].kids \in BOOLEAN
      BY <1>3, ItemsType DEF TreeItem
    <3>2. QED
      BY <3>1, <2>6, <1>3, <1>5, TwinIs
  <2>8. ~k => DirectSubClasses(o, v[i].cls) = {}
    BY <2>5, <2>6, <1>3 DEF LevelsBut, Twisties
  <2>9. QED
    BY <2>1, <2>5, <2>7, <2>8, <1>3, <1>4, TwinLevels
<1>8. Orderly(o, u)
  BY <1>6, <1>7 DEF Orderly
<1>9. QED
  BY <1>2, <1>4, <1>5, <1>8

LEMMA OpenedOrderly ==
  ASSUME NEW o \in Ontologies, NEW t, Orderly(o, t), NEW i \in DOMAIN t
  PROVE  Orderly(o, [LoadSubTree(o, t, i) EXCEPT ![i].open = TRUE])
<1>1. t \in Seq(TreeItem) /\ Guarded(t)
  BY DEF Orderly
<1>2. PICK v : v = Emptied(t, i)
  OBVIOUS
<1>3. v \in Seq(TreeItem) /\ Guarded(v) /\ i \in DOMAIN v
  BY <1>1, <1>2, EmptiedLocks
<1>4. PICK w : w = SubClassesTree(o, v, i)
  OBVIOUS
<1>5. w \in Seq(TreeItem) /\ Guarded(w) /\ i \in DOMAIN w
  <2>1. w \in Seq(TreeItem) /\ Guarded(w)
    BY <1>3, <1>4, FilledLocks
  <2>2. Fair(FALSE, o, v)
    BY <1>3 DEF Fair
  <2>3. i \in DOMAIN w
    BY <2>2, <1>3, <1>4, LevelFair
  <2>4. QED
    BY <2>1, <2>3
<1>6. PICK open \in BOOLEAN : open = TRUE
  OBVIOUS
<1>7. PICK u : u = [w EXCEPT ![i].open = open]
  OBVIOUS
<1>8. u \in Seq(TreeItem) /\ Guarded(u)
  <2>1. SameLocks(u, w)
    BY <1>5, <1>7, MarkedLocks
  <2>2. QED
    BY <2>1, <1>5, LocksTell DEF SameLocks
<1>9. ASSUME OneGiven PROVE Levels(o, u)
  <2>1. Treelike(o) /\ OneAbove(o) /\ Levels(o, t)
    BY <1>9, OneAboveIs DEF Orderly
  <2>2. LevelsBut(o, t, t[i].cls)
    <3>1. DOMAIN t = 1..Len(t) /\ NoClass \notin Class /\ \A x \in 1..Len(t) : t[x].cls \in Class
      BY <1>1, ItemsType, ClassAssumption
    <3>2. QED
      BY <3>1, <2>1 DEF Levels, LevelsBut
  <2>3. LevelsBut(o, v, t[i].cls) /\ NoneBelow(o, v, t[i].cls) /\ v[i] = t[i]
    BY <2>1, <2>2, <1>2, EmptiedLevels
  <2>4. LevelsBut(o, v, v[i].cls) /\ NoneBelow(o, v, v[i].cls)
    BY <2>3
  <2>5. Levels(o, w) /\ w[i] = v[i] /\ \A c \in DirectSubClasses(o, w[i].cls) : InTree(w, c)
    BY <2>1, <2>4, <1>3, <1>4, FilledLevels
  <2>6. LevelsBut(o, w, w[i].cls)
    <3>1. DOMAIN w = 1..Len(w) /\ NoClass \notin Class /\ \A x \in 1..Len(w) : w[x].cls \in Class
      BY <1>5, ItemsType, ClassAssumption
    <3>2. QED
      BY <3>1, <2>5 DEF Levels, LevelsBut
  <2>7. PICK k : k = w[i].kids
    OBVIOUS
  <2>8. Twin(u, w, i, k, open)
    <3>1. w[i].kids \in BOOLEAN
      BY <1>5, ItemsType DEF TreeItem
    <3>2. QED
      BY <3>1, <2>7, <1>5, <1>7, TwinIs
  <2>9. ~k => DirectSubClasses(o, w[i].cls) = {}
    BY <2>6, <2>7, <1>5 DEF LevelsBut, Twisties
  <2>10. QED
    BY <2>1, <2>5, <2>6, <2>8, <2>9, <1>5, <1>6, TwinLevels
<1>10. Orderly(o, u)
  BY <1>8, <1>9 DEF Orderly
<1>11. LoadSubTree(o, t, i) = w
  BY <1>2, <1>4 DEF LoadSubTree
<1>12. QED
  BY <1>6, <1>7, <1>10, <1>11

\* A level that could not be loaded: its class is none the server has.
LEMMA LeftOrderly ==
  ASSUME NEW o \in Ontologies, NEW t, Orderly(o, t), NEW i \in DOMAIN t, t[i].cls \notin o.live,
         NEW v, v = [Emptied(t, i) EXCEPT ![i].open = FALSE]
  PROVE  Orderly(o, [v EXCEPT ![i].open = TRUE])
<1>1. Orderly(o, v)
  BY ShutOrderly
<1>2. ~OneGiven
  BY LevelsLive DEF Orderly, Levels
<1>3. PICK open \in BOOLEAN : open = TRUE
  OBVIOUS
<1>4. PICK u : u = [v EXCEPT ![i].open = open]
  OBVIOUS
<1>5. v \in Seq(TreeItem) /\ Guarded(v)
  BY <1>1 DEF Orderly
<1>6. SameLocks(u, v)
  BY <1>4, <1>5, MarkedLocks
<1>7. u \in Seq(TreeItem) /\ Guarded(u)
  BY <1>5, <1>6, LocksTell DEF SameLocks
<1>8. Orderly(o, u)
  BY <1>2, <1>7 DEF Orderly
<1>9. QED
  BY <1>3, <1>4, <1>8

\* A class that was created below one in the tree.
LEMMA CreatedOrderly ==
  ASSUME NEW o \in Ontologies, NEW t, Orderly(o, t), NEW c \in Class, c \notin o.live,
         NEW s \in o.live, OneGiven => InTree(t, s), NEW n \in Ontologies, Extended(n, o, c, s)
  PROVE  Orderly(n, CreatedSubClass(t, c, s))
<1>1. t \in Seq(TreeItem) /\ Guarded(t) /\ GivenKept(o) /\ c \notin ImportedClass
  BY DEF Orderly, GivenKept
<1>2. CreatedSubClass(t, c, s) \in Seq(TreeItem) /\ Guarded(CreatedSubClass(t, c, s))
  BY <1>1, CreatedLocks
<1>3. GivenKept(n)
  <2>1. o.live \in SUBSET Class /\ o.supers \in [Class -> SUBSET Class] /\ ImportedClass \subseteq Class
    BY ClassAssumption DEF Ontologies
  <2>2. o = [live |-> o.live, supers |-> o.supers, types |-> o.types]
    BY DEF Ontologies
  <2>3. n.live = o.live \cup {c} /\ n.supers = [o.supers EXCEPT ![c] = {s}]
    BY <2>2 DEF Extended
  <2>4. \A d \in Class : d # c => n.supers[d] = o.supers[d]
    BY <2>1, <2>3
  <2>5. QED
    BY <2>1, <2>3, <2>4, <1>1 DEF GivenKept
<1>4. ASSUME OneGiven PROVE Treelike(n) /\ Levels(n, CreatedSubClass(t, c, s))
  <2>1. Treelike(o) /\ Levels(o, t)
    BY <1>4 DEF Orderly
  <2>2. Treelike(n)
    BY <2>1, CreatedSubs
  <2>3. PICK i \in DOMAIN t : t[i].cls = s
    BY <1>4 DEF InTree
  <2>4. Extended(n, o, c, t[i].cls)
    BY <2>3
  <2>5. Levels(n, CreatedSubClass(t, c, t[i].cls))
    BY <2>1, <2>3, <2>4, CreatedLevels
  <2>6. QED
    BY <2>2, <2>3, <2>5
<1>5. QED
  BY <1>2, <1>3, <1>4 DEF Orderly

\* What a new class can be put below is in the tree.
LEMMA SuperInTree ==
  ASSUME NEW o, NEW t, Levels(o, t), t # <<>>, NEW s,
         \/ s = Thing
         \/ \E i \in DOMAIN t : s = t[i].cls
         \/ \E i \in DOMAIN t : ItemAbove(t, i) # 0 /\ s = t[ItemAbove(t, i)].cls
  PROVE  InTree(t, s)
<1>1. /\ t \in Seq(TreeItem) /\ Len(t) \in Nat /\ DOMAIN t = 1..Len(t) /\ Rooted(t) /\ Placed(o, t)
  BY LevelsType DEF Levels
<1>2. 1 \in DOMAIN t /\ t[1].cls = Thing /\ t[1].depth = 0
  <2>1. Len(t) # 0
    BY <1>1
  <2>2. QED
    BY <2>1, <1>1 DEF Rooted
<1>3. CASE s = Thing
  BY <1>2, <1>3 DEF InTree
<1>4. CASE \E i \in DOMAIN t : s = t[i].cls
  BY <1>4 DEF InTree
<1>5. ASSUME NEW i \in DOMAIN t, ItemAbove(t, i) # 0, s = t[ItemAbove(t, i)].cls
      PROVE  InTree(t, s)
  <2>1. i # 1
    <3>1. ItemAbove(t, 1) = 0
      BY <1>2 DEF ItemAbove
    <3>2. QED
      BY <3>1, <1>5
  <2>2. i \in 2..Len(t)
    BY <2>1, <1>1
  <2>3. PICK p \in 1..(i - 1) : Under(t, p, i)
    BY <2>2, <1>1 DEF Placed
  <2>4. p \in DOMAIN t
    BY <2>2, <2>3, <1>1
  <2>5. ItemAbove(t, i) = p
    BY <2>3, <2>4, <1>1, AboveIs
  <2>6. QED
    BY <2>4, <2>5, <1>5 DEF InTree
<1>6. QED
  BY <1>3, <1>4, <1>5

\* A class that showed no subclasses and was deleted.
LEMMA DeletedOrderly ==
  ASSUME NEW o \in Ontologies, NEW t, Orderly(o, t), NEW i \in DOMAIN t,
         t[i].picked, ~t[i].kids, ~t[i].locked, t[i].cls \in o.live
  PROVE  Orderly(Deleted(o, t[i].cls), RemovedClass(t, t[i].cls))
<1>1. t \in Seq(TreeItem) /\ Guarded(t) /\ GivenKept(o)
  BY DEF Orderly
<1>2. PICK c : c = t[i].cls
  OBVIOUS
<1>3. c \notin ImportedClass /\ c \in o.live
  BY <1>1, <1>2 DEF Guarded
<1>4. RemovedClass(t, c) \in Seq(TreeItem) /\ Guarded(RemovedClass(t, c))
  BY <1>1, RemovedLocks
<1>5. GivenKept(Deleted(o, c))
  <2>1. /\ Deleted(o, c).live = o.live \ {c}
        /\ Deleted(o, c).supers = [d \in Class |-> IF d = c THEN {} ELSE o.supers[d] \ {c}]
    BY DEF Deleted
  <2>2. ImportedClass \subseteq Class /\ \A d \in ImportedClass : Given[d] \subseteq ImportedClass
    BY ClassAssumption
  <2>3. \A d \in ImportedClass : d # c /\ Deleted(o, c).supers[d] = Given[d] \ {c}
    BY <2>1, <2>2, <1>1, <1>3 DEF GivenKept
  <2>4. \A d \in ImportedClass : Deleted(o, c).supers[d] = Given[d]
    BY <2>2, <2>3, <1>3
  <2>5. QED
    BY <2>1, <2>4, <1>1, <1>3 DEF GivenKept
<1>6. ASSUME OneGiven PROVE Treelike(Deleted(o, c)) /\ Levels(Deleted(o, c), RemovedClass(t, c))
  <2>1. Treelike(o) /\ Levels(o, t) /\ OneAbove(o)
    BY <1>6, OneAboveIs DEF Orderly
  <2>2. DirectSubClasses(o, c) = {}
    BY <2>1, <1>2 DEF Levels, LevelsBut, Twisties
  <2>3. Treelike(Deleted(o, c))
    BY <2>1, <2>2, <1>3, DeletedSubs
  <2>4. Levels(Deleted(o, t[i].cls), RemovedClass(t, t[i].cls))
    BY <2>1, <1>2, <1>3, RemovedLevels
  <2>5. QED
    BY <2>3, <2>4, <1>2
<1>7. Orderly(Deleted(o, c), RemovedClass(t, c))
  BY <1>4, <1>5, <1>6 DEF Orderly
<1>8. QED
  BY <1>2, <1>7

-----------------------------------------------------------------------------
(* The invariant of the tree *)

\* As long as the user neither searches, renames nor moves classes.
OrderlyInv == Settled => Orderly(ont, tree)

LEMMA SettledTells ==
  ASSUME NEW kind, May(kind)
  PROVE  /\ Settled' => Settled /\ tree # <<>>
         /\ kind \in {"rename", "hierarchy", "search"} => ~Settled'
<1>1. done' = done \cup {kind} /\ tree # <<>>
  BY DEF May, SidebarShown
<1>2. Settled' => Settled
  BY <1>1 DEF Settled, Only
<1>3. kind \in {"rename", "hierarchy", "search"} => kind \notin PlainGestures \cup {"types"}
  BY DEF PlainGestures
<1>4. kind \in {"rename", "hierarchy", "search"} => ~Settled'
  <2>1. SUFFICES ASSUME kind \in {"rename", "hierarchy", "search"}, Settled' PROVE FALSE
    OBVIOUS
  <2>2. done' \subseteq PlainGestures \cup {"types"}
    BY <2>1 DEF Settled, Only, PlainGestures
  <2>3. QED
    BY <2>1, <2>2, <1>1, <1>3
<1>5. QED
  BY <1>1, <1>2, <1>4

LEMMA OrderlyFrom ==
  ASSUME Settled' => Orderly(ont', tree')
  PROVE  OrderlyInv'
<1>1. (Settled => Orderly(ont, tree))'
  OBVIOUS
<1>2. QED
  BY <1>1 DEF OrderlyInv

LEMMA OrderlyStart == ClassInit => OrderlyInv
<1> SUFFICES ASSUME ClassInit PROVE OrderlyInv
  OBVIOUS
<1>1. ont = GivenOnt /\ tree = <<>>
  BY DEF ClassInit
<1>2. Treelike(ont) /\ GivenKept(ont)
  BY <1>1, GivenTreelike DEF Treelike
<1>3. Orderly(ont, tree)
  BY <1>1, <1>2, NothingOrderly
<1>4. QED
  BY <1>3 DEF OrderlyInv

LEMMA ShowOrderly == ASSUME InstancesInv, OrderlyInv, Show PROVE OrderlyInv'
<1>1. ont \in Ontologies
  BY InvType
<1>2. PICK root : root = <<[NewItem(ont, Thing, 0) EXCEPT !.picked = TRUE]>>
  OBVIOUS
<1>3. PICK t : t = SubClassesTree(ont, root, 1)
  OBVIOUS
<1>4. tree' = [t EXCEPT ![1].open = t[1].kids] /\ ont' = ont /\ done' = done
  BY <1>2, <1>3 DEF Show
<1>5. ASSUME Settled' PROVE Orderly(ont', tree')
  <2>1. Settled
    BY <1>4, <1>5 DEF Settled, Only
  <2>2. GivenKept(ont) /\ (OneGiven => Treelike(ont))
    BY <2>1 DEF OrderlyInv, Orderly
  <2>3. Orderly(ont, [t EXCEPT ![1].open = t[1].kids])
    BY <2>2, <1>1, <1>2, <1>3, RootOrderly
  <2>4. QED
    BY <2>3, <1>4
<1>6. QED
  BY <1>5, OrderlyFrom

LEMMA HideOrderly == ASSUME InstancesInv, OrderlyInv, Hide PROVE OrderlyInv'
<1>1. tree' = <<>> /\ ont' = ont /\ done' = done
  BY DEF Hide
<1>2. ASSUME Settled' PROVE Orderly(ont', tree')
  <2>1. Settled
    BY <1>1, <1>2 DEF Settled, Only
  <2>2. GivenKept(ont) /\ (OneGiven => Treelike(ont))
    BY <2>1 DEF OrderlyInv, Orderly
  <2>3. PICK t : t = <<>>
    OBVIOUS
  <2>4. Orderly(ont, t)
    BY <2>2, <2>3, NothingOrderly
  <2>5. QED
    BY <2>3, <2>4, <1>1
<1>3. QED
  BY <1>2, OrderlyFrom

LEMMA ClickOrderly ==
  ASSUME InstancesInv, OrderlyInv, NEW i \in DOMAIN tree, ClassesTreeClick(i)
  PROVE  OrderlyInv'
<1>1. ont \in Ontologies
  BY InvType
<1>2. Visible(tree, i) /\ ont' = ont /\ done' = done /\ LoadInstanceList(ont, Pick(tree, i))
  BY DEF ClassesTreeClick
<1>3. ASSUME Settled' PROVE Orderly(ont', tree')
  <2>1. Orderly(ont, tree)
    BY <1>2, <1>3 DEF OrderlyInv, Settled, Only
  <2>2. OneGiven => OpenAbove(ont, tree, i)
    BY <2>1, <1>1, <1>2, OrderlyVisible
  <2>3. Orderly(ont, Pick(tree, i))
    BY <2>1, <2>2, PickOrderly
  <2>4. Orderly(ont, tree')
    BY <2>3, <1>1, <1>2, LoadedOrderly
  <2>5. QED
    BY <2>4, <1>2
<1>4. QED
  BY <1>3, OrderlyFrom

LEMMA TwistyOrderly ==
  ASSUME InstancesInv, OrderlyInv, NEW i \in DOMAIN tree, OpenSubClassesList(i)
  PROVE  OrderlyInv'
<1>1. ont \in Ontologies
  BY InvType
<1>2. PICK shut, opened, left : /\ shut = [Emptied(tree, i) EXCEPT ![i].open = FALSE]
                                /\ opened = [LoadSubTree(ont, tree, i) EXCEPT ![i].open = TRUE]
                                /\ left = [shut EXCEPT ![i].open = TRUE]
  OBVIOUS
<1>3. /\ ont' = ont /\ done' = done
      /\ \/ LoadInstanceList(ont, shut)
         \/ LoadInstanceList(ont, opened)
         \/ tree[i].cls \notin ont.live /\ tree' = left
  BY <1>2 DEF OpenSubClassesList
<1>4. ASSUME Settled' PROVE Orderly(ont', tree')
  <2>1. Orderly(ont, tree)
    BY <1>3, <1>4 DEF OrderlyInv, Settled, Only
  <2>2. CASE LoadInstanceList(ont, shut)
    <3>1. Orderly(ont, shut)
      BY <2>1, <1>1, <1>2, ShutOrderly
    <3>2. QED
      BY <3>1, <2>2, <1>1, <1>3, LoadedOrderly
  <2>3. CASE LoadInstanceList(ont, opened)
    <3>1. Orderly(ont, opened)
      BY <2>1, <1>1, <1>2, OpenedOrderly
    <3>2. QED
      BY <3>1, <2>3, <1>1, <1>3, LoadedOrderly
  <2>4. CASE tree[i].cls \notin ont.live /\ tree' = left
    <3>1. Orderly(ont, left)
      BY <2>1, <2>4, <1>1, <1>2, LeftOrderly
    <3>2. QED
      BY <3>1, <2>4, <1>3
  <2>5. QED
    BY <2>2, <2>3, <2>4, <1>3
<1>5. QED
  BY <1>4, OrderlyFrom

LEMMA CreateClassOrderly ==
  ASSUME InstancesInv, OrderlyInv, NEW c \in Class, NEW s \in Class, CreateClass(c, s)
  PROVE  OrderlyInv'
<1>1. ont \in Ontologies /\ ont' \in Ontologies
  <2>1. InstancesInv'
    BY CreateClassKeeps
  <2>2. ont' \in Ontologies
    BY <2>1 DEF InstancesInv, ClassTypeOK, Ontologies
  <2>3. QED
    BY <2>2, InvType
<1>2. /\ May("create") /\ s \in SuperOfNew /\ s \in ont.live /\ c \notin ont.live
      /\ Extended(ont', ont, c, s) /\ tree' = CreatedSubClass(tree, c, s)
  BY DEF CreateClass, Extended
<1>3. ASSUME Settled' PROVE Orderly(ont', tree')
  <2>1. Orderly(ont, tree) /\ tree # <<>>
    BY <1>2, <1>3, SettledTells DEF OrderlyInv
  <2>2. ASSUME OneGiven PROVE InTree(tree, s)
    <3>1. Levels(ont, tree)
      BY <2>1, <2>2 DEF Orderly
    <3>2. \/ s = Thing
          \/ \E i \in DOMAIN tree : s = tree[i].cls
          \/ \E i \in DOMAIN tree : ItemAbove(tree, i) # 0 /\ s = tree[ItemAbove(tree, i)].cls
      BY <1>2 DEF SuperOfNew, Picked
    <3>3. QED
      BY <3>1, <3>2, <2>1, SuperInTree
  <2>3. PICK n \in Ontologies : n = ont'
    BY <1>1
  <2>4. Orderly(n, CreatedSubClass(tree, c, s))
    BY <2>1, <2>2, <2>3, <1>1, <1>2, CreatedOrderly
  <2>5. QED
    BY <2>3, <2>4, <1>2
<1>4. QED
  BY <1>3, OrderlyFrom

LEMMA RemoveClassOrderly ==
  ASSUME InstancesInv, OrderlyInv, NEW i \in DOMAIN tree, RemoveClass(i)
  PROVE  OrderlyInv'
<1>1. ont \in Ontologies
  BY InvType
<1>2. /\ May("remove") /\ tree[i].picked /\ ~tree[i].kids /\ ~tree[i].locked /\ tree[i].cls \in ont.live
      /\ ont' = Deleted(ont, tree[i].cls) /\ tree' = RemovedClass(tree, tree[i].cls)
  BY DEF RemoveClass, Removable, Picked
<1>3. ASSUME Settled' PROVE Orderly(ont', tree')
  <2>1. Orderly(ont, tree)
    BY <1>2, <1>3, SettledTells DEF OrderlyInv
  <2>2. Orderly(Deleted(ont, tree[i].cls), RemovedClass(tree, tree[i].cls))
    BY <2>1, <1>1, <1>2, DeletedOrderly
  <2>3. QED
    BY <2>2, <1>2
<1>4. QED
  BY <1>3, OrderlyFrom

\* What brings the sidebar out of order for good.
LEMMA UnsettledOrderly ==
  ASSUME NEW kind \in {"rename", "hierarchy", "search"}, May(kind)
  PROVE  OrderlyInv'
<1>1. ~Settled'
  BY SettledTells
<1>2. QED
  BY <1>1, OrderlyFrom

LEMMA RetypedSame ==
  ASSUME NEW o \in Ontologies, NEW x, NEW T, NEW n, Retyped(n, o, x, T)
  PROVE  n.live = o.live /\ n.supers = o.supers
  BY DEF Retyped, Ontologies

LEMMA CreateIndividualOrderly ==
  ASSUME InstancesInv, OrderlyInv, NEW i \in DOMAIN tree, NEW x \in Individual, CreateIndividual(i, x)
  PROVE  OrderlyInv'
<1>1. ont \in Ontologies /\ ont' \in Ontologies
  <2>1. InstancesInv'
    BY CreateIndividualKeeps
  <2>2. ont' \in Ontologies
    BY <2>1 DEF InstancesInv, ClassTypeOK, Ontologies
  <2>3. QED
    BY <2>2, InvType
<1>2. May("populate") /\ Retyped(ont', ont, x, {tree[i].cls}) /\ LoadInstanceList(ont', tree)
  BY DEF CreateIndividual, Retyped
<1>3. ASSUME Settled' PROVE Orderly(ont', tree')
  <2>1. Orderly(ont, tree)
    BY <1>2, <1>3, SettledTells DEF OrderlyInv
  <2>2. ont'.live = ont.live /\ ont'.supers = ont.supers
    BY <1>1, <1>2, RetypedSame
  <2>3. PICK n \in Ontologies : n = ont'
    BY <1>1
  <2>4. Orderly(n, tree')
    BY <2>1, <2>2, <2>3, <1>1, <1>2, LoadedOrderly
  <2>5. QED
    BY <2>3, <2>4
<1>4. QED
  BY <1>3, OrderlyFrom

LEMMA DropOrderly ==
  ASSUME InstancesInv, OrderlyInv, NEW i \in DOMAIN tree, NEW x \in Individual, ClassDragDrop(i, x)
  PROVE  OrderlyInv'
<1>1. ont \in Ontologies /\ ont' \in Ontologies
  <2>1. InstancesInv'
    BY DropKeeps
  <2>2. ont' \in Ontologies
    BY <2>1 DEF InstancesInv, ClassTypeOK, Ontologies
  <2>3. QED
    BY <2>2, InvType
<1>2. /\ May("populate") /\ Visible(tree, i) /\ Retyped(ont', ont, x, {tree[i].cls})
      /\ LoadInstanceList(ont', Pick(InstancesShown(ont', tree, tree[i].cls), i))
  BY DEF ClassDragDrop, Retyped
<1>3. ASSUME Settled' PROVE Orderly(ont', tree')
  <2>1. Orderly(ont, tree) /\ tree \in Seq(TreeItem)
    BY <1>2, <1>3, SettledTells DEF OrderlyInv, Orderly
  <2>2. ont'.live = ont.live /\ ont'.supers = ont.supers
    BY <1>1, <1>2, RetypedSame
  <2>3. PICK n \in Ontologies : n = ont'
    BY <1>1
  <2>4. PICK u : u = InstancesShown(n, tree, tree[i].cls)
    OBVIOUS
  <2>5. Still(u, tree)
    BY <2>1, <2>4, ShownStill
  <2>6. Orderly(n, u)
    BY <2>1, <2>2, <2>3, <2>5, <1>1, StillOrderly
  <2>7. OneGiven => OpenAbove(ont, tree, i)
    BY <2>1, <1>1, <1>2, OrderlyVisible
  <2>8. OneGiven => OpenAbove(n, u, i)
    <3>1. SameSubs(n, ont)
      BY <2>2, <2>3, <1>1, TypedSubs DEF SameSubs
    <3>2. OneGiven => Levels(ont, tree)
      BY <2>1 DEF Orderly
    <3>3. QED
      BY <3>1, <3>2, <2>5, <2>7, StillLevels
  <2>9. i \in DOMAIN u
    BY <2>5 DEF Still, SameShape
  <2>10. Orderly(n, Pick(u, i))
    BY <2>6, <2>8, <2>9, PickOrderly
  <2>11. LoadInstanceList(n, Pick(u, i))
    BY <2>3, <2>4, <1>2
  <2>12. Orderly(n, tree')
    BY <2>3, <2>10, <2>11, LoadedOrderly
  <2>13. QED
    BY <2>3, <2>12
<1>4. QED
  BY <1>3, OrderlyFrom

LEMMA RemoveIndividualOrderly ==
  ASSUME InstancesInv, OrderlyInv, NEW x \in Individual, RemoveIndividual(x)
  PROVE  OrderlyInv'
<1>1. ont \in Ontologies /\ ont' \in Ontologies
  <2>1. InstancesInv'
    BY RemoveIndividualKeeps
  <2>2. ont' \in Ontologies
    BY <2>1 DEF InstancesInv, ClassTypeOK, Ontologies
  <2>3. QED
    BY <2>2, InvType
<1>2. /\ May("populate") /\ Retyped(ont', ont, x, {})
      /\ tree' = [k \in DOMAIN tree |->
                    IF tree[k].cls = list.cls THEN [tree[k] EXCEPT !.count = tree[k].count - 1] ELSE tree[k]]
  BY DEF RemoveIndividual, Retyped
<1>3. ASSUME Settled' PROVE Orderly(ont', tree')
  <2>1. Orderly(ont, tree)
    BY <1>2, <1>3, SettledTells DEF OrderlyInv
  <2>2. ont'.live = ont.live /\ ont'.supers = ont.supers
    BY <1>1, <1>2, RetypedSame
  <2>3. PICK n \in Ontologies : n = ont'
    BY <1>1
  <2>4. PICK u : u = tree'
    OBVIOUS
  <2>5. Still(u, tree)
    <3>1. tree \in Seq(TreeItem) /\ DOMAIN tree = 1..Len(tree) /\ \A k \in 1..Len(tree) : tree[k].count \in Int
      BY InvType, ItemsType DEF TreeItem
    <3>2. PICK f : f = [k \in DOMAIN tree |-> tree[k].count - 1]
      OBVIOUS
    <3>3. \A k \in DOMAIN tree : f[k] = tree[k].count - 1 /\ f[k] \in Int
      BY <3>1, <3>2
    <3>4. Recounted(u, tree, f)
      <4>1. DOMAIN u = DOMAIN tree /\ u = [k \in DOMAIN tree |-> u[k]]
        BY <2>4, <1>2
      <4>2. \A k \in DOMAIN tree : u[k] = tree[k] \/ u[k] = [tree[k] EXCEPT !.count = tree[k].count - 1]
        BY <2>4, <1>2
      <4>3. QED
        BY <4>1, <4>2, <3>3 DEF Recounted
    <3>5. QED
      BY <3>1, <3>4, RecountedStill
  <2>6. Orderly(n, u)
    BY <2>1, <2>2, <2>3, <2>5, <1>1, StillOrderly
  <2>7. QED
    BY <2>3, <2>4, <2>6
<1>4. QED
  BY <1>3, OrderlyFrom

LEMMA TypesOrderly ==
  ASSUME InstancesInv, OrderlyInv, NEW x \in Individual, NEW c \in Class, AddType(x, c) \/ RemoveType(x, c)
  PROVE  OrderlyInv'
<1>1. ont \in Ontologies /\ ont' \in Ontologies /\ tree \in Seq(TreeItem)
  <2>1. InstancesInv'
    BY TypesKeep
  <2>2. ont' \in Ontologies
    BY <2>1 DEF InstancesInv, ClassTypeOK, Ontologies
  <2>3. QED
    BY <2>2, InvType
<1>2. May("types") /\ tree' = tree /\ \E T : Retyped(ont', ont, x, T)
  <2>1. CASE AddType(x, c)
    BY <2>1 DEF AddType, Retyped
  <2>2. CASE RemoveType(x, c)
    BY <2>2 DEF RemoveType, Retyped
  <2>3. QED
    BY <2>1, <2>2
<1>3. ASSUME Settled' PROVE Orderly(ont', tree')
  <2>1. Orderly(ont, tree)
    BY <1>2, <1>3, SettledTells DEF OrderlyInv
  <2>2. ont'.live = ont.live /\ ont'.supers = ont.supers
    BY <1>1, <1>2, RetypedSame
  <2>3. PICK n \in Ontologies : n = ont'
    BY <1>1
  <2>4. Still(tree, tree)
    BY <1>1 DEF Still, SameShape
  <2>5. Orderly(n, tree)
    BY <2>1, <2>2, <2>3, <2>4, <1>1, StillOrderly
  <2>6. QED
    BY <2>3, <2>5, <1>2
<1>4. QED
  BY <1>3, OrderlyFrom

LEMMA OrderlyInvNext == InstancesInv /\ OrderlyInv /\ [ClassNext]_classVars => OrderlyInv'
<1> SUFFICES ASSUME InstancesInv, OrderlyInv, [ClassNext]_classVars PROVE OrderlyInv'
  OBVIOUS
<1>1. CASE UNCHANGED classVars
  <2>1. ont' = ont /\ tree' = tree /\ (Settled' => Settled)
    BY <1>1 DEF classVars, Settled, Only
  <2>2. QED
    BY <2>1, OrderlyFrom DEF OrderlyInv
<1>2. CASE Show \/ Hide
  BY <1>2, ShowOrderly, HideOrderly
<1>3. ASSUME NEW i \in DOMAIN tree,
             \/ ClassesTreeClick(i) \/ OpenSubClassesList(i) \/ RemoveClass(i)
             \/ \E n \in Class : RenameClass(i, n)
             \/ \E x \in Individual : CreateIndividual(i, x) \/ ClassDragDrop(i, x)
      PROVE  OrderlyInv'
  <2>1. ASSUME NEW n \in Class, RenameClass(i, n) PROVE OrderlyInv'
    BY <2>1, UnsettledOrderly DEF RenameClass
  <2>2. QED
    BY <1>3, <2>1, ClickOrderly, TwistyOrderly, RemoveClassOrderly, CreateIndividualOrderly, DropOrderly
<1>4. ASSUME NEW c \in Class, SearchFocus(c) PROVE OrderlyInv'
  BY <1>4, UnsettledOrderly DEF SearchFocus
<1>5. ASSUME NEW c \in Class, NEW s \in Class,
             CreateClass(c, s) \/ AddSuperClass(c, s) \/ RemoveSuperClass(c, s)
      PROVE  OrderlyInv'
  <2>1. CASE AddSuperClass(c, s) \/ RemoveSuperClass(c, s)
    <3>1. May("hierarchy")
      BY <2>1 DEF AddSuperClass, RemoveSuperClass
    <3>2. QED
      BY <3>1, UnsettledOrderly
  <2>2. QED
    BY <1>5, <2>1, CreateClassOrderly
<1>6. ASSUME NEW x \in Individual,
             \/ RemoveIndividual(x)
             \/ \E y \in Individual : RenameIndividual(x, y)
             \/ \E c \in Class : AddType(x, c) \/ RemoveType(x, c)
      PROVE  OrderlyInv'
  <2>1. ASSUME NEW y \in Individual, RenameIndividual(x, y) PROVE OrderlyInv'
    BY <2>1, UnsettledOrderly DEF RenameIndividual
  <2>2. QED
    BY <1>6, <2>1, RemoveIndividualOrderly, TypesOrderly
<1>7. QED
  BY <1>1, <1>2, <1>3, <1>4, <1>5, <1>6 DEF ClassNext

-----------------------------------------------------------------------------
(* What the invariant says of the properties *)

\* Where no class shows in two places, none of the given ones does.
LEMMA GivenOnce ==
  ASSUME InstancesInv, OrderlyInv, Settled, OnePlace
  PROVE  /\ ont \in Ontologies /\ OneGiven /\ Treelike(ont) /\ OneAbove(ont) /\ Levels(ont, tree)
<1>1. ont \in Ontologies /\ Orderly(ont, tree)
  BY InvType DEF OrderlyInv
<1>2. GivenKept(ont) /\ GivenOnt \in Ontologies /\ GivenKept(GivenOnt)
  BY <1>1, GivenTreelike DEF Orderly, Treelike
<1>3. ASSUME NEW c \in ImportedClass PROVE Cardinality(DirectSupers(GivenOnt, c)) <= 1
  <2>1. PICK g \in Ontologies : g = GivenOnt
    BY <1>2
  <2>2. DirectSupers(g, c) = DirectSupers(ont, c)
    BY <2>1, <1>1, <1>2, <1>3, GivenSame
  <2>3. c \in ont.live
    BY <1>2, <1>3 DEF GivenKept
  <2>4. Cardinality(DirectSupers(ont, c)) <= 1
    BY <2>3 DEF OnePlace
  <2>5. QED
    BY <2>1, <2>2, <2>4
<1>4. OneGiven
  BY <1>3 DEF OneGiven
<1>5. Treelike(ont) /\ Levels(ont, tree)
  BY <1>1, <1>4 DEF Orderly
<1>6. OneAbove(ont)
  BY <1>1, <1>4, <1>5, OneAboveIs
<1>7. QED
  BY <1>1, <1>4, <1>5, <1>6

LEMMA LevelShows ==
  ASSUME NEW o \in Ontologies, OneAbove(o), NEW t, Levels(o, t), NEW i \in DOMAIN t,
         t[i].open, t[i].kids
  PROVE  /\ {t[k].cls : k \in Children(t, i)} = DirectSubClasses(o, t[i].cls)
         /\ Cardinality(Children(t, i)) = Cardinality(DirectSubClasses(o, t[i].cls))
<1>1. /\ t \in Seq(TreeItem) /\ Len(t) \in Nat /\ DOMAIN t = 1..Len(t)
      /\ \A x \in 1..Len(t) : t[x].cls \in Class
      /\ Rooted(t) /\ Placed(o, t) /\ Once(t)
  BY LevelsType DEF Levels
<1>2. PICK C, D : C = Children(t, i) /\ D = DirectSubClasses(o, t[i].cls)
  OBVIOUS
<1>3. C \subseteq 1..Len(t) /\ \A k \in C : k \in 2..Len(t)
  <2>1. LastUnder(t, i) \in i..Len(t) /\ i \in 1..Len(t)
    BY <1>1, LastUnderIs
  <2>2. QED
    BY <2>1, <1>1, <1>2 DEF Children
<1>4. ASSUME NEW k \in C PROVE t[k].cls \in D
  <2>1. k \in DOMAIN t /\ k \in 2..Len(t)
    BY <1>1, <1>3, <1>4
  <2>2. Under(t, i, k)
    BY <2>1, <1>1, <1>2, <1>4, UnderIs
  <2>3. PICK p \in 1..(k - 1) : Under(t, p, k) /\ t[k].cls \in DirectSubClasses(o, t[p].cls)
    BY <2>1, <1>1 DEF Placed
  <2>4. p \in DOMAIN t
    BY <2>1, <2>3, <1>1
  <2>5. ItemAbove(t, k) = p
    BY <2>1, <2>3, <2>4, <1>1, AboveIs
  <2>6. ItemAbove(t, k) = i
    BY <2>1, <2>2, <1>1, AboveIs
  <2>7. QED
    BY <2>3, <2>5, <2>6, <1>2
<1>5. ASSUME NEW e \in D PROVE \E k \in C : t[k].cls = e
  <2>1. Filled(o, t, i)
    <3>1. t[i].cls # NoClass
      BY <1>1, ClassAssumption
    <3>2. QED
      BY <3>1 DEF Levels, LevelsBut
  <2>2. PICK x \in DOMAIN t : t[x].cls = e
    BY <2>1, <1>2, <1>5 DEF Filled, InTree
  <2>3. Under(t, i, x)
    BY <2>2, <1>1, <1>2, <1>5, ChildIs
  <2>4. x \in C
    BY <2>2, <2>3, <1>1, <1>2, UnderIs
  <2>5. QED
    BY <2>2, <2>4
<1>6. {t[k].cls : k \in C} = D
  BY <1>4, <1>5
<1>7. Cardinality(C) = Cardinality(D)
  <2>1. IsFiniteSet(C)
    <3>1. PICK n \in Nat : n = Len(t)
      BY <1>1
    <3>2. IsFiniteSet(1..n)
      BY FS_Interval
    <3>3. QED
      BY <3>1, <3>2, <1>3, FS_Subset
  <2> DEFINE f == [k \in C |-> t[k].cls]
  <2>2. f \in [C -> D]
    BY <1>4
  <2>3. f \in Injection(C, D)
    <3>1. ASSUME NEW k \in C, NEW l \in C, f[k] = f[l] PROVE k = l
      BY <3>1, <1>1, <1>3 DEF Once
    <3>2. QED
      BY <2>2, <3>1 DEF Injection, IsInjective
  <2>4. f \in Surjection(C, D)
    <3>1. \A e \in D : \E k \in C : f[k] = e
      BY <1>5
    <3>2. QED
      BY <2>2, <3>1 DEF Surjection
  <2> HIDE DEF f
  <2>5. f \in Bijection(C, D)
    BY <2>3, <2>4 DEF Bijection
  <2>6. ExistsBijection(C, D)
    BY <2>5 DEF ExistsBijection
  <2>7. QED
    BY <2>1, <2>6, FS_Bijection
<1>8. QED
  BY <1>2, <1>6, <1>7

LEMMA OrderlyTells == InstancesInv /\ OrderlyInv => TreeIsCurrent /\ LeavesAreLeaves
<1> SUFFICES ASSUME InstancesInv, OrderlyInv PROVE TreeIsCurrent /\ LeavesAreLeaves
  OBVIOUS
<1>1. ASSUME Settled, OnePlace
      PROVE  ont \in Ontologies /\ OneAbove(ont) /\ Levels(ont, tree)
  BY <1>1, GivenOnce
<1>2. ASSUME Settled, OnePlace, NEW i \in DOMAIN tree, tree[i].open, tree[i].kids
      PROVE  /\ {tree[k].cls : k \in Children(tree, i)} = DirectSubClasses(ont, tree[i].cls)
             /\ Cardinality(Children(tree, i)) = Cardinality(DirectSubClasses(ont, tree[i].cls))
  <2>1. ont \in Ontologies /\ OneAbove(ont) /\ Levels(ont, tree)
    BY <1>1, <1>2
  <2>2. QED
    BY <2>1, <1>2, LevelShows
<1>3. OpenLevelsMatch
  BY <1>2 DEF OpenLevelsMatch, Settled
<1>4. LeavesAreLeaves
  <2>1. SUFFICES ASSUME Settled, OnePlace, NEW i \in DOMAIN tree
                 PROVE  tree[i].kids \/ DirectSubClasses(ont, tree[i].cls) = {}
    BY DEF LeavesAreLeaves, Settled
  <2>2. Levels(ont, tree)
    BY <1>1, <2>1
  <2>3. QED
    BY <2>2 DEF Levels, LevelsBut, Twisties
<1>5. ClassTypeOK
  BY DEF InstancesInv
<1>6. QED
  BY <1>3, <1>4, <1>5 DEF TreeIsCurrent

\* The one step that takes a class away, and puts none in its place, without
\* the user having renamed one, is a deletion.
LEMMA LiveIs ==
  ASSUME ont \in Ontologies, [ClassNext]_classVars, Only(PlainGestures)', NEW c \in ont.live \ ont'.live
  PROVE  \E i \in DOMAIN tree : RemoveClass(i) /\ tree[i].cls = c
<1>0. ont = [live |-> ont.live, supers |-> ont.supers, types |-> ont.types]
  BY DEF Ontologies
<1>1. CASE UNCHANGED classVars
  BY <1>1 DEF classVars
<1>2. CASE Show \/ Hide
  BY <1>2 DEF Show, Hide
<1>3. ASSUME NEW kind \in {"rename", "hierarchy", "search", "types"}, May(kind) PROVE FALSE
  <2>1. kind \in done' /\ done' \subseteq PlainGestures
    BY <1>3 DEF May, Only, PlainGestures
  <2>2. kind \notin PlainGestures
    BY <1>3 DEF PlainGestures
  <2>3. QED
    BY <2>1, <2>2
<1>4. ASSUME NEW i \in DOMAIN tree, ClassesTreeClick(i) \/ OpenSubClassesList(i) PROVE FALSE
  BY <1>4 DEF ClassesTreeClick, OpenSubClassesList
<1>5. ASSUME NEW i \in DOMAIN tree, NEW n \in Class, RenameClass(i, n) PROVE FALSE
  BY <1>3, <1>5 DEF RenameClass
<1>6. ASSUME NEW i \in DOMAIN tree, NEW x \in Individual, CreateIndividual(i, x) \/ ClassDragDrop(i, x)
      PROVE  FALSE
  <2>1. Retyped(ont', ont, x, {tree[i].cls})
    BY <1>6 DEF CreateIndividual, ClassDragDrop, Retyped
  <2>2. QED
    BY <2>1, RetypedSame
<1>7. ASSUME NEW i \in DOMAIN tree, RemoveClass(i) PROVE tree[i].cls = c
  BY <1>7 DEF RemoveClass, Deleted
<1>8. ASSUME NEW d \in Class, SearchFocus(d) PROVE FALSE
  BY <1>3, <1>8 DEF SearchFocus
<1>9. ASSUME NEW d \in Class, NEW s \in Class, CreateClass(d, s) PROVE FALSE
  <2>1. ont' = [ont EXCEPT !.live = ont.live \cup {d}, !.supers[d] = {s}]
    BY <1>9 DEF CreateClass
  <2>2. ont'.live = ont.live \cup {d}
    BY <2>1, <1>0
  <2>3. QED
    BY <2>2
<1>10. ASSUME NEW d \in Class, NEW s \in Class, AddSuperClass(d, s) \/ RemoveSuperClass(d, s) PROVE FALSE
  BY <1>3, <1>10 DEF AddSuperClass, RemoveSuperClass
<1>11. ASSUME NEW x \in Individual, RemoveIndividual(x) PROVE FALSE
  <2>1. Retyped(ont', ont, x, {})
    BY <1>11 DEF RemoveIndividual, Retyped
  <2>2. QED
    BY <2>1, RetypedSame
<1>12. ASSUME NEW x \in Individual, NEW y \in Individual, RenameIndividual(x, y) PROVE FALSE
  BY <1>3, <1>12 DEF RenameIndividual
<1>13. ASSUME NEW x \in Individual, NEW d \in Class, AddType(x, d) \/ RemoveType(x, d) PROVE FALSE
  BY <1>3, <1>13 DEF AddType, RemoveType
<1>14. QED
  <2>1. CASE \E i \in DOMAIN tree :
               \/ ClassesTreeClick(i) \/ OpenSubClassesList(i) \/ RemoveClass(i)
               \/ \E n \in Class : RenameClass(i, n)
               \/ \E x \in Individual : CreateIndividual(i, x) \/ ClassDragDrop(i, x)
    BY <2>1, <1>4, <1>5, <1>6, <1>7
  <2>2. CASE \/ \E d \in Class : SearchFocus(d)
             \/ \E d, s \in Class : CreateClass(d, s) \/ AddSuperClass(d, s) \/ RemoveSuperClass(d, s)
             \/ \E x \in Individual :
                  \/ RemoveIndividual(x) \/ \E y \in Individual : RenameIndividual(x, y)
                  \/ \E d \in Class : AddType(x, d) \/ RemoveType(x, d)
    BY <2>2, <1>8, <1>9, <1>10, <1>11, <1>12, <1>13
  <2>3. QED
    BY <2>1, <2>2, <1>1, <1>2 DEF ClassNext

LEMMA BareIs ==
  ASSUME InstancesInv, OrderlyInv, OnePlace, [ClassNext]_classVars, Only(PlainGestures)',
         NEW c \in ont.live \ ont'.live
  PROVE  BareClass(ont, c)
<1>1. ont \in Ontologies
  BY InvType
<1>2. PICK i \in DOMAIN tree : RemoveClass(i) /\ tree[i].cls = c
  BY <1>1, LiveIs
<1>3. May("remove") /\ tree[i].count = 0 /\ ~tree[i].kids
  BY <1>2 DEF RemoveClass, Removable
<1>4. done \subseteq PlainGestures
  BY <1>3 DEF May, Only, PlainGestures
<1>5. Settled /\ Told
  BY <1>4 DEF Settled, Told, Only
<1>6. Instances(ont, c) = {}
  <2>1. tree[i].count = NumInst(ont, c)
    BY <1>2, <1>5 DEF InstancesInv, Fair, Counted
  <2>2. QED
    BY <2>1, <1>1, <1>3, NumbersType
<1>7. DirectSubClasses(ont, c) = {}
  <2>1. Levels(ont, tree)
    BY <1>5, GivenOnce
  <2>2. QED
    BY <2>1, <1>2, <1>3 DEF Levels, LevelsBut, Twisties
<1>8. QED
  BY <1>6, <1>7 DEF BareClass

LEMMA ClassInvariants == ClassSpec => [](InstancesInv /\ OrderlyInv)
<1>1. ClassInit => InstancesInv /\ OrderlyInv
  BY InstancesStart, OrderlyStart
<1>2. InstancesInv /\ OrderlyInv /\ [ClassNext]_classVars => (InstancesInv /\ OrderlyInv)'
  BY InstancesInvNext, OrderlyInvNext
<1>3. QED
  BY <1>1, <1>2, PTL DEF ClassSpec

(* An open item of the tree of classes shows exactly the direct subclasses  *)
(* of its class, each once, although what is created and deleted is patched *)
(* in by createdSubClass and removedClass and never asked for again         *)
(* (classEventsFired.js).                                                   *)
THEOREM LevelsStayCurrent == ClassSpec => []TreeIsCurrent
<1>1. InstancesInv /\ OrderlyInv => TreeIsCurrent
  BY OrderlyTells
<1>2. QED
  BY <1>1, ClassInvariants, PTL

(* An item without a twisty stands for a class without subclasses: the      *)
(* child that checkAndCreate puts below a leaf makes it a container, and    *)
(* the last child that checkAndRemove takes away makes it a leaf.           *)
THEOREM LeavesStayLeaves == ClassSpec => []LeavesAreLeaves
<1>1. InstancesInv /\ OrderlyInv => LeavesAreLeaves
  BY OrderlyTells
<1>2. QED
  BY <1>1, ClassInvariants, PTL

(* What removeClass looks at before it asks for a deletion is what the      *)
(* server would answer: no class with a subclass or an instance goes.       *)
THEOREM OnlyBareClassesGo == ClassSpec => OnlyBareClassesAreDeletedPlainly
<1> DEFINE Step == Deletion /\ done' \subseteq PlainGestures /\ OnePlace
                     => \A c \in ont.live \ ont'.live : BareClass(ont, c)
<1>1. InstancesInv /\ OrderlyInv /\ [ClassNext]_classVars => [Step]_classVars
  <2>1. SUFFICES ASSUME InstancesInv, OrderlyInv, [ClassNext]_classVars, done' \subseteq PlainGestures,
                        OnePlace, NEW c \in ont.live \ ont'.live
                 PROVE  BareClass(ont, c)
    OBVIOUS
  <2>2. Only(PlainGestures)'
    BY <2>1 DEF Only, PlainGestures
  <2>3. QED
    BY <2>1, <2>2, BareIs
<1>2. QED
  BY <1>1, ClassInvariants, PTL DEF ClassSpec, OnlyBareClassesAreDeletedPlainly
=============================================================================
