------------------------------ MODULE XPointer ------------------------------
(***************************************************************************)
(* The XPointer service of the Firefox extension                           *)
(* (components/nsXPointerService.js), which range annotations are stored   *)
(* with: the creator turns a selection into a pointer, the resolver turns  *)
(* a pointer back into a range of the page.                                 *)
(*                                                                         *)
(* A page is a tree.  lit and ann are what decorating a page adds to an    *)
(* element (module PageAnnotations) and are not looked at here.  A node is *)
(* named by its path: the positions, from 1, of its ancestors and of       *)
(* itself among their siblings; <<>> is the document, <<1>> the element    *)
(* html.  A pointer is the sequence of the lexemes it is written with:     *)
(* names, numbers and literals are not taken apart.  All pages are HTML    *)
(* documents, whose tag names are compared in lower case.                  *)
(***************************************************************************)
EXTENDS Naturals, Sequences, FiniteSets, FiniteSetsExt

NoId == "no id"

Text(cs) == [tag |-> "#text", kids |-> <<>>, text |-> cs]
Element(tag, id, ignore, kids) ==
  [tag |-> tag, kids |-> kids, id |-> id, ignore |-> ignore, lit |-> FALSE, ann |-> {}]
Document(html) == [tag |-> "#document", kids |-> <<html>>]

IsText(n) == n.tag = "#text"
IsElement(n) == n.tag \notin {"#text", "#document"}
IsMarkedIgnore(n) == IsElement(n) /\ n.ignore

WhiteSpace == " "
IsEmptyText(n) == \A i \in DOMAIN n.text : n.text[i] = WhiteSpace

(***************************************************************************)
(* The tree                                                                *)
(***************************************************************************)
RECURSIVE NodeAt(_, _), Walk(_, _, _)
NodeAt(n, p) == IF p = <<>> THEN n ELSE NodeAt(n.kids[p[1]], Tail(p))

(* The paths of the node at p and of all under it, from its k-th child on, *)
(* in document order.                                                       *)
Walk(n, p, k) ==
  IF k > Len(n.kids) THEN <<>>
  ELSE <<Append(p, k)>> \o Walk(n.kids[k], Append(p, k), 1) \o Walk(n, p, k + 1)

Parent(p) == SubSeq(p, 1, Len(p) - 1)
Index(p) == p[Len(p)]

TextNodes(page, p) ==
  LET text(q) == IsText(NodeAt(page, q))
  IN IF text(p) THEN <<p>> ELSE SelectSeq(Walk(NodeAt(page, p), p, 1), text)

(* What NodeToString delivers: the characters under a node, one by one.     *)
RECURSIVE Concatenated(_, _)
Concatenated(page, ts) ==
  IF ts = <<>> THEN <<>>
  ELSE [i \in 1..Len(NodeAt(page, ts[1]).text) |->
          [node |-> ts[1], at |-> i - 1, c |-> NodeAt(page, ts[1]).text[i]]]
       \o Concatenated(page, Tail(ts))
NodeToString(page, p) == Concatenated(page, TextNodes(page, p))

(* A boundary point, and the order of boundary points in the document.      *)
Point(p, offset) == [node |-> p, offset |-> offset]
BeforeNode(p) == Point(Parent(p), Index(p) - 1)
AfterNode(p) == Point(Parent(p), Index(p))

Key(b) == [i \in 1..Len(b.node) + 1 |->
             IF i <= Len(b.node) THEN 2 * b.node[i] ELSE 2 * b.offset + 1]
Before(b1, b2) ==
  LET k1 == Key(b1)
      k2 == Key(b2)
  IN \E i \in DOMAIN k1 \cap DOMAIN k2 :
       k1[i] < k2[i] /\ \A j \in 1..i - 1 : k1[j] = k2[j]

Span(s, e) == [start |-> s, end |-> e]
SelectNode(p) == Span(BeforeNode(p), AfterNode(p))

(* Moving one end past the other moves the other one too.                   *)
SetStart(r, b) == Span(b, IF Before(r.end, b) THEN b ELSE r.end)
SetEnd(r, b) == Span(IF Before(b, r.start) THEN b ELSE r.start, b)

(* The characters of the document inside a range, by their places in the   *)
(* text of the document.                                                    *)
Selected(page, r) ==
  LET s == NodeToString(page, <<>>)
  IN {k \in DOMAIN s : /\ ~ Before(Point(s[k].node, s[k].at), r.start)
                       /\ ~ Before(r.end, Point(s[k].node, s[k].at + 1))}

(***************************************************************************)
(* Lexemes and pointers                                                    *)
(***************************************************************************)
Mark(v) == [class |-> "mark", value |-> v, number |-> 0]
Name(v) == [class |-> "name", value |-> v, number |-> 0]
Literal(v) == [class |-> "literal", value |-> v, number |-> 0]
Number(n) == [class |-> "number", value |-> "", number |-> n]

Call(f, args) == <<Name(f), Mark("(")>> \o args \o <<Mark(")")>>
Step(tag, n) == <<Mark("/"), Name(tag), Mark("["), Number(n), Mark("]")>>
Wrap(xp) == Call("xpointer", xp)

(* The pointer of a call that threw an exception.                           *)
NoPointer == <<>>

(***************************************************************************)
(* The creator                                                             *)
(***************************************************************************)

(* Elements of a name under an element that is to be ignored.  The call    *)
(* for an ignored child does not say that the document is HTML, compares   *)
(* upper with lower case and finds nothing.                                 *)
CountChildTags(n, tag) ==
  Cardinality({i \in DOMAIN n.kids :
                 IsElement(n.kids[i]) /\ ~ n.kids[i].ignore /\ n.kids[i].tag = tag})

SiblingsNamed(n, tag, last) ==
  LET ignored == {i \in 1..last : IsMarkedIgnore(n.kids[i])}
      Inside(i) == CountChildTags(n.kids[i], tag)
  IN Cardinality({i \in (1..last) \ ignored : IsElement(n.kids[i]) /\ n.kids[i].tag = tag})
       + MapThenSumSet(Inside, ignored)

(* The way up: an ignored element gives no step, and the tag looked for     *)
(* stays the one of the last element that was not ignored.                  *)
RECURSIVE Steps(_, _, _)
Steps(page, p, tag) ==
  IF p = <<>> THEN <<>>
  ELSE LET n == NodeAt(page, p)
           parent == NodeAt(page, Parent(p))
           name == IF n.ignore THEN tag ELSE n.tag
       IN Steps(page, Parent(p), name)
            \o IF IsMarkedIgnore(parent) THEN <<>>
               ELSE Step(name, SiblingsNamed(parent, name, Index(p)))

CreateChildXPointer(page, p) ==
  LET n == NodeAt(page, p)
  IN IF IsText(n) THEN Steps(page, Parent(p), "undefined")
     ELSE IF n.id # NoId THEN Call("id", <<Literal(n.id)>>)
     ELSE Steps(page, p, "undefined")

(* Definitions named Mut... are plausible mistakes.  No action uses them:    *)
(* the runs are repeated with one of them in the place of the definition    *)
(* after it.                                                                 *)
MutRedundant(s, lo, hi) ==
  {k \in lo..hi : s[k].c = WhiteSpace /\ k > 1 /\ s[k - 1].c = WhiteSpace}

(* White space after white space, or at the very beginning, is not counted.*)
Redundant(s, lo, hi) ==
  {k \in lo..hi : s[k].c = WhiteSpace /\ (k = 1 \/ s[k - 1].c = WhiteSpace)}

(* The characters of a text node from lo to hi, counted in the text of the *)
(* element above: the last character is not looked at.                      *)
Counted(s, lo, hi) == hi - lo + 1 - Cardinality(Redundant(s, lo, hi))

CountedFrom(page, above, s, b, size) ==
  IF b > Len(s) THEN NoPointer
  ELSE Call("string-range", CreateChildXPointer(page, above)
              \o <<Mark(","), Literal(""), Mark(","), Number(Counted(s, 1, b - 1) + 1), Mark(","),
                   Number(IF size = 0 THEN 0 ELSE Counted(s, b, b + size - 2) + 1)>>)

CreateStringRange(page, above, node, lo, hi) ==
  LET s == NodeToString(page, above)
      places == {k \in DOMAIN s : s[k].node = node}
  IN IF places = {} THEN NoPointer
     ELSE CountedFrom(page, above, s, Min(places) + lo, hi - lo)

RECURSIVE ElementAbove(_, _)
ElementAbove(page, p) ==
  IF IsText(NodeAt(page, p)) \/ IsMarkedIgnore(NodeAt(page, p))
  THEN ElementAbove(page, Parent(p))
  ELSE p

(* The text nodes with something else than white space, in order.           *)
NonEmptyTexts(page) ==
  LET nonempty(q) == ~ IsEmptyText(NodeAt(page, q))
  IN SelectSeq(TextNodes(page, <<1>>), nonempty)

(* <<>> stands for no node: an exception, or null.                          *)
GetNextNeTextNode(page, p) ==
  LET after(q) == Before(BeforeNode(p), BeforeNode(q))
      ts == SelectSeq(NonEmptyTexts(page), after)
  IN IF ts = <<>> THEN <<>> ELSE ts[1]

GetPrevNeTextNode(page, p) ==
  LET before(q) == Before(BeforeNode(q), BeforeNode(p))
      ts == SelectSeq(NonEmptyTexts(page), before)
  IN IF ts = <<>> THEN <<>> ELSE ts[Len(ts)]

RECURSIVE GetNextUnmarkedNode(_, _), NextSibling(_, _), FirstLeaf(_, _)
NextSibling(page, p) ==
  IF p = <<>> THEN <<>>
  ELSE IF Index(p) < Len(NodeAt(page, Parent(p)).kids)
       THEN Append(Parent(p), Index(p) + 1)
  ELSE NextSibling(page, Parent(p))
FirstLeaf(page, p) ==
  IF NodeAt(page, p).kids = <<>> THEN p ELSE FirstLeaf(page, Append(p, 1))
GetNextUnmarkedNode(page, p) ==
  LET n == NodeAt(page, p)
      next == NextSibling(page, p)
  IN IF ~ (IsMarkedIgnore(n) \/ (IsText(n) /\ IsEmptyText(n))) THEN p
     ELSE IF next = <<>> THEN <<>>
     ELSE GetNextUnmarkedNode(page, FirstLeaf(page, next))

(* Where an end of the range that lies in or at an ignored element moves.   *)
StartOf(page, p) == IF IsText(NodeAt(page, p)) THEN Point(p, 0) ELSE BeforeNode(p)

(* The child an offset of an element refers to; <<>> when there is none.    *)
ChildAfter(page, b) ==
  IF b.offset < Len(NodeAt(page, b.node).kids) THEN Append(b.node, b.offset + 1) ELSE <<>>
ChildBefore(b) == IF b.offset > 0 THEN Append(b.node, b.offset) ELSE <<>>

InText(page, b) == IsText(NodeAt(page, b.node))

(* The node to move to from a boundary point whose child is given.          *)
Unmarked(page, b, child) ==
  IF InText(page, b) THEN <<>>
  ELSE IF IsMarkedIgnore(NodeAt(page, b.node)) THEN GetNextUnmarkedNode(page, b.node)
  ELSE IF IsMarkedIgnore(NodeAt(page, child)) THEN GetNextUnmarkedNode(page, child)
  ELSE <<>>

EndUnmarked(page, r) ==
  LET node == Unmarked(page, r.end, ChildBefore(r.end))
  IN IF node = <<>> THEN r ELSE SetEnd(r, StartOf(page, node))

StartUnmarked(page, r) ==
  LET node == Unmarked(page, r.start, ChildAfter(page, r.start))
  IN IF node = <<>> THEN r ELSE SetStart(r, StartOf(page, node))

(* isMarkedIgnore(null) throws.                                             *)
Dangling(page, b, child) ==
  ~ InText(page, b) /\ ~ IsMarkedIgnore(NodeAt(page, b.node)) /\ child = <<>>

(* A range within one element stands for the first child it contains.       *)
FirstChildPointer(page, b) ==
  LET child == ChildAfter(page, b)
  IN IF child = <<>> THEN NoPointer
     ELSE IF ~ IsText(NodeAt(page, child)) THEN CreateChildXPointer(page, child)
     ELSE CreateStringRange(page, b.node, child, 0, Len(NodeAt(page, child).text))

(* An anchor at the end of its text moves to the next text.                 *)
Anchored(page, b) ==
  IF InText(page, b) /\ b.offset = Len(NodeAt(page, b.node).text)
  THEN Point(GetNextNeTextNode(page, b.node), 0)
  ELSE b

Character(page, b) ==
  CreateStringRange(page, ElementAbove(page, b.node), b.node, b.offset, b.offset + 1)

EndOf(f, c) == IF c = NoPointer THEN c ELSE Call(f, c)

AnchorPointer(page, b) ==
  IF InText(page, b) THEN EndOf("start-point", Character(page, b))
  ELSE IF ChildAfter(page, b) = <<>> THEN NoPointer
  ELSE CreateChildXPointer(page, ChildAfter(page, b))

(* A focus at the beginning of its text moves to the end of the text before.*)
EndOfText(page, p) == Point(p, IF p = <<>> THEN 0 ELSE Len(NodeAt(page, p).text))

FocusCharacter(page, b) ==
  IF b.node = <<>> THEN NoPointer
  ELSE EndOf("end-point", Character(page, Point(b.node, b.offset - 1)))

FocusInText(page, b) ==
  FocusCharacter(page, IF b.offset = 0 THEN EndOfText(page, GetPrevNeTextNode(page, b.node)) ELSE b)

FocusAtElement(page, b) ==
  LET child == ChildBefore(b)
      size == Len(NodeAt(page, child).text)
  IN IF child = <<>> THEN NoPointer
     ELSE IF IsText(NodeAt(page, child))
          THEN CreateStringRange(page, b.node, child, size - 1, size)
     ELSE CreateChildXPointer(page, child)

FocusPointer(page, b) ==
  IF InText(page, b) THEN FocusInText(page, b) ELSE FocusAtElement(page, b)

(* The pointer of a range within one node, or from one node to another.     *)
WithinNode(page, anchor, focus) ==
  IF InText(page, anchor)
  THEN CreateStringRange(page, ElementAbove(page, anchor.node), anchor.node, anchor.offset, focus.offset)
  ELSE FirstChildPointer(page, anchor)

Joined(from, to) ==
  IF from = NoPointer \/ to = NoPointer THEN NoPointer
  ELSE Wrap(from \o <<Mark("/")>> \o Call("range-to", to))

PointerBetween(page, anchor, focus) ==
  IF anchor.node = <<>> THEN NoPointer
  ELSE IF anchor.node = focus.node THEN EndOf("xpointer", WithinNode(page, anchor, focus))
  ELSE Joined(AnchorPointer(page, anchor), FocusPointer(page, focus))

(* First the end of the range moves, then its start.                         *)
StartMoved(page, r) == PointerBetween(page, Anchored(page, r.start), r.end)

EndMoved(page, r) ==
  IF Dangling(page, r.start, ChildAfter(page, r.start)) THEN NoPointer
  ELSE StartMoved(page, StartUnmarked(page, r))

CreateXPointerFromRange(page, range) ==
  IF Dangling(page, range.end, ChildBefore(range.end)) THEN NoPointer
  ELSE EndMoved(page, EndUnmarked(page, range))

(* A selection is an anchor and a focus, in either order.                   *)
AnchorNode(page, b) == IF InText(page, b) THEN b.node ELSE ChildAfter(page, b)
FocusNode(page, b) == IF InText(page, b) THEN b.node ELSE ChildBefore(b)

CompareNodeOrder(p, q) == p = q \/ ~ Before(BeforeNode(q), BeforeNode(p))

Ordered(page, sel) ==
  IF \/ ~ CompareNodeOrder(AnchorNode(page, sel.anchor), FocusNode(page, sel.focus))
     \/ /\ sel.anchor.node = sel.focus.node
        /\ sel.anchor.offset > sel.focus.offset
  THEN Span(sel.focus, sel.anchor)
  ELSE Span(sel.anchor, sel.focus)

CreateXPointerFromSelection(page, sel) ==
  LET from == AnchorNode(page, sel.anchor)
      to == FocusNode(page, sel.focus)
      \* setEnd after setStart: an end before the start takes it along.
      r == Ordered(page, sel)
  IN IF sel.anchor = sel.focus THEN Wrap(Step("html", 1))
     ELSE IF from # to /\ (from = <<>> \/ to = <<>>) THEN NoPointer
     ELSE CreateXPointerFromRange(page, SetEnd(r, r.end))

(***************************************************************************)
(* The resolver: the lexer                                                 *)
(*                                                                         *)
(* A reading of a pointer: what is left of it, the last token, and the     *)
(* context, a sequence of locations.  Not ok: an exception was thrown.     *)
(***************************************************************************)
Location(type, at) == [type |-> type, at |-> at]

Token(tag, value) == [tag |-> tag, value |-> value, number |-> 0]
None == Token("none", "")

Root == <<Location("node", <<>>)>>

Reading(xp) == [rest |-> xp, token |-> None, context |-> Root, ok |-> TRUE]

Fail(rd) == [rd EXCEPT !.ok = FALSE]
With(rd, context) == [rd EXCEPT !.context = context]

Operators == {"/", "//", "*", "|", "+", "-", "=", "and", "or", "mod", "div"}
Fences == {"(", ")", "[", "]"}
NodeTypes == {"comment", "text", "processing-instruction", "node", "point", "range"}

(* After a token that is complete, a name or a * can only be an operator.   *)
MustBeAnOperator(rd) ==
  /\ rd.token.tag \notin {"none", "operator"}
  /\ ~ (rd.token.tag \in {"fence", "mark"} /\ rd.token.value \in {"@", "::", "(", "[", ","})

MarkToken(rd, v) ==
  IF v = "*" /\ ~ MustBeAnOperator(rd) THEN Token("name test", v)
  ELSE IF v \in Operators THEN Token("operator", v)
  ELSE IF v \in Fences THEN Token("fence", v)
  ELSE Token("mark", v)

(* Whether the k-th lexeme left is a mark.                                  *)
IsMark(rd, k, v) == k \in DOMAIN rd.rest /\ rd.rest[k].class = "mark" /\ rd.rest[k].value = v

NameToken(rd, v) ==
  IF MustBeAnOperator(rd) THEN (IF v \in Operators THEN Token("operator", v) ELSE None)
  ELSE IF IsMark(rd, 2, "(")
       THEN Token(IF v \in NodeTypes THEN "node type" ELSE "function name", v)
  ELSE IF IsMark(rd, 2, "::") THEN Token("axis name", v)
  ELSE Token("name test", v)

(* None at the end of the pointer, or when the lexer throws.                *)
NextToken(rd) ==
  IF rd.rest = <<>> THEN None
  ELSE LET x == rd.rest[1]
       IN CASE x.class = "mark" -> MarkToken(rd, x.value)
            [] x.class = "name" -> NameToken(rd, x.value)
            [] OTHER -> [tag |-> x.class, value |-> x.value, number |-> x.number]

IsThe(token, value) == token.tag \in {"fence", "operator", "mark"} /\ token.value = value
Peeks(rd, value) == rd.ok /\ IsThe(NextToken(rd), value)

Taken(rd, token) ==
  IF ~ rd.ok \/ token.tag = "none" THEN Fail(rd)
  ELSE [rd EXCEPT !.token = token, !.rest = Tail(rd.rest)]
GetToken(rd) == Taken(rd, NextToken(rd))

(* A token that must be there.                                               *)
Expect(rd, value) == IF Peeks(rd, value) THEN GetToken(rd) ELSE Fail(rd)
ExpectTag(rd, tag) == IF rd.ok /\ NextToken(rd).tag = tag THEN GetToken(rd) ELSE Fail(rd)

(* The first place, from k on, where the parentheses open are closed.       *)
RECURSIVE Closing(_, _, _)
Closing(rd, k, scope) ==
  IF k > Len(rd.rest) THEN 0
  ELSE LET now == IF IsMark(rd, k, "(") THEN scope + 1
                  ELSE IF IsMark(rd, k, ")") THEN scope - 1 ELSE scope
       IN IF now = 0 THEN k ELSE Closing(rd, k + 1, now)

(* What is left after the parentheses that open here.                        *)
PastParentheses(rd) ==
  LET k == Closing(rd, 1, 0)
  IN IF ~ Peeks(rd, "(") \/ k = 0 THEN Fail(rd)
     ELSE [rd EXCEPT !.rest = SubSeq(rd.rest, k + 1, Len(rd.rest))]

(* The data of a scheme is not read as tokens, that of a function is.        *)
MutSkipUnknownScheme(rd) == [PastParentheses(rd) EXCEPT !.token = Token("fence", ")")]
SkipUnknownScheme(rd) == [PastParentheses(rd) EXCEPT !.token = Token("fence", "(")]
ConsumeFunction(rd) == [PastParentheses(rd) EXCEPT !.token = Token("fence", ")")]

(***************************************************************************)
(* The resolver: the parser, which evaluates as it reads                   *)
(***************************************************************************)

(* Children, with those of an ignored element in its place.                  *)
RECURSIVE Spliced(_, _, _)
Spliced(page, p, k) ==
  LET n == NodeAt(page, p)
      child == Append(p, k)
  IN IF k > Len(n.kids) THEN <<>>
     ELSE (IF IsMarkedIgnore(n.kids[k]) THEN Spliced(page, child, 1) ELSE <<child>>)
            \o Spliced(page, p, k + 1)

GetChildrenByTagName(page, p, tag) ==
  LET named(q) == NodeAt(page, q).tag = tag
  IN SelectSeq(Spliced(page, p, 1), named)

GetUnmarkedChildren(page, p) ==
  LET n == NodeAt(page, p)
      unmarked(q) == IsElement(NodeAt(page, q)) /\ ~ IsMarkedIgnore(NodeAt(page, q))
  IN SelectSeq([i \in DOMAIN n.kids |-> Append(p, i)], unmarked)

(* The child looked for; when there is none, the number of those seen,       *)
(* which the caller takes for a node unless it is 0.                         *)
NthChildTag(page, context, tag, n) ==
  IF context = <<>> THEN <<>>
  ELSE LET hits == GetChildrenByTagName(page, context[1].at, tag)
       IN IF n \in DOMAIN hits THEN <<Location("node", hits[n])>>
          ELSE IF hits = <<>> THEN <<>> ELSE <<Location("count", Len(hits))>>

(* The first element with an id.                                             *)
GetElementById(page, id) ==
  LET all == Walk(page, <<>>, 1)
      hits == {i \in DOMAIN all : /\ IsElement(NodeAt(page, all[i]))
                                 /\ NodeAt(page, all[i]).id = id}
  IN IF hits = {} THEN <<>> ELSE <<Location("node", all[Min(hits)])>>

(* The range string-range(element, "", start, length) stands for.  White    *)
(* space at the beginning of the element is skipped, except when start and  *)
(* length are both 1; the white space after white space is not counted.      *)
StringStart(s, start, length) ==
  IF start = 1 /\ length = 1 THEN 1
  ELSE IF \A k \in DOMAIN s : s[k].c = WhiteSpace THEN 0
  ELSE Min({k \in DOMAIN s : s[k].c # WhiteSpace})

(* The place n counted characters after place k, 0 when there is none.      *)
Further(s, k, n) ==
  LET counted(hi) == {j \in k + 1..hi : s[j].c # WhiteSpace \/ s[j - 1].c # WhiteSpace}
      ends == {hi \in k..Len(s) : Cardinality(counted(hi)) = n}
  IN IF ends = {} THEN 0 ELSE Min(ends)

From(s, k, n) == IF k = 0 \/ n <= 1 THEN k ELSE Further(s, k, n - 1)

RangeBetween(s, b, e) ==
  IF e = 0 THEN <<>>
  ELSE <<Location("range", Span(Point(s[b].node, s[b].at), Point(s[e].node, s[e].at + 1)))>>

RangeFrom(s, b, length) == RangeBetween(s, b, From(s, b, length))

StringRange(page, p, start, length) ==
  LET s == NodeToString(page, p)
  IN IF s = <<>> THEN <<>> ELSE RangeFrom(s, From(s, StringStart(s, start, length), start), length)

(* A range from the start of a location to the end of another, or to its    *)
(* own start when there is no other.                                        *)
AsRange(location) ==
  IF location.type = "range" THEN location.at
  ELSE IF location.at = <<>> THEN SelectNode(<<1>>) ELSE SelectNode(location.at)

RangeTo(from, to) ==
  LET r == IF from.type = "node" THEN AsRange(from)
           ELSE Span(from.at.start, from.at.start)
  IN Location("range", IF to = <<>> THEN Span(r.start, r.start)
                       ELSE SetEnd(r, AsRange(to[1]).end))

IsPlace(location) == location.type \in {"node", "range"}

RECURSIVE ParseXPtrExpr(_, _), ParseRelativeLocationPath(_, _), ParsePredicates(_, _, _)

(* Below, what follows a part is an operator of the part that was read.     *)
RangeToFollows(rd, inner) ==
  LET close == Expect(inner, ")")
  IN IF ~ rd.ok THEN rd
     ELSE IF rd.context = <<>> THEN ConsumeFunction(rd)
     ELSE IF ~ close.ok \/ ~ IsPlace(rd.context[1]) THEN Fail(rd)
     ELSE IF inner.context # <<>> /\ ~ IsPlace(inner.context[1]) THEN Fail(rd)
     ELSE With(close, <<RangeTo(rd.context[1], inner.context)>>)

ParseRangeTo(page, rd) ==
  RangeToFollows(rd, ParseXPtrExpr(page, GetToken(With(Expect(rd, "("), <<>>))))

Argument(rd, tag) == ExpectTag(Expect(rd, ","), tag)

StringRangeFollows(rd, length, range) == IF range = <<>> THEN Fail(rd) ELSE With(length, range)

LengthFollows(page, rd, context, start, length) ==
  IF ~ length.ok THEN Fail(rd)
  ELSE IF context = <<>> THEN With(length, <<>>)
  ELSE IF context[1].type # "node" THEN Fail(rd)
  ELSE StringRangeFollows(rd, length, StringRange(page, context[1].at, start, length.token.number))

StartFollows(page, rd, start) ==
  LengthFollows(page, rd, start.context, start.token.number, Argument(start, "number"))

LiteralFollows(page, rd, literal) ==
  IF ~ literal.ok \/ literal.token.value # "" THEN Fail(rd)
  ELSE StartFollows(page, rd, Argument(literal, "number"))

ParseStringRangeFunction(page, rd) ==
  LiteralFollows(page, rd, Argument(ParseXPtrExpr(page, GetToken(rd)), "literal"))

BoundaryFollows(rd, inner, toStart) ==
  LET r == AsRange(inner.context[1])
      point == IF toStart THEN r.start ELSE r.end
  IN IF ~ inner.ok \/ inner.context = <<>> THEN inner
     ELSE IF ~ IsPlace(inner.context[1]) THEN Fail(rd)
     ELSE With(inner, <<Location("range", Span(point, point))>>)

ParseBoundaryFunction(page, rd, toStart) ==
  BoundaryFollows(rd, ParseXPtrExpr(page, GetToken(rd)), toStart)

ParseIdFunction(page, rd) ==
  LET id == ExpectTag(rd, "literal")
  IN IF id.ok THEN With(id, GetElementById(page, id.token.value)) ELSE id

(* The token is the name of the function.                                    *)
ParseFunctionCall(page, rd) ==
  LET f == rd.token.value
      open == Expect(rd, "(")
      body == CASE f = "id" -> ParseIdFunction(page, open)
                [] f = "string-range" -> ParseStringRangeFunction(page, open)
                [] f = "start-point" -> ParseBoundaryFunction(page, open, TRUE)
                [] f = "end-point" -> ParseBoundaryFunction(page, open, FALSE)
                [] OTHER -> Fail(open)
  IN IF open.ok THEN Expect(body, ")") ELSE open

(* What one predicate leaves of a context: a number looks for the child, so  *)
(* that a name without a number changes nothing.                             *)
Filtered(page, context, tag, result) ==
  IF result.context = <<>> THEN <<>>
  ELSE LET it == result.context[1]
       IN CASE it.type = "number"  -> NthChildTag(page, context, tag, it.at)
            [] it.type = "node"    -> result.context
            [] it.type = "range"   -> <<>>
            [] it.type = "literal" -> IF it.at = "" THEN <<>> ELSE context

PredicatesFollow(page, rd, tag, result) ==
  LET close == Expect(result, "]")
  IN IF ~ close.ok THEN close
     ELSE ParsePredicates(page, With(close, Filtered(page, rd.context, tag, result)), tag)

ParsePredicates(page, rd, tag) ==
  IF ~ Peeks(rd, "[") THEN rd
  ELSE PredicatesFollow(page, rd, tag, ParseXPtrExpr(page, GetToken(Expect(rd, "["))))

(* Axes, attributes and node types are not implemented.                      *)
ParseAxisTypeStep(page, rd) ==
  IF rd.token.tag = "name test" THEN ParsePredicates(page, rd, rd.token.value) ELSE Fail(rd)

(* A count taken for a node throws as soon as it is used.                    *)
ParseStep(page, rd) ==
  LET one == Len(rd.context) = 1 /\ rd.context[1].type = "node"
  IN CASE rd.token.tag = "mark" /\ rd.token.value = "." ->
            (IF one THEN rd ELSE With(rd, <<>>))
       [] rd.token.tag = "mark" /\ rd.token.value = ".." ->
            (IF one /\ rd.context[1].at # <<>>
             THEN With(rd, <<Location("node", Parent(rd.context[1].at))>>) ELSE With(rd, <<>>))
       [] rd.token.tag = "function name" ->
            (IF rd.token.value = "range-to" THEN ParseRangeTo(page, rd) ELSE Fail(rd))
       [] OTHER -> ParseAxisTypeStep(page, rd)

StepsFollow(page, step) ==
  IF Peeks(step, "/") THEN ParseRelativeLocationPath(page, GetToken(GetToken(step)))
  ELSE IF Peeks(step, "//") \/ step.rest = <<>> THEN Fail(step)
  ELSE step

ParseRelativeLocationPath(page, rd) ==
  IF rd.ok THEN StepsFollow(page, ParseStep(page, rd)) ELSE rd

TokenBeginsStep(t) ==
  \/ t.tag \in {"axis name", "node type", "name test"}
  \/ t.tag = "mark" /\ t.value \in {".", "..", "@"}
  \/ t.tag = "function name" /\ t.value = "range-to"

ParseAbsoluteLocationPath(page, rd) ==
  LET root == With(rd, Root)
  IN IF rd.token.value # "/" THEN Fail(rd)
     ELSE IF TokenBeginsStep(NextToken(rd)) THEN ParseRelativeLocationPath(page, GetToken(root))
     ELSE root

(* An expression that a path may follow.                                     *)
ParsePrimary(page, rd) ==
  LET t == rd.token
  IN CASE t.tag = "fence" /\ t.value = "(" -> Expect(ParseXPtrExpr(page, GetToken(rd)), ")")
       [] t.tag = "literal" -> With(rd, <<Location("literal", t.value)>>)
       [] t.tag = "number" -> With(rd, <<Location("number", t.number)>>)
       [] t.tag = "function name" -> ParseFunctionCall(page, rd)
       [] TokenBeginsStep(t) -> ParseRelativeLocationPath(page, rd)
       [] OTHER -> Fail(rd)

ParseXPtrExpr(page, rd) ==
  IF ~ rd.ok THEN rd
  ELSE IF rd.token.tag = "operator" THEN ParseAbsoluteLocationPath(page, rd)
  ELSE IF rd.token.tag = "function name" /\ rd.token.value = "range-to"
       THEN ParseRelativeLocationPath(page, rd)
  ELSE StepsFollow(page, ParsePrimary(page, rd))

(***************************************************************************)
(* The forms of a pointer                                                  *)
(***************************************************************************)

ParseChildSequence(page, rd) ==
  LET n == ExpectTag(rd, "number")
      at == n.context[1].at
      children == GetUnmarkedChildren(page, at)
      child == IF n.context = <<>> \/ n.token.number \notin DOMAIN children THEN <<>>
               ELSE <<Location("node", children[n.token.number])>>
  IN IF ~ n.ok THEN n ELSE With(n, child)

RECURSIVE ParseChildSequences(_, _)
ParseChildSequences(page, rd) ==
  LET child == ParseChildSequence(page, rd)
  IN IF Peeks(child, "/") THEN ParseChildSequences(page, GetToken(child)) ELSE child

(* A name alone is the id of an element, which a child sequence may follow.  *)
ParseBareNames(page, rd) ==
  LET element == With(rd, GetElementById(page, rd.token.value))
  IN IF Peeks(element, "/") THEN ParseChildSequences(page, GetToken(element)) ELSE element

(* One scheme: what it finds, nothing when it is not understood.             *)
OnlyPlaces(close) ==
  IF close.context # <<>> /\ IsPlace(close.context[1]) THEN close ELSE With(close, <<>>)

ParseScheme(page, rd) ==
  IF rd.token.value # "xpointer" THEN With(SkipUnknownScheme(rd), <<>>)
  ELSE OnlyPlaces(Expect(ParseXPtrExpr(page, GetToken(Expect(rd, "("))), ")"))

(* The last scheme that finds something decides.                             *)
RECURSIVE ParseFullXPointer(_, _, _)
SchemesFollow(page, part, found) ==
  LET best == IF part.context = <<>> THEN found ELSE part.context
  IN IF part.ok /\ part.rest # <<>>
     THEN ParseFullXPointer(page, With(GetToken(part), Root), best)
     ELSE With(part, best)

ParseFullXPointer(page, rd, found) ==
  SchemesFollow(page, ParseScheme(page, IF found = <<>> THEN rd ELSE With(rd, found)), found)

ParseXPointers(page, rd) ==
  CASE rd.token.tag = "name test" -> ParseBareNames(page, rd)
    [] rd.token.tag = "operator" /\ rd.token.value = "/" -> ParseChildSequences(page, rd)
    [] rd.token.tag = "function name" -> ParseFullXPointer(page, rd, <<>>)
    [] OTHER -> Fail(rd)

(* The range, as a sequence of one; an exception is the empty sequence.      *)
Resolved(result) ==
  IF /\ result.ok
     /\ result.rest = <<>>
     /\ result.context # <<>>
     /\ IsPlace(result.context[1])
  THEN <<AsRange(result.context[1])>>
  ELSE <<>>

ResolveXPointerToRange(page, xp) == Resolved(ParseXPointers(page, GetToken(Reading(xp))))
=============================================================================
