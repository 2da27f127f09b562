--------------------------- MODULE PageAnnotations ---------------------------
(***************************************************************************)
(* Range annotations on the pages shown in the browser: making one from    *)
(* the selection (annot_rangeannotation.js), viewing and deleting them     *)
(* (decorateContent of AnnotationCommons.jsm, annotation.js), and what     *)
(* rangy-cssclassapplier.js does to the page to highlight a range and to   *)
(* undo it.  Pointers are those of module XPointer: they are made from and *)
(* resolved on the page as it is shown, highlights included, because       *)
(* nothing marks a highlight as an element to be ignored.                  *)
(*                                                                         *)
(* Every tab shows the same document.  Highlighting never changes the text *)
(* of a page, so that a character is named by its place in the text.       *)
(***************************************************************************)
EXTENDS XPointer, SequencesExt

CONSTANTS
  Tabs,
  Pages,      \* The documents as they are loaded; one is chosen.
  Bound,      \* How many annotations are made (bounds the model).
  Selections(_)  \* What the user may select on a page: an anchor and a focus.

ASSUME TabsAssumption == Tabs # {}

VARIABLES
  bare,         \* The document as it is loaded.
  shown,        \* [Tabs -> page]: the trees in the tabs.
  watched,      \* [Tabs -> annotations the listener for deletions knows].
  annotations,  \* The annotations the server keeps.
  made,         \* The number of annotations made: each has an identifier of its own.
  untouched     \* Annotations were only made on pages as loaded, of sound selections.

vars == <<bare, shown, watched, annotations, made, untouched>>

(***************************************************************************)
(* Highlights                                                              *)
(***************************************************************************)
Inline == {"span", "b", "#text"}
IsHighlight(n) == IsElement(n) /\ n.lit

(* The number of characters under a node.                                   *)
RECURSIVE Size(_), SizeOfKids(_, _)
SizeOfKids(n, k) == IF k = 0 THEN 0 ELSE SizeOfKids(n, k - 1) + Size(n.kids[k])
Size(n) == IF IsText(n) THEN Len(n.text) ELSE SizeOfKids(n, Len(n.kids))

(* A text that starts after the first `from' characters of the document,   *)
(* split at the boundaries of the characters S: its pieces, without empty  *)
(* ones.                                                                    *)
SplitBoundaries(n, from, S) ==
  LET before == {i \in DOMAIN n.text : from + i < Min(S)}
      inside == {i \in DOMAIN n.text : from + i \in S}
      after == {i \in DOMAIN n.text : from + i > Max(S)}
      part(I) == IF I = {} THEN <<>> ELSE <<Text(SubSeq(n.text, Min(I), Max(I)))>>
  IN part(before) \o part(inside) \o part(after)

(* Every text of a node split, so that a piece lies inside S or outside.    *)
Split(n, from, S) ==
  LET pieces(k) == IF IsText(n.kids[k])
                   THEN SplitBoundaries(n.kids[k], from + SizeOfKids(n, k - 1), S)
                   ELSE <<n.kids[k]>>
  IN FlattenSeq([k \in DOMAIN n.kids |-> pieces(k)])

(* White space beside a block is not rendered, and not highlighted.         *)
IsUnrenderedWhiteSpaceNode(n, k) ==
  /\ IsEmptyText(n.kids[k])
  /\ \E i \in {k - 1, k + 1} \cap DOMAIN n.kids : n.kids[i].tag \notin Inline

CreateContainer(text, a) == [Element("span", NoId, FALSE, <<text>>) EXCEPT !.lit = TRUE, !.ann = {a}]

(* Apply the class to the characters S under n.  The only text of a span    *)
(* gives the class to that span, which does not know the annotation.        *)
RECURSIVE ApplyToRange(_, _, _, _)
ApplyToRange(n, from, S, a) ==
  LET m == [n EXCEPT !.kids = Split(n, from, S)]
      start(k) == from + SizeOfKids(m, k - 1)
      new(k) == /\ IsText(m.kids[k])
                /\ start(k) + 1 \in S
                /\ ~ IsHighlight(n)
                /\ ~ IsUnrenderedWhiteSpaceNode(m, k)
      kid(k) == IF ~ IsText(m.kids[k]) THEN ApplyToRange(m.kids[k], start(k), S, a)
                ELSE IF new(k) THEN CreateContainer(m.kids[k], a) ELSE m.kids[k]
  IN IF n.tag = "span" /\ Len(m.kids) = 1 /\ new(1) THEN [m EXCEPT !.lit = TRUE]
     ELSE [m EXCEPT !.kids = [k \in DOMAIN m.kids |-> kid(k)]]

(* A span with nothing but the class is replaced by what it contains: one  *)
(* of the page's own too.                                                   *)
IsRemovable(n) == n.id = NoId /\ ~ n.ignore

RemoveClass(n) ==
  IF IsRemovable(n) THEN n.kids ELSE <<[n EXCEPT !.lit = FALSE, !.ann = {}]>>

(* A highlight that lies partly in the range is split at its boundaries.   *)
(* The copies have no id, and do not know the annotation.                   *)
UndoHighlight(n, from, S) ==
  LET kids == Split(n, from, S)
      m == [n EXCEPT !.kids = kids]
      start(k) == from + SizeOfKids(m, k - 1)
      pieces(I) == IF I = {} THEN <<>> ELSE SubSeq(kids, Min(I), Max(I))
      before == pieces({k \in DOMAIN kids : start(k) + 1 < Min(S)})
      inside == pieces({k \in DOMAIN kids : start(k) + 1 \in S})
      after == pieces({k \in DOMAIN kids : start(k) + 1 > Max(S)})
      copy == [n EXCEPT !.id = NoId, !.ann = {}]
      part(e, ks) == IF ks = <<>> THEN <<>> ELSE <<[e EXCEPT !.kids = ks]>>
  IN IF inside = <<>> THEN <<m>>
     ELSE part(n, before)
            \o RemoveClass([(IF before = <<>> THEN n ELSE copy) EXCEPT !.kids = inside])
            \o part(copy, after)

RECURSIVE UndoToRange(_, _, _)
UndoToRange(n, from, S) ==
  LET start(k) == from + SizeOfKids(n, k - 1)
      kid(k) == IF IsText(n.kids[k]) THEN SplitBoundaries(n.kids[k], start(k), S)
                ELSE IF IsHighlight(n.kids[k]) THEN UndoHighlight(n.kids[k], start(k), S)
                ELSE <<UndoToRange(n.kids[k], start(k), S)>>
  IN [n EXCEPT !.kids = FlattenSeq([k \in DOMAIN n.kids |-> kid(k)])]

(***************************************************************************)
(* Decorating a page                                                       *)
(***************************************************************************)

(* The style of highlights, once, at the end of the body.                   *)
StyleElement == Element("style", "st-style-element", FALSE, <<Text(<<"c">>)>>)

HasStyle(page) == GetElementById(page, "st-style-element") # <<>>

Body(page) == Len(page.kids[1].kids)

AddStyle(page) ==
  IF HasStyle(page) THEN page
  ELSE [page EXCEPT !.kids[1].kids[Body(page)].kids = Append(@, StyleElement)]

Undone(page, S) == IF S = {} THEN page ELSE UndoToRange(page, 0, S)

RemoveHighlights(page) == Undone(page, Selected(page, SelectNode(<<1, Body(page)>>)))

(* The characters an annotation stands for on a page, as a sequence of one; *)
(* empty when the pointer does not resolve.                                  *)
CharactersOf(page, found) == IF found = <<>> THEN <<>> ELSE <<Selected(page, found[1])>>
Annotation2Ranges(page, a) == CharactersOf(page, ResolveXPointerToRange(page, a.range))

(* One annotation after the other; an exception ends the loop.              *)
Lit(page, S, a) == IF S = {} THEN page ELSE ApplyToRange(page, 0, S, a.id)

RECURSIVE HighlightAll(_, _)
HighlightFirst(page, todo, found) ==
  IF found = <<>> THEN page ELSE HighlightAll(Lit(page, found[1], todo[1]), Tail(todo))
HighlightAll(page, todo) ==
  IF todo = <<>> THEN page ELSE HighlightFirst(page, todo, Annotation2Ranges(page, todo[1]))

(* Definitions named Mut... are plausible mistakes.  No action uses them:    *)
(* the runs are repeated with one of them in the place of the definition    *)
(* after it.                                                                 *)
MutDecorated(page, order) == HighlightAll(RemoveHighlights(AddStyle(page)), Front(order))

Decorated(page, order) == HighlightAll(RemoveHighlights(AddStyle(page)), order)

(***************************************************************************)
(* Initial state and actions                                               *)
(***************************************************************************)
Init ==
  /\ bare \in Pages
  /\ shown = [t \in Tabs |-> bare]
  /\ watched = [t \in Tabs |-> {}]
  /\ annotations = {}
  /\ made = 0
  /\ untouched = TRUE

(* A selection that is read back as it was made: from one visible          *)
(* character to another, outside elements to be ignored; the last one is    *)
(* not the first after white space at the beginning of its element.         *)
SelectedBy(page, sel) == Selected(page, Ordered(page, sel))

Sound(page, sel) ==
  LET S == SelectedBy(page, sel)
      s == NodeToString(page, <<>>)
      opening(k) ==
        LET above == ElementAbove(page, s[k].node)
            text == {j \in DOMAIN s : IsPrefix(above, s[j].node)}
        IN \A j \in text : (j < k => s[j].c = WhiteSpace) /\ k # Min(text)
      ignored(p) == \E i \in 1..Len(p) : IsMarkedIgnore(NodeAt(page, SubSeq(p, 1, i)))
  IN /\ InText(page, sel.anchor) /\ InText(page, sel.focus)
     /\ ~ ignored(sel.anchor.node) /\ ~ ignored(sel.focus.node)
     /\ S # {} /\ s[Min(S)].c # WhiteSpace /\ s[Max(S)].c # WhiteSpace
     /\ ~ opening(Max(S))

(* A resource is dropped on the selection, and annotated.                   *)
FurtherAnn(t) ==
  LET page == shown[t] IN
  \E sel \in Selections(page) :
    LET xp == CreateXPointerFromSelection(page, sel)
    IN /\ made < Bound
       /\ xp # NoPointer
       /\ made' = made + 1
       /\ annotations' = annotations \cup
            {[id |-> made', range |-> xp, text |-> SelectedBy(page, sel)]}
       /\ untouched' = (untouched /\ page = bare /\ Sound(page, sel))
       /\ UNCHANGED <<bare, shown, watched>>

(* The server answers in any order.  Highlighting follows in a timeout of   *)
(* no delay, before anything else the user can do.                           *)
ViewAnnotationOnPage(t) ==
  \E order \in SetToSeqs(annotations) :
    /\ shown' = [shown EXCEPT ![t] = Decorated(@, order)]
    /\ watched' = [watched EXCEPT ![t] = annotations]
    /\ UNCHANGED <<bare, annotations, made, untouched>>

(* The listener of a tab for deletions.  One that throws is not called      *)
(* again.                                                                    *)
MutForgotten(page, found) == page
Forgotten(page, found) == IF found = <<>> THEN page ELSE Undone(page, found[1])

Listening(known, found) == IF found = <<>> THEN {} ELSE known

Deleted(page, known, a, found) ==
  IF a \in known THEN [page |-> Forgotten(page, found), known |-> Listening(known, found)]
  ELSE [page |-> page, known |-> known]

(* The annotation a highlight leads to.                                      *)
Clickable(page) ==
  UNION {NodeAt(page, p).ann : p \in {q \in ToSet(Walk(page, <<>>, 1)) : IsElement(NodeAt(page, q))}}

Notified(after) ==
  /\ shown' = [u \in Tabs |-> after[u].page]
  /\ watched' = [u \in Tabs |-> after[u].known]

DeleteAnnotation(t) ==
  \E a \in annotations :
    /\ a.id \in Clickable(shown[t])
    /\ annotations' = annotations \ {a}
    /\ Notified([u \in Tabs |->
                   Deleted(shown[u], watched[u], a, Annotation2Ranges(shown[u], a))])
    /\ UNCHANGED <<bare, made, untouched>>

Reload(t) ==
  /\ shown' = [shown EXCEPT ![t] = bare]
  /\ watched' = [watched EXCEPT ![t] = {}]
  /\ UNCHANGED <<bare, annotations, made, untouched>>

Next ==
  \E t \in Tabs :
    \/ FurtherAnn(t)
    \/ ViewAnnotationOnPage(t)
    \/ DeleteAnnotation(t)
    \/ Reload(t)

Spec == Init /\ [][Next]_vars

(***************************************************************************)
(* Properties                                                              *)
(***************************************************************************)
Characters(page) ==
  LET s == NodeToString(page, <<>>) IN [k \in DOMAIN s |-> s[k].c]

(* The characters shown with the colour of an annotation.                   *)
Highlighted(page) ==
  LET s == NodeToString(page, <<>>)
  IN {k \in DOMAIN s : \E i \in 0..Len(s[k].node) : IsHighlight(NodeAt(page, SubSeq(s[k].node, 1, i)))}

Visible(page, S) ==
  LET s == NodeToString(page, <<>>) IN {k \in S : s[k].c # WhiteSpace}

(* The tags a page can lose or gain.                                         *)
HasSpans(page) ==
  \E p \in ToSet(Walk(page, <<>>, 1)) : NodeAt(page, p).tag = "span"

(* Every tab shows the text of the document, followed by nothing but the   *)
(* style, whatever was highlighted and undone in it; annotations have names *)
(* of their own.                                                            *)
TypeOK ==
  /\ \A t \in Tabs : Characters(shown[t]) \in {Characters(bare), Characters(AddStyle(bare))}
  /\ \A a, b \in annotations : a.id = b.id => a = b
  /\ \A a \in annotations : a.id \in 1..made

(* On a document without spans, an annotation made before anything was      *)
(* highlighted stands for the text that was selected, on every later        *)
(* decoration of the page (CreateXPointerFromRange against                  *)
(* resolveXPointerToRange, with white space left aside).                    *)
Untroubled == untouched /\ ~ HasSpans(bare)

StandFor(page, found, S) ==
  found # <<>> /\ Visible(page, found[1]) = Visible(page, S)

PointersResolve ==
  Untroubled =>
    \A t \in Tabs, a \in annotations :
      StandFor(shown[t], Annotation2Ranges(shown[t], a), a.text)

(* What is highlighted belongs to an annotation that was not deleted in     *)
(* sight of the page.                                                        *)
OnlyAnnotatedTextIsShown ==
  Untroubled =>
    \A t \in Tabs :
      Visible(shown[t], Highlighted(shown[t])) \subseteq UNION {a.text : a \in watched[t] \cap annotations}

PagesAreSound == TypeOK /\ OnlyAnnotatedTextIsShown

(* After viewing, every annotation of such a document is highlighted.       *)
EveryAnnotationIsShown ==
  \A t \in Tabs :
    (watched'[t] = annotations /\ shown'[t] # shown[t] /\ UNCHANGED annotations) =>
      \A a \in annotations : Visible(bare, a.text) \subseteq Highlighted(shown'[t])

AnnotationsAreShown == [][Untroubled => EveryAnnotationIsShown]_vars

(* The forms of pointers agree on the elements of the pages shown: an id    *)
(* alone, id(), the path, and an xpointer after a scheme that is not known. *)
Elements(page) ==
  {p \in ToSet(Walk(page, <<>>, 1)) :
     /\ IsElement(NodeAt(page, p))
     /\ \A i \in 1..Len(p) : ~ IsMarkedIgnore(NodeAt(page, SubSeq(p, 1, i)))}

ChildSequence(page, p) ==
  FlattenSeq([i \in DOMAIN p |->
    LET unmarked == GetUnmarkedChildren(page, SubSeq(p, 1, i - 1))
        hits == {k \in DOMAIN unmarked : unmarked[k] = SubSeq(p, 1, i)}
    IN <<Mark("/"), Number(IF hits = {} THEN 0 ELSE Min(hits))>>])

Forms(page, p) ==
  LET xp == CreateChildXPointer(page, p)
      id == NodeAt(page, p).id
  IN {Wrap(xp), Call("element", <<Name("x")>>) \o Wrap(xp), ChildSequence(page, p)}
       \cup (IF id = NoId THEN {} ELSE {<<Name(id)>>})

FormsAgree ==
  \A t \in Tabs : \A p \in Elements(shown[t]) : \A xp \in Forms(shown[t], p) :
    ResolveXPointerToRange(shown[t], xp) = <<SelectNode(p)>>
=============================================================================
