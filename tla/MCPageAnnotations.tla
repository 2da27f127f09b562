------------------------- MODULE MCPageAnnotations -------------------------
(* Small documents, and the selections of a user on them.                   *)
EXTENDS PageAnnotations, TLC

Html(body) == Document(Element("html", NoId, FALSE,
                <<Element("head", NoId, FALSE, <<>>), Element("body", NoId, FALSE, body)>>))
P(kids) == Element("p", NoId, FALSE, kids)

(* Two paragraphs; the second with an id, white space and a nested element. *)
Paragraphs ==
  Html(<<P(<<Text(<<"a", "b">>)>>),
         Element("p", "x", FALSE, <<Text(<<" ", "c">>),
                                    Element("b", NoId, FALSE, <<Text(<<"d">>)>>)>>)>>)

(* A box that is to be ignored, with paragraphs in it and after it.         *)
Ignoring ==
  Html(<<Element("div", NoId, TRUE, <<P(<<Text(<<"a">>)>>)>>),
         P(<<Text(<<"d", " ", "e">>)>>)>>)

MCPages == {Paragraphs, Ignoring}

(* From a visible character to a visible one; backwards, when the selection *)
(* begins with the text.                                                     *)
Places(page) ==
  {[node |-> c.node, at |-> c.at] : c \in {d \in ToSet(NodeToString(page, <<1, 2>>)) :
     d.c # WhiteSpace /\ NodeAt(page, Parent(d.node)).tag # "style"}}

MCSelections(page) ==
  LET forward == {[anchor |-> Point(a.node, a.at), focus |-> Point(b.node, b.at + 1)] :
                    a, b \in Places(page)}
      from(s) == [anchor |-> s.focus, focus |-> s.anchor]
      ordered == {s \in forward : Before(s.anchor, s.focus)}
  IN ordered \cup {from(s) : s \in {r \in ordered : \A a \in Places(page) : ~ Before(Point(a.node, a.at), r.anchor)}}

MCSymmetry == Permutations(Tabs)
=============================================================================
