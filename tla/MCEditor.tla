------------------------------ MODULE MCEditor ------------------------------
(***************************************************************************)
(* Small instances of Editor for TLC: vocabularies of concepts with their  *)
(* scheme, with labels or in a cycle, and of the axioms, the               *)
(* characteristics and the values of properties.                            *)
(***************************************************************************)
EXTENDS Editor, TLC

CONSTANTS a, b, c, s, k, m, owlClass, i, po, q, free, pr, pt, pl, v, w, hi, ho, functional, en, it, none, any

MCResource == {a, b, c, s, k, m, owlClass, i, po, q, free, pr, pt, pl}
MCRole ==
  [n \in MCResource |->
     CASE n \in {a, b, c}  -> "concept"
       [] n = s            -> "conceptScheme"
       [] n \in {k, m, owlClass} -> "cls"
       [] n = i            -> "individual"
       [] n \in {po, q, pr} -> "objectProperty"
       [] n \in {pt, pl}   -> "datatypeProperty"
       [] OTHER            -> "none"]

MCRangeType == (pr :> "resource") @@ (pt :> "typedLiteral") @@ (pl :> "plainLiteral")
MCOrder == <<pt, pr, pl>>

F(x, r, y) == [s |-> x, rel |-> r, o |-> y, lang |-> none]
L(x, r, y, l) == [s |-> x, rel |-> r, o |-> y, lang |-> l]

MCImported == {F(k, "type", owlClass), F(m, "type", owlClass), F(m, "super", k), F(pr, "range", k)}

Concepts ==
  [names |-> {a, s},
   facts |-> {F(a, "super", b), F(b, "super", c), F(s, "top", a)}]
Labels ==
  [names |-> {a, free},
   facts |-> {F(a, "super", b), L(a, "label", hi, en), L(a, "label", ho, en)}]
Cycles ==
  [names |-> {a, b, free},
   facts |-> {F(a, "super", b), F(b, "super", a)}]
Axioms ==
  [names |-> {po, k, free},
   facts |-> {F(po, "domain", k), F(free, "domain", k), F(po, "super", q), F(k, "super", m)}]
Characteristics ==
  [names |-> {po, q, free},
   facts |-> {F(po, "range", k), F(po, "inverse", q), F(po, "facet", functional)}]
Values ==
  [names |-> {i, free},
   facts |-> {F(i, pr, k), F(i, pr, free), F(i, pt, v), F(i, pt, w)}]
Languages ==
  [names |-> {i, free},
   facts |-> {F(i, pr, free), L(i, pl, hi, en), L(i, pl, hi, it), F(i, "type", k)}]

(* A name that denotes nothing gets an axiom, and is then a value.          *)
Strays ==
  [names |-> {po, free},
   facts |-> {F(free, "domain", k), F(po, pr, free), F(free, pr, k)}]

MCVocabularies ==
  {Concepts, Labels, Cycles, Axioms, Characteristics, Values, Languages, Strays}
=============================================================================
