---------------------------- MODULE MCClassPanel ----------------------------
(* Instances of ClassPanel: an ontology that has owl:Thing, and other      *)
(* imported classes right below it.                                        *)
EXTENDS ClassPanel, TLC

CONSTANTS thing, first, second, third, x, y

BelowThing == [d \in ImportedClass |-> IF d = thing THEN {} ELSE {thing}]

(* Individuals are alike; classes are not: a level lists them in an order. *)
Symmetry == Permutations(Individual)
=============================================================================
