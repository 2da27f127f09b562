----------------------------- MODULE MCSession -----------------------------
(***************************************************************************)
(* A small instance of Session for TLC: two projects, one of each sort.    *)
(***************************************************************************)
EXTENDS Session, TLC

MCSort == {[kind |-> "saveToStore", onto |-> "SKOS"], [kind |-> "continuosEditing", onto |-> "OWL"]}

MCSymmetry == Permutations(Name)
=============================================================================
