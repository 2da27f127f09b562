-------------------------- MODULE MCMetadataPanel --------------------------
(***************************************************************************)
(* An instance of MetadataPanel: m is the namespace of an ontology and n   *)
(* another one; p is guessed for both, q is a reserved prefix.            *)
(***************************************************************************)
EXTENDS MetadataPanel

CONSTANTS m, n, p, q, u, v

MCGuess == [x \in Namespace |-> p]
(* A bound: the trees are used with the project that writes every change,   *)
(* the boxes with the other one, and a URI that nobody changes is u.         *)
OneProjectPerPart ==
  /\ loaded # NoProject => (part = "trees" <=> loaded \in Continuous)
  /\ \A project \in Projects : (part = "trees" \/ project \in Continuous) => uris[project].base.uri = u

BothParts == {"boxes", "trees"}
WriteFails == {"write"}
=============================================================================
