------------------------------ MODULE MCXmlNode ------------------------------
(* Trees of a few nodes.                                                   *)
EXTENDS XmlNode, TLC

Symmetry == Permutations(Ids) \cup Permutations(Handles)
=============================================================================
