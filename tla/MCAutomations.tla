--------------------------- MODULE MCAutomations ----------------------------
(* Groups and Automations for TLC.                                         *)
EXTENDS Automations, TLC

CONSTANTS n1, n2, x

\* Two nodes, one node twice, and a node the database does not know.
ThreeLists == {<<n1, n2>>, <<n1, n1>>, <<x>>}

Symmetry == Permutations(Users) \cup Permutations(GroupIds) \cup Permutations(Workers)
=============================================================================
