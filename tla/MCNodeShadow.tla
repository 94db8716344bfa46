---------------------------- MODULE MCNodeShadow ----------------------------
(* NodeShadow for TLC: a switch with a power and a level param.            *)
EXTENDS NodeShadow, TLC

Power(v) == [switch |-> Dict([power |-> v])]
Level(v) == [switch |-> Dict([level |-> v])]

TwoPayloads == {Power(1), Level(1)}

OneConfig == {[version |-> 1, payload |-> "a"]}

Symmetry == Permutations(Nodes) \cup Permutations(Ingestors)
=============================================================================
