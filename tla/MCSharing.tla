----------------------------- MODULE MCSharing ------------------------------
(* Sharing for TLC: two names, one of which changes hands.  The accounts   *)
(* of one name, the nodes, workers and ids are interchangeable.            *)
EXTENDS Sharing, TLC

CONSTANTS Ann, Bob, BobAgain

TwoNames == [u \in Users |-> IF u = Ann THEN "ann" ELSE "bob"]

Symmetry == Permutations({Bob, BobAgain}) \cup Permutations(Nodes)
                \cup Permutations(Workers) \cup Permutations(Ids)
=============================================================================
