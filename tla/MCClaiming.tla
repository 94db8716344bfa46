----------------------------- MODULE MCClaiming -----------------------------
(* Claiming for TLC: a MAC in two spellings, so that both yield one node.  *)
EXTENDS Claiming

MCNodeIdOf == [m \in Macs |-> "n1"]
=============================================================================
