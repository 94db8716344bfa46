-------------------------- MODULE MCRemoteControl ---------------------------
(* RemoteControl for TLC: a switch with a power and a level param.         *)
EXTENDS RemoteControl, TLC

Power(v) == [switch |-> Dict([power |-> v])]
Level(v) == [switch |-> Dict([level |-> v])]

\* A value of one param, another param, and a report that is no dict.
ThreePayloads == {Power(1), Level(1), [switch |-> Leaf(1)]}

\* A command with a dict, which the device takes over, and a value it does not.
MixedCommand == {[switch |-> Dict([power |-> 2]), lamp |-> Leaf(2)]}

TwoConfigs == {[version |-> 1, payload |-> "a"], [version |-> 2, payload |-> "b"]}
=============================================================================
