----------------------------- MODULE Ownership ------------------------------
(***************************************************************************)
(* What the mapping flows promise: a user becomes bound to a node only     *)
(* after the pair has been proved, and is unbound only by its own request  *)
(* or together with its account.                                           *)
(* How a proof is given (secret key over MQTT, or challenge-response) and  *)
(* how many requests work on it at once is left to NodeMapping.            *)
(***************************************************************************)
CONSTANTS Users, Nodes

VARIABLES
    proved,  \* pairs <<user, node>> that have been proved
    bound    \* pairs <<user, node>> that are bound

Pairs == Users \X Nodes

OwnershipInit == proved = {} /\ bound = {}

\* One publish may prove the pairs of several requests at once.
Prove(P) == proved' = proved \cup P /\ UNCHANGED bound

Bind(p) == p \in proved /\ bound' = bound \cup {p} /\ UNCHANGED proved

Unbind(p) == bound' = bound \ {p} /\ UNCHANGED proved

\* A user is deleted, with every claim on a node.
Forget(u) ==
    /\ proved' = {p \in proved : p[1] # u}
    /\ bound' = {p \in bound : p[1] # u}

OwnershipNext ==
    \/ \E P \in SUBSET Pairs : Prove(P)
    \/ \E p \in Pairs : Bind(p) \/ Unbind(p)
    \/ \E u \in Users : Forget(u)

OwnershipSpec == OwnershipInit /\ [][OwnershipNext]_<<proved, bound>>
=============================================================================
