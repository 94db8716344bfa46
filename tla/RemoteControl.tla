--------------------------- MODULE RemoteControl ----------------------------
(***************************************************************************)
(* The round trip of a param: a phone PUTs it, the backend publishes it to *)
(* the device, the device applies it and reports its state, the ingestor   *)
(* merges the report into the shadow the phones read.  This composes the   *)
(* publisher and the device's main loop with NodeShadow.                   *)
(***************************************************************************)
EXTENDS NodeShadow

CONSTANTS
    Phones,       \* users, each with one PUT at a time
    Commands,     \* params documents phones send
    MaxCommands   \* bound on commands at the broker

ASSUME RemoteAssumption ==
    /\ MaxCommands \in Nat
    /\ \A c \in Commands : IsDoc(c)

VARIABLES
    access,    \* pairs <<phone, node>> the access rule admits (Sharing)
    put,       \* the PUT each phone has under way
    downlink,  \* per node: commands the broker holds for it, oldest first
    actual     \* per node: the state the device is in

remoteVars == <<access, put, downlink, actual>>

rvars == <<vars, remoteVars>>

-----------------------------------------------------------------------------

RemoteInit ==
    /\ Init
    /\ access \in SUBSET (Phones \X Nodes)
    /\ put = [f \in Phones |-> Idle]
    /\ downlink = [n \in Nodes |-> <<>>]
    /\ actual = [n \in Nodes |-> NoParams]

\* PUT /user/nodes/params: require_access, before anything else.
PutParams(f, n, c) ==
    /\ put[f].pc = "idle"
    /\ <<f, n>> \in access
    /\ put' = [put EXCEPT ![f] = [pc |-> "publish", node |-> n, body |-> c]]
    /\ UNCHANGED <<vars, access, downlink, actual>>

Bug_PublishParams(f) ==
    LET n == put[f].node IN
    /\ put[f].pc = "publish"
    /\ Len(downlink[n]) < MaxCommands
    /\ downlink' = [downlink EXCEPT ![n] = Append(@, put[f].body)]
    /\ put' = [put EXCEPT ![f] = Idle]
    /\ shadow' = IF n \in DOMAIN shadow
                 THEN [shadow EXCEPT ![n] = MergeParams(@, put[f].body)] ELSE shadow
    /\ UNCHANGED <<nodes, configs, inbox, next, req, reported, reconnects, access, actual>>

\* publish_node_topic reaches the broker, on a connection of its own.  The
\* shadow is the device's: the route leaves it alone.
PublishParams(f) ==
    LET n == put[f].node IN
    /\ put[f].pc = "publish"
    /\ Len(downlink[n]) < MaxCommands
    /\ downlink' = [downlink EXCEPT ![n] = Append(@, put[f].body)]
    /\ put' = [put EXCEPT ![f] = Idle]
    /\ UNCHANGED <<vars, access, actual>>

\* The broker cannot be reached: the error is logged, and the phone is told
\* the params were published.
PublishFails(f) ==
    /\ put[f].pc = "publish"
    /\ put' = [put EXCEPT ![f] = Idle]
    /\ UNCHANGED <<vars, access, downlink, actual>>

\* GET /user/nodes/params, for a phone with access.
get_user_node_params(n) == IF n \in DOMAIN shadow THEN shadow[n] ELSE NoParams

\* Access is granted or revoked (Sharing, NodeMapping).
ChangeAccess(f, n) ==
    /\ access' = IF <<f, n>> \in access THEN access \ {<<f, n>>} ELSE access \cup {<<f, n>>}
    /\ UNCHANGED <<vars, put, downlink, actual>>

-----------------------------------------------------------------------------
(* The device.                                                             *)

\* A device takes over the dicts of a command and nothing else.
Obeyed(state, c) ==
    MergeParams(state, [d \in {e \in DOMAIN c : c[e].isDict} |->
        IF d \in DOMAIN state /\ ~state[d].isDict THEN state[d] ELSE c[d]])

\* It applies the oldest command and reports its whole state; QoS 1: the
\* command may come once more.
ApplyCommand(n, g, again) ==
    LET new == Obeyed(actual[n], Head(downlink[n])) IN
    /\ downlink[n] # <<>>
    /\ actual' = [actual EXCEPT ![n] = new]
    /\ downlink' = IF again THEN downlink ELSE [downlink EXCEPT ![n] = Tail(@)]
    /\ DevicePublish([node |-> n, topic |-> "params", body |-> new], g)
    /\ UNCHANGED <<access, put>>

\* Something changes at the device itself: it reports what changed.
ChangeLocally(n, doc, g) ==
    /\ actual' = [actual EXCEPT ![n] = MergeParams(@, doc)]
    /\ DevicePublish([node |-> n, topic |-> "params", body |-> doc], g)
    /\ UNCHANGED <<access, put, downlink>>

-----------------------------------------------------------------------------

RemoteNext ==
    \/ \E f \in Phones, n \in Nodes, c \in Commands : PutParams(f, n, c)
    \/ \E f \in Phones : PublishParams(f) \/ PublishFails(f)
    \/ \E f \in Phones, n \in Nodes : ChangeAccess(f, n)
    \/ \E n \in Nodes, g \in Ingestors, again \in BOOLEAN : ApplyCommand(n, g, again)
    \/ \E n \in Nodes, doc \in Payloads, g \in Ingestors : ChangeLocally(n, doc, g)
    \/ /\ \/ \E n \in Nodes, c \in Configs, g \in Ingestors :
                DevicePublish([node |-> n, topic |-> "config", body |-> c], g)
          \/ \E g \in Ingestors : Session(g)
       /\ UNCHANGED remoteVars

\* An ingestor keeps consuming; nothing is asked of phones and devices.
RemoteSpec ==
    /\ RemoteInit /\ [][RemoteNext]_rvars
    /\ \A g \in Ingestors : WF_rvars(Consume(g) /\ UNCHANGED remoteVars)

-----------------------------------------------------------------------------
(* Properties.                                                             *)

\* Once the ingestor has handled what the device reported, the shadow phones
\* read is the state the device is in, param by param: commands that were
\* lost, repeated, or overtaken by a change at the device do not show, and
\* commands that were obeyed do.
AppSeesDevice ==
    Quiet => \A n \in Nodes :
        LET shown == get_user_node_params(n) IN
        /\ DOMAIN shown = DOMAIN actual[n]
        /\ \A d \in DOMAIN shown :
              /\ shown[d].isDict = actual[n][d].isDict
              /\ \A p \in ParamNames : At(shown, d, p) = At(actual[n], d, p)
=============================================================================
