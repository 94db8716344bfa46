------------------------------- MODULE Broker -------------------------------
(***************************************************************************)
(* What the broker's webhooks decide and record: who may connect, what a   *)
(* client may publish and subscribe to, and whether a node is online.  The *)
(* broker itself (VerneMQ) is external: it asks before it admits a client, *)
(* and it announces a client that came or went, in order and one call at a *)
(* time per client, going on when a call times out.  The calls are served  *)
(* by concurrent handlers of several replicas.  A definition named Bug_... *)
(* is a mutated form of the one that follows it; no specification uses it. *)
(***************************************************************************)
EXTENDS Naturals, Sequences, FiniteSets

CONSTANTS
    Ids,         \* node ids, the CN of a device: non-empty words, no "/"
    Internal,    \* mqtt_internal_user, the user name of the backend
    NodeLevel,   \* the level "node"
    Plus, Hash,  \* the wildcards of a topic filter
    Empty,       \* the empty level
    Topics,      \* what a client may try to publish to: lists of levels
    Filters,     \* what it may try to subscribe to
    Handlers,    \* webhook requests in progress at once, over all replicas
    MaxEvents    \* bound: announcements of a client the broker has waiting

Clients == Ids \cup {Internal}

ASSUME BrokerAssumption ==
    /\ Internal \notin Ids
    /\ Ids \cap {Plus, Hash, Empty} = {}
    /\ MaxEvents \in Nat
    /\ \A t \in Topics \cup Filters : Len(t) \in Nat

VARIABLES
    active,    \* node ids with a certificate that is not revoked
    online,    \* nodes.online
    session,   \* the broker's connection of each client
    events,    \* the announcements the broker has yet to make
    call,      \* the webhook request each handler is serving
    settled    \* history: the last announcement of the client was handled
               \* while no other was running

vars == <<active, online, session, events, call, settled>>

Idle == [pc |-> "idle"]

\* awaited: the broker has not given up on the answer.
Call ==
    {Idle} \cup [pc : {"mark"}, client : Clients,
                 kind : {"online", "offline"}, awaited : BOOLEAN]

TypeOK ==
    /\ active \subseteq Ids
    /\ online \in [Ids -> BOOLEAN]
    /\ session \in [Clients -> {"none", "admitted", "up"}]
    /\ events \in [Clients -> Seq({"online", "offline"})]
    /\ call \in [Handlers -> Call]
    /\ settled \in [Clients -> BOOLEAN]

Init ==
    /\ active = {}
    /\ online = [n \in Ids |-> FALSE]
    /\ session = [c \in Clients |-> "none"]
    /\ events = [c \in Clients |-> <<>>]
    /\ call = [h \in Handlers |-> Idle]
    /\ settled = [c \in Clients |-> TRUE]

-----------------------------------------------------------------------------
(* The decisions.  They read at most the certificates and write nothing.   *)

is_backend(c) == c = Internal

authorise_register(c) == is_backend(c) \/ c \in active

\* "node/<cn>" without the last slash: longer ids start with shorter ones.
Bug_allowed_topic(c, t) ==
    /\ Len(t) >= 2
    /\ t[1] = NodeLevel
    /\ Len(c) <= Len(t[2])
    /\ SubSeq(t[2], 1, Len(c)) = c

\* The string starts with "node/<cn>/": two levels and at least one more.
allowed_topic(c, t) ==
    /\ Len(t) >= 3
    /\ t[1] = NodeLevel
    /\ t[2] = c

authorise_publish(c, t) == is_backend(c) \/ allowed_topic(c, t)

Bug_authorise_subscribe(c, F) ==
    is_backend(c) \/ F = {} \/ \E f \in F : allowed_topic(c, f)

authorise_subscribe(c, F) ==
    is_backend(c) \/ \A f \in F : allowed_topic(c, f)

\* The ingestor's reading of a topic: the node id, the suffix not empty.
Routable(t) ==
    /\ Len(t) >= 3
    /\ t[1] = NodeLevel
    /\ t[2] # Empty
    /\ ~(Len(t) = 3 /\ t[3] = Empty)

split_topic(t) == t[2]

\* MQTT's matching of a filter against a topic.
Matches(f, t) ==
    LET open == f # <<>> /\ f[Len(f)] = Hash
        k    == IF open THEN Len(f) - 1 ELSE Len(f)
    IN  /\ IF open THEN Len(t) >= k ELSE Len(t) = k
        /\ \A j \in 1..k : f[j] \in {t[j], Plus}

-----------------------------------------------------------------------------
(* Certificates: a claim issues one; revoking is left to the operator.     *)

Issue(n) ==
    /\ active' = active \cup {n}
    /\ UNCHANGED <<online, session, events, call, settled>>

Revoke(n) ==
    /\ active' = active \ {n}
    /\ UNCHANGED <<online, session, events, call, settled>>

-----------------------------------------------------------------------------
(* The broker.                                                             *)

Register(c) ==
    /\ session[c] = "none"
    /\ authorise_register(c)
    /\ session' = [session EXCEPT ![c] = "admitted"]
    /\ UNCHANGED <<active, online, events, call, settled>>

Announce(c, kind) ==
    /\ Len(events[c]) < MaxEvents
    /\ events' = [events EXCEPT ![c] = Append(@, kind)]

Connect(c) ==
    /\ session[c] = "admitted"
    /\ session' = [session EXCEPT ![c] = "up"]
    /\ Announce(c, "online")
    /\ UNCHANGED <<active, online, call, settled>>

Disconnect(c) ==
    /\ session[c] = "up"
    /\ session' = [session EXCEPT ![c] = "none"]
    /\ Announce(c, "offline")
    /\ UNCHANGED <<active, online, call, settled>>

Serving(c) == {h \in Handlers : call[h].pc = "mark" /\ call[h].client = c}

\* The next announcement, once the one before was answered or given up.
Hook(c, h) ==
    /\ events[c] # <<>>
    /\ \A g \in Serving(c) : ~call[g].awaited
    /\ call[h].pc = "idle"
    /\ call' = [call EXCEPT ![h] = [pc |-> "mark", client |-> c,
                                    kind |-> Head(events[c]),
                                    awaited |-> TRUE]]
    /\ events' = [events EXCEPT ![c] = Tail(@)]
    /\ UNCHANGED <<active, online, session, settled>>

\* The broker's pool_timeout: the request keeps running.
Timeout(h) ==
    /\ call[h].pc = "mark"
    /\ call[h].awaited
    /\ call' = [call EXCEPT ![h].awaited = FALSE]
    /\ settled' = [settled EXCEPT ![call[h].client] = FALSE]
    /\ UNCHANGED <<active, online, session, events>>

-----------------------------------------------------------------------------
(* The handlers of on_client_online and on_client_offline, and what users  *)
(* see of them.                                                            *)

\* connectivity.connected in the answer of GET /user/nodes/status.
get_user_node_status(n) == online[n]

Bug_OnlyOnline(c, kind) ==
    IF is_backend(c) THEN online
    ELSE [online EXCEPT ![c] = @ \/ kind = "online"]

\* mark_online and mark_offline: one UPDATE by node id.
Marked(c, kind) ==
    IF is_backend(c) THEN online
    ELSE [online EXCEPT ![c] = (kind = "online")]

Mark(h) ==
    /\ call[h].pc = "mark"
    /\ LET c == call[h].client
       IN  /\ online' = Marked(c, call[h].kind)
           /\ settled' = [settled EXCEPT ![c] =
                            call[h].awaited /\ Serving(c) = {h}]
    /\ call' = [call EXCEPT ![h] = Idle]
    /\ UNCHANGED <<active, session, events>>

\* The database or the replica fails.
Fail(h) ==
    /\ call[h].pc = "mark"
    /\ settled' = [settled EXCEPT ![call[h].client] = FALSE]
    /\ call' = [call EXCEPT ![h] = Idle]
    /\ UNCHANGED <<active, online, session, events>>

-----------------------------------------------------------------------------

Next ==
    \/ \E n \in Ids : Issue(n) \/ Revoke(n)
    \/ \E c \in Clients :
          \/ Register(c) \/ Connect(c) \/ Disconnect(c)
          \/ \E h \in Handlers : Hook(c, h)
    \/ \E h \in Handlers : Timeout(h) \/ Mark(h) \/ Fail(h)

Spec == Init /\ [][Next]_vars

-----------------------------------------------------------------------------
(* Properties.                                                             *)

\* Once a node's announcements are all handled, it is recorded online exactly
\* if it is connected, provided the last of them was answered in time with no
\* abandoned one still running: one good announcement repairs what earlier
\* failures left behind (mark_online and mark_offline, vmq_authz.py).
PresenceSettles ==
    \A n \in Ids :
        (settled[n] /\ events[n] = <<>> /\ Serving(n) = {})
            => (get_user_node_status(n) <=> session[n] = "up")

\* What the ingestor takes for a report of a node was published by that node:
\* the prefix test of the webhook and the router's reading of a topic agree
\* (_allowed_topic, vmq_authz.py; _split_topic, router.py).
ReportsAreOwn ==
    \A n \in Ids, t \in Topics :
        (session[n] = "up" /\ authorise_publish(n, t) /\ Routable(t))
            => split_topic(t) = n

\* No subscription a device is granted, wildcards included, matches a topic
\* that the backend or another device uses for another node
\* (authorise_subscribe, vmq_authz.py).
DeafToOthers ==
    \A n \in Ids, F \in SUBSET Filters :
        (session[n] = "up" /\ authorise_subscribe(n, F))
            => \A f \in F, t \in Topics :
                  (Routable(t) /\ Matches(f, t)) => split_topic(t) = n

=============================================================================
