----------------------------- MODULE NodeShadow -----------------------------
(***************************************************************************)
(* What the backend stores of a node: its config and its params shadow.    *)
(* Reports arrive over MQTT, where the ingestor replicas share one         *)
(* subscription, and over HTTPS (mTLS).  A replica handles one message at  *)
(* a time; a handler is one step per SELECT and per COMMIT (see Claiming). *)
(*                                                                         *)
(* A replica's session is an ordered list of messages the broker keeps     *)
(* until they are acknowledged.  After a reconnect it sends those again,   *)
(* in order.  A replica acknowledges before it handles, so what it had     *)
(* taken over is lost when it crashes.  A definition named Bug_... is a    *)
(* mutated form of the one that follows it; no specification uses it.      *)
(***************************************************************************)
EXTENDS ParamsMerge, Sequences, FiniteSets

CONSTANTS
    Nodes,
    Payloads,       \* params documents devices report
    Configs,        \* configs devices report: [version, payload]
    Ingestors,      \* mqtt-ingestor replicas
    Workers,        \* concurrent HTTPS requests of devices
    MaxReports,     \* bound on what the devices report
    MaxReconnects   \* bound on broker reconnects

ASSUME ShadowAssumption ==
    /\ Ingestors \cap Workers = {}
    /\ MaxReports \in Nat
    /\ MaxReconnects \in Nat
    /\ \A b \in Payloads : IsDoc(b)
    /\ \A c \in Configs : c = [version |-> c.version, payload |-> c.payload]

VARIABLES
    nodes,       \* nodes that have a row
    configs,     \* node_configs: node -> [version, payload]
    shadow,      \* node_params_shadow: node -> params document
    inbox,       \* per replica: messages not acknowledged, oldest first
    next,        \* per replica: which of them the broker sends next
    req,         \* what each process is doing
    reported,    \* history: per node, what it has reported, in order
    reconnects   \* how often a replica has reconnected

vars == <<nodes, configs, shadow, inbox, next, req, reported, reconnects>>

Procs == Ingestors \cup Workers

-----------------------------------------------------------------------------
(* Messages, rows and processes.                                           *)

Message ==
    [node : Nodes, topic : {"params"}, body : Payloads]
        \cup [node : Nodes, topic : {"config"}, body : Configs]

Idle == [pc |-> "idle"]

\* A row of node_configs.
NodeConfig == [version : {c.version : c \in Configs}, payload : {c.payload : c \in Configs}]

Bug_AnyRow(table, n) == IF DOMAIN table = {} THEN {} ELSE {table[CHOOSE k \in DOMAIN table : TRUE]}

\* The row of a table for a node, as a set of at most one element.
RowOf(table, n) == IF n \in DOMAIN table THEN {table[n]} ELSE {}

\* The table a message is for.
TableFor(m) == IF m.topic = "params" THEN shadow ELSE configs

TypeOK ==
    /\ nodes \subseteq Nodes
    /\ DOMAIN configs \subseteq nodes
    /\ \A n \in DOMAIN configs : configs[n] \in NodeConfig
    /\ DOMAIN shadow \subseteq nodes
    /\ \A g \in Ingestors : /\ \A i \in DOMAIN inbox[g] : inbox[g][i] \in Message
                            /\ next[g] \in 1..(Len(inbox[g]) + 1)
    /\ \A p \in Procs :
          /\ req[p].pc \in {"idle", "ensure", "read", "write"}
          /\ req[p].pc # "idle" => req[p].msg \in Message
          /\ req[p].pc = "write" =>
                /\ Cardinality(req[p].base) <= 1
                /\ req[p].msg.topic = "config" => req[p].base \subseteq NodeConfig
    /\ reconnects \in 0..MaxReconnects

Init ==
    /\ nodes \in SUBSET Nodes   \* claimed before they report anything
    /\ configs = [n \in {} |-> 0]
    /\ shadow = [n \in {} |-> 0]
    /\ inbox = [g \in Ingestors |-> <<>>]
    /\ next = [g \in Ingestors |-> 1]
    /\ req = [p \in Procs |-> Idle]
    /\ reported = [n \in Nodes |-> <<>>]
    /\ reconnects = 0

-----------------------------------------------------------------------------
(* The broker.                                                             *)

\* How many reports there have been.
Reports == {r \in Nodes \X (1..MaxReports) : r[2] <= Len(reported[r[1]])}

Report(m) ==
    /\ Cardinality(Reports) < MaxReports
    /\ reported' = [reported EXCEPT ![m.node] = Append(@, m)]

\* A device publishes; the shared subscription picks a replica.
DevicePublish(m, g) ==
    /\ Report(m)
    /\ inbox' = [inbox EXCEPT ![g] = Append(@, m)]
    /\ UNCHANGED <<nodes, configs, shadow, next, req, reconnects>>

\* The acknowledgement of a message that was sent reaches the broker.
Acknowledge(g) ==
    /\ next[g] > 1
    /\ inbox' = [inbox EXCEPT ![g] = Tail(@)]
    /\ next' = [next EXCEPT ![g] = @ - 1]
    /\ UNCHANGED <<nodes, configs, shadow, req, reported, reconnects>>

\* The connection breaks and comes back: what is not acknowledged is sent
\* again.  The message in hand is finished first.
Reconnect(g) ==
    /\ next[g] > 1
    /\ reconnects < MaxReconnects
    /\ next' = [next EXCEPT ![g] = 1]
    /\ reconnects' = reconnects + 1
    /\ UNCHANGED <<nodes, configs, shadow, inbox, req, reported>>

\* A replica dies with k messages acknowledged: those are gone, its
\* transaction rolls back.
Crash(g, k) ==
    /\ inbox' = [inbox EXCEPT ![g] = SubSeq(@, k + 1, Len(@))]
    /\ next' = [next EXCEPT ![g] = 1]
    /\ req' = [req EXCEPT ![g] = Idle]
    /\ UNCHANGED <<nodes, configs, shadow, reported, reconnects>>

-----------------------------------------------------------------------------
(* _handle_config, _handle_params_local and their HTTPS counterparts.      *)

Bug_NoEnsure(n) == "read"

\* _ensure_node's SELECT.
EnsureBranch(n) == IF n \in nodes THEN "read" ELSE "ensure"

\* dispatch: the next message of a replica.
Dispatch(g) ==
    /\ req[g].pc = "idle"
    /\ next[g] <= Len(inbox[g])
    /\ LET m == inbox[g][next[g]] IN
          req' = [req EXCEPT ![g] = [pc |-> EnsureBranch(m.node), msg |-> m]]
    /\ next' = [next EXCEPT ![g] = @ + 1]
    /\ UNCHANGED <<nodes, configs, shadow, inbox, reported, reconnects>>

\* PUT /node/config, PUT or POST /node/params/local: get_node_from_mtls has
\* found the node.
HttpsReport(w, m) ==
    /\ req[w].pc = "idle"
    /\ m.node \in nodes
    /\ Report(m)
    /\ req' = [req EXCEPT ![w] = [pc |-> "read", msg |-> m]]
    /\ UNCHANGED <<nodes, configs, shadow, inbox, next, reconnects>>

\* _ensure_node commits the node's row.
EnsureNode(g) ==
    /\ req[g].pc = "ensure"
    /\ req[g].msg.node \notin nodes
    /\ nodes' = nodes \cup {req[g].msg.node}
    /\ req' = [req EXCEPT ![g].pc = "read"]
    /\ UNCHANGED <<configs, shadow, inbox, next, reported, reconnects>>

\* Somebody else inserted it since: the handler raises, dispatch logs and
\* drops the message.
EnsureConflict(g) ==
    /\ req[g].pc = "ensure"
    /\ req[g].msg.node \in nodes
    /\ req' = [req EXCEPT ![g] = Idle]
    /\ UNCHANGED <<nodes, configs, shadow, inbox, next, reported, reconnects>>

\* The SELECT of the row that is about to be written.
ReadRow(p) ==
    /\ req[p].pc = "read"
    /\ req' = [req EXCEPT ![p] =
                 [pc |-> "write", msg |-> req[p].msg,
                  base |-> RowOf(TableFor(req[p].msg), req[p].msg.node)]]
    /\ UNCHANGED <<nodes, configs, shadow, inbox, next, reported, reconnects>>

\* The INSERT of a row that was absent violates the primary key, or the
\* foreign key to the node.
Clashes(p) ==
    /\ req[p].base = {}
    /\ \/ req[p].msg.node \in DOMAIN TableFor(req[p].msg)
       \/ req[p].msg.node \notin nodes

\* The shadow: insert the document, or write base merged with the report.
\* An assignment that changes nothing of what was read writes nothing.
upsert_params_shadow(p) ==
    LET m == req[p].msg
        new == [n \in {m.node} |-> m.body]
        merged(b) == [n \in {m.node} |-> MergeParams(b, m.body)]
    IN /\ req[p].pc = "write" /\ m.topic = "params" /\ ~Clashes(p)
       /\ shadow' = IF req[p].base = {} THEN Override(shadow, new)
                    ELSE LET b == CHOOSE x \in req[p].base : TRUE IN
                         IF MergeParams(b, m.body) = b THEN shadow
                         ELSE Override(shadow, merged(b))
       /\ req' = [req EXCEPT ![p] = Idle]
       /\ UNCHANGED <<nodes, configs, inbox, next, reported, reconnects>>

Bug_KeepsVersion(row, base, c) ==
    [row EXCEPT !.payload = IF base.payload = c.payload THEN @ ELSE c.payload]

\* The UPDATE of a config writes the columns that differ from what was read.
UpdateColumns(row, base, c) ==
    [version |-> IF base.version = c.version THEN row.version ELSE c.version,
     payload |-> IF base.payload = c.payload THEN row.payload ELSE c.payload]

upsert_node_config(p) ==
    LET m == req[p].msg IN
    /\ req[p].pc = "write" /\ m.topic = "config" /\ ~Clashes(p)
    /\ configs' = IF req[p].base = {} THEN Override(configs, [n \in {m.node} |-> m.body])
                  ELSE LET b == CHOOSE x \in req[p].base : TRUE IN
                       [configs EXCEPT ![m.node] = UpdateColumns(@, b, m.body)]
    /\ req' = [req EXCEPT ![p] = Idle]
    /\ UNCHANGED <<nodes, shadow, inbox, next, reported, reconnects>>

\* The message is dropped, or the request answers 500.
UpsertConflict(p) ==
    /\ req[p].pc = "write"
    /\ Clashes(p)
    /\ req' = [req EXCEPT ![p] = Idle]
    /\ UNCHANGED <<nodes, configs, shadow, inbox, next, reported, reconnects>>

\* An HTTPS request dies in the middle.
Abort(w) ==
    /\ req[w].pc # "idle"
    /\ req' = [req EXCEPT ![w] = Idle]
    /\ UNCHANGED <<nodes, configs, shadow, inbox, next, reported, reconnects>>

-----------------------------------------------------------------------------

Handle(p) ==
    ReadRow(p) \/ upsert_params_shadow(p) \/ upsert_node_config(p) \/ UpsertConflict(p)

Consume(g) == Dispatch(g) \/ EnsureNode(g) \/ EnsureConflict(g) \/ Handle(g)

\* A replica's session with the broker goes on, without crashes.
Session(g) == Acknowledge(g) \/ Reconnect(g) \/ Consume(g)

Next ==
    \/ \E m \in Message, g \in Ingestors : DevicePublish(m, g)
    \/ \E g \in Ingestors : Session(g)
    \/ \E w \in Workers, m \in Message : HttpsReport(w, m)
    \/ \E w \in Workers : Handle(w)
    \/ \E g \in Ingestors : \E k \in 0..Len(inbox[g]) : Crash(g, k)
    \/ \E w \in Workers : Abort(w)

Spec == Init /\ [][Next]_vars

-----------------------------------------------------------------------------
(* Properties.                                                             *)

\* What a node has reported under a topic, at the places it did.
Said(n, topic) ==
    [i \in {j \in DOMAIN reported[n] : reported[n][j].topic = topic} |->
        reported[n][i].body]

ParamNames == UNION {UNION {DOMAIN b[d].params : d \in DOMAIN b} : b \in Payloads}

\* Whatever is lost, repeated or overtaken, the shadow of a node holds only
\* values that node itself has reported, param by param.
ShadowReported ==
    \A n \in DOMAIN shadow : \A d \in DOMAIN shadow[n], p \in ParamNames :
        At(shadow[n], d, p) \subseteq
            UNION {At(Said(n, "params")[i], d, p) : i \in DOMAIN Said(n, "params")}

\* The shadow and the config say what the node's reports add up to.
UpToDate(n) ==
    /\ n \in DOMAIN shadow <=> DOMAIN Said(n, "params") # {}
    /\ n \in DOMAIN shadow => SumsUp(shadow[n], Said(n, "params"), ParamNames)
    /\ n \in DOMAIN configs <=> DOMAIN Said(n, "config") # {}
    /\ n \in DOMAIN configs =>
          configs[n] = Said(n, "config")[Latest(DOMAIN Said(n, "config"))]

\* Nothing of the node is on its way.
Quiet == /\ \A g \in Ingestors : next[g] > Len(inbox[g])
         /\ \A p \in Procs : req[p].pc = "idle"

\* "The device echoes back on params/local and the ingestor merges": when
\* everything has been handled, the stored state is what the devices
\* reported, messages sent again after a reconnect included.
ParamsConverge == Quiet => \A n \in Nodes : UpToDate(n)

\* A config row is one the node sent: its config_version column and its
\* payload come from one report.
ConfigWhole ==
    \A n \in DOMAIN configs :
        \E i \in DOMAIN Said(n, "config") : configs[n] = Said(n, "config")[i]

\* A report shows up in the stored state, unless the node says more.
ReportArrives ==
    \A n \in Nodes, r \in 1..MaxReports :
        Len(reported[n]) = r ~> (UpToDate(n) \/ Len(reported[n]) > r)
=============================================================================
