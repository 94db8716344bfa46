---------------------------- MODULE NodeMapping -----------------------------
(***************************************************************************)
(* Binding users to nodes: the secret-key flow (the phone stores a pending *)
(* challenge, the device echoes its secret on node/<id>/user/mapping, an   *)
(* ingestor replica matches the two), the challenge-response flow of the   *)
(* API, the deletion of a binding, and the deletion of an account with all *)
(* that hangs on it.                                                       *)
(*                                                                         *)
(* API workers and ingestor replicas run concurrently on one database, one *)
(* step per SELECT and per COMMIT (see Claiming).  An ingestor handles one *)
(* message at a time; an exception in a handler is logged and the message  *)
(* dropped.  A definition named Bug_... is a mutated form of the one that  *)
(* follows it; no specification uses it.                                   *)
(***************************************************************************)
EXTENDS Naturals, FiniteSets

CONSTANTS
    Users, Nodes,
    Secrets,    \* secret keys the phones generate
    NoSecret,   \* the NULL secret_key of a challenge-response row
    Workers,    \* concurrent API requests
    Ingestors,  \* mqtt-ingestor replicas
    Ids         \* primary keys of mapping_challenges (and request ids)

ASSUME MappingAssumption ==
    /\ NoSecret \notin Secrets
    /\ Workers \cap Ingestors = {}

VARIABLES
    users,       \* accounts that have a row
    challenges,  \* mapping_challenges: primary key -> row
    nodes,       \* nodes that have a row
    mappings,    \* user_node_mappings
    queue,       \* user/mapping messages on their way to an ingestor
    req,         \* what each worker and each ingestor is doing
    published    \* history: every <<node, secret>> a device has published

vars == <<users, challenges, nodes, mappings, queue, req, published>>

Procs == Workers \cup Ingestors

-----------------------------------------------------------------------------
(* Rows, messages and requests.                                            *)

MappingChallenge ==
    [user : Users, node : Nodes, secret : Secrets \cup {NoSecret},
     status : {"pending", "completed", "expired"},
     late : BOOLEAN]   \* expires_at < now

\* <<via, by>>, the challenge and the process that inserted the row, stand
\* for its primary key: no process inserts twice for one challenge.
UserNodeMapping == [user : Users, node : Nodes, via : Ids, by : Procs]

\* The topic's node (the broker lets a device publish only below its own CN),
\* and the node_id, user_id and secret_key of the payload.
Message == [node : Nodes, says : Nodes, user : Users, secret : Secrets]

Idle == [pc |-> "idle"]

\* user is the caller of the API, or the user_id of the message; held is the
\* challenge as the session loaded it.
Request ==
    {Idle}
      \cup [pc : {"expire", "lookup"}, row : Ids, user : Users,
            held : MappingChallenge]
      \cup [pc : {"bind"}, row : Ids, user : Users, held : MappingChallenge,
            absent : BOOLEAN]
      \cup [pc : {"delete"}, mapping : UserNodeMapping]

TypeOK ==
    /\ users \subseteq Users
    /\ DOMAIN challenges \subseteq Ids
    /\ challenges \in [DOMAIN challenges -> MappingChallenge]
    /\ nodes \subseteq Nodes
    /\ mappings \subseteq UserNodeMapping
    /\ queue \subseteq Message
    /\ req \in [Procs -> Request]
    /\ published \subseteq Nodes \X Secrets

Init ==
    /\ users = Users
    /\ challenges = [i \in {} |-> 0]
    /\ nodes = {}
    /\ mappings = {}
    /\ queue = {}
    /\ req = [p \in Procs |-> Idle]
    /\ published = {}

-----------------------------------------------------------------------------
(* Helpers.                                                                *)

InsertChallenge(i, row) ==
    challenges' = [j \in DOMAIN challenges \cup {i} |->
                      IF j = i THEN row ELSE challenges[j]]

Carrying(p) == req[p].pc \in {"expire", "lookup", "bind"}

\* Random keys: neither a row nor a request under way has them.
FreshIds ==
    Ids \ (DOMAIN challenges \cup {req[p].row : p \in {q \in Procs : Carrying(q)}})

Bug_AnyStatus(m) ==
    {i \in DOMAIN challenges : /\ challenges[i].secret = m.secret
                               /\ challenges[i].node = m.node}

\* The rows an ingestor selects for a message.
Matches(m) ==
    {i \in DOMAIN challenges : /\ challenges[i].secret = m.secret
                               /\ challenges[i].node = m.node
                               /\ challenges[i].status = "pending"}

MappingOf(u, n) == {m \in mappings : m.user = u /\ m.node = n}

GetMappingStatus(i) == challenges[i].status

-----------------------------------------------------------------------------
(* The phone.                                                              *)

\* PUT /user/nodes/mapping.  The row's operation column is left out: nothing
\* reads it, and a request to remove is matched like one to add.
RequestLegacyMapping(u, n, s) ==
    /\ u \in users
    /\ \E i \in FreshIds :
          InsertChallenge(i, [user |-> u, node |-> n, secret |-> s,
                              status |-> "pending", late |-> FALSE])
    /\ UNCHANGED <<users, nodes, mappings, queue, req, published>>

\* POST /user/nodes/mapping/initiate.
InitiateChallenge(u, n) ==
    /\ u \in users
    /\ \E i \in FreshIds :
          InsertChallenge(i, [user |-> u, node |-> n, secret |-> NoSecret,
                              status |-> "pending", late |-> FALSE])
    /\ UNCHANGED <<users, nodes, mappings, queue, req, published>>

\* POST /user/nodes/mapping/verify with the right response: the SELECT and
\* the checks.  Every other request is refused and changes nothing.
VerifyChallenge(w, u, i) ==
    /\ req[w].pc = "idle"
    /\ challenges[i].user = u
    /\ challenges[i].status = "pending"
    /\ ~challenges[i].late
    /\ challenges[i].secret = NoSecret
    /\ req' = [req EXCEPT ![w] = [pc |-> "lookup", row |-> i, user |-> u,
                                  held |-> challenges[i]]]
    /\ UNCHANGED <<users, challenges, nodes, mappings, queue, published>>

\* DELETE /user/nodes/{node_id}: the SELECT.
DeleteUserNode(w, u, n) ==
    /\ req[w].pc = "idle"
    /\ \E m \in MappingOf(u, n) :
          req' = [req EXCEPT ![w] = [pc |-> "delete", mapping |-> m]]
    /\ UNCHANGED <<users, challenges, nodes, mappings, queue, published>>

\* Its commit deletes the row that was selected, if it is still there.
DeleteCommit(w) ==
    /\ req[w].pc = "delete"
    /\ mappings' = mappings \ {req[w].mapping}
    /\ req' = [req EXCEPT ![w] = Idle]
    /\ UNCHANGED <<users, challenges, nodes, queue, published>>

\* DELETE /user2 is committed: the cascades take the account's challenges and
\* bindings; requests under way keep what they have loaded.
DeleteUser(u) ==
    /\ u \in users
    /\ users' = users \ {u}
    /\ challenges' = [i \in {j \in DOMAIN challenges : challenges[j].user # u} |->
                        challenges[i]]
    /\ mappings' = {m \in mappings : m.user # u}
    /\ UNCHANGED <<nodes, queue, req, published>>

-----------------------------------------------------------------------------
(* The device and the broker.                                              *)

\* The node's row appears (claiming, or an ingestor's _ensure_node).
RegisterNode(n) ==
    /\ n \notin nodes
    /\ nodes' = nodes \cup {n}
    /\ UNCHANGED <<users, challenges, mappings, queue, req, published>>

DevicePublish(m) ==
    /\ queue' = queue \cup {m}
    /\ published' = published \cup {<<m.node, m.secret>>}
    /\ UNCHANGED <<users, challenges, nodes, mappings, req>>

\* An ingestor that stops takes the messages it has acknowledged and not yet
\* handled with it.
LoseMessage(m) ==
    /\ m \in queue
    /\ queue' = queue \ {m}
    /\ UNCHANGED <<users, challenges, nodes, mappings, req, published>>

-----------------------------------------------------------------------------
(* _handle_user_mapping.                                                   *)

\* The broker hands over a message; QoS 1, so it may come again.
Take(m) == m \in queue /\ queue' \in {queue, queue \ {m}}

\* The message meets its one pending challenge, live or expired.
HandleUserMapping(g, m) ==
    /\ req[g].pc = "idle"
    /\ Take(m)
    /\ m.says = m.node
    /\ \E i \in DOMAIN challenges :
          /\ Matches(m) = {i}
          /\ req' = [req EXCEPT ![g] =
                       [pc |-> IF challenges[i].late THEN "expire" ELSE "lookup",
                        row |-> i, user |-> m.user, held |-> challenges[i]]]
    /\ UNCHANGED <<users, challenges, nodes, mappings, published>>

\* The payload names another node, or no row matches, or more than one does
\* (scalar_one_or_none raises): the message is dropped, nothing is written.
DropUserMapping(g, m) ==
    /\ req[g].pc = "idle"
    /\ Take(m)
    /\ m.says # m.node \/ Cardinality(Matches(m)) # 1
    /\ UNCHANGED <<users, challenges, nodes, mappings, req, published>>

\* The row an UPDATE is about is still there.
RowStands(p) == req[p].row \in DOMAIN challenges

Bug_ForgetsExpiry(g) ==
    /\ req[g].pc = "expire"
    /\ req' = [req EXCEPT ![g] = Idle]
    /\ UNCHANGED <<users, challenges, nodes, mappings, queue, published>>

\* The row had expired: its status says so.
ExpireCommit(g) ==
    /\ req[g].pc = "expire"
    /\ RowStands(g)
    /\ challenges' = [challenges EXCEPT ![req[g].row].status = "expired"]
    /\ req' = [req EXCEPT ![g] = Idle]
    /\ UNCHANGED <<users, nodes, mappings, queue, published>>

-----------------------------------------------------------------------------
(* The end both flows share: look for the mapping, insert it if absent,    *)
(* complete the challenge.                                                 *)

Lookup(p) ==
    LET held == req[p].held IN
    /\ req[p].pc = "lookup"
    /\ req' = [req EXCEPT ![p] =
                 [pc |-> "bind", row |-> req[p].row, user |-> req[p].user,
                  held |-> held, absent |-> MappingOf(held.user, held.node) = {}]]
    /\ UNCHANGED <<users, challenges, nodes, mappings, queue, published>>

Bug_BindsCaller(p) ==
    mappings' = mappings \cup
        {[user |-> req[p].user, node |-> req[p].held.node,
          via |-> req[p].row, by |-> p]}

\* The insert: the owner of the challenge, not the user the message names.
AddMapping(p) ==
    mappings' = mappings \cup
        {[user |-> req[p].held.user, node |-> req[p].held.node,
          via |-> req[p].row, by |-> p]}

Bug_LeavesPending(p) == challenges' = challenges

CompleteRow(p) ==
    challenges' = [challenges EXCEPT ![req[p].row].status = "completed"]

Bug_NoUnique(p) == req[p].held.node \in nodes /\ req[p].held.user \in users

\* The insert needs the rows of node and user (foreign keys) and that nobody
\* inserted the pair since (unique constraint).
Insertable(p) ==
    /\ req[p].held.node \in nodes
    /\ req[p].held.user \in users
    /\ MappingOf(req[p].held.user, req[p].held.node) = {}

BindCommit(p) ==
    /\ req[p].pc = "bind"
    /\ RowStands(p)
    /\ IF req[p].absent THEN Insertable(p) /\ AddMapping(p)
                        ELSE UNCHANGED mappings
    /\ CompleteRow(p)
    /\ req' = [req EXCEPT ![p] = Idle]
    /\ UNCHANGED <<users, nodes, queue, published>>

\* IntegrityError: rolled back, 500 or dropped; the row stays as it was.
BindConflict(p) ==
    /\ req[p].pc = "bind"
    /\ req[p].absent
    /\ ~Insertable(p)
    /\ req' = [req EXCEPT ![p] = Idle]
    /\ UNCHANGED <<users, challenges, nodes, mappings, queue, published>>

\* The challenge went with its user: the UPDATE matches no row; 500 or dropped.
StaleChallenge(p) ==
    /\ req[p].pc \in {"expire", "bind"}
    /\ ~RowStands(p)
    /\ req' = [req EXCEPT ![p] = Idle]
    /\ UNCHANGED <<users, challenges, nodes, mappings, queue, published>>

\* A worker or an ingestor dies in the middle: rolled back.
Abort(p) ==
    /\ req[p].pc # "idle"
    /\ req' = [req EXCEPT ![p] = Idle]
    /\ UNCHANGED <<users, challenges, nodes, mappings, queue, published>>

\* A challenge's deadline passes.
Elapse(i) ==
    /\ ~challenges[i].late
    /\ challenges' = [challenges EXCEPT ![i].late = TRUE]
    /\ UNCHANGED <<users, nodes, mappings, queue, req, published>>

-----------------------------------------------------------------------------

\* The steps of a system in which nothing crashes.
CalmNext ==
    \/ \E u \in Users, n \in Nodes, s \in Secrets :
          RequestLegacyMapping(u, n, s)
    \/ \E u \in Users, n \in Nodes : InitiateChallenge(u, n)
    \/ \E w \in Workers, u \in Users, i \in DOMAIN challenges :
          VerifyChallenge(w, u, i)
    \/ \E w \in Workers, u \in Users, n \in Nodes : DeleteUserNode(w, u, n)
    \/ \E w \in Workers : DeleteCommit(w)
    \/ \E n \in Nodes : RegisterNode(n)
    \/ \E m \in Message : DevicePublish(m)
    \/ \E g \in Ingestors, m \in queue :
          HandleUserMapping(g, m) \/ DropUserMapping(g, m)
    \/ \E g \in Ingestors : ExpireCommit(g)
    \/ \E p \in Procs : Lookup(p) \/ BindCommit(p) \/ BindConflict(p) \/ StaleChallenge(p)
    \/ \E u \in Users : DeleteUser(u)
    \/ \E i \in DOMAIN challenges : Elapse(i)

Next ==
    \/ CalmNext
    \/ \E m \in Message : LoseMessage(m)
    \/ \E p \in Procs : Abort(p)

Spec == Init /\ [][Next]_vars

\* An ingestor keeps consuming (the broker hands out its queue in turn), and
\* a handler that has begun goes on.  Nothing is assumed of phones, devices
\* and clocks.
Fairness ==
    \A g \in Ingestors :
        /\ \A m \in Message :
              WF_vars(HandleUserMapping(g, m) \/ DropUserMapping(g, m))
        /\ WF_vars(\/ ExpireCommit(g) \/ Lookup(g) \/ BindCommit(g)
                    \/ BindConflict(g) \/ StaleChallenge(g))

CalmSpec == Init /\ [][CalmNext]_vars /\ Fairness

-----------------------------------------------------------------------------
(* Properties.                                                             *)

\* Whether the pair of challenge i was proved: the device published the
\* secret under its own node, or the row is in challenge-response mode.
Proved(i) ==
    \/ challenges[i].secret = NoSecret
    \/ <<challenges[i].node, challenges[i].secret>> \in published

\* No binding comes out of nothing: the bound user, who is still there, itself
\* asked for that node, and in the secret-key flow that very device published
\* the secret of that request, whatever deletions, duplicates, losses and races happened on the way.
BindingProved ==
    \A m \in mappings :
        /\ m.via \in DOMAIN challenges
        /\ challenges[m.via].user = m.user
        /\ challenges[m.via].node = m.node
        /\ Proved(m.via)
        /\ m.node \in nodes /\ m.user \in users

\* The unique constraint uq_user_node: delete, re-map and concurrent
\* completions never leave two rows for a pair, so scalar_one_or_none in
\* delete_user_node, has_access and the mapping flows never raises.
OneRowPerPair ==
    \A m, k \in mappings : m.user = k.user /\ m.node = k.node => m = k

\* Each process turns a challenge into a binding at most once: whoever wins
\* the race, a process that works on a challenge has no row of its own from
\* it, so of all the rows <<via, by>> identifies one.
NotTwice ==
    \A p \in Procs : req[p].pc \in {"lookup", "bind"} =>
        ~\E m \in mappings : m.via = req[p].row /\ m.by = p

\* The processes that have picked up challenge i and not finished with it.
Working(i) ==
    {p \in Procs : Carrying(p) /\ req[p].row = i}

\* A completed challenge that nobody still works on is spent: it stays
\* completed while its user is there, nobody picks it up again and nothing is
\* bound on its account, also when the message comes again after the binding
\* was deleted ("subsequent publishes are no-ops", router.py).
CompletedMeansDone ==
    [][\A i \in DOMAIN challenges :
          GetMappingStatus(i) = "completed" /\ Working(i) = {} =>
              /\ \/ challenges[i].user \notin users'
                 \/ GetMappingStatus(i)' = "completed"
              /\ Working(i)' = {}
              /\ \A m \in mappings' \ mappings : m.via # i]_vars

Settled(i) == i \in DOMAIN challenges /\ GetMappingStatus(i) # "pending"

Bound(i) ==
    /\ i \in DOMAIN challenges
    /\ MappingOf(challenges[i].user, challenges[i].node) # {}

\* A message that finds its one challenge waiting, for a registered node, is
\* acted on: the challenge is settled or the pair bound, unless the user is
\* deleted or a second request with the same secret makes the match ambiguous
\* first.
QueuedIsMatched ==
    \A i \in Ids, m \in Message :
        (/\ m \in queue /\ m.says = m.node
         /\ Matches(m) = {i}
         /\ m.node \in nodes)
          ~> \/ Settled(i)
             \/ Bound(i)
             \/ i \notin DOMAIN challenges
             \/ Cardinality(Matches(m)) > 1

\* The binding table and the challenges implement Ownership: a pair counts as
\* proved as soon as a challenge asks for it and the device has spoken.
ProvedPairs ==
    {<<challenges[i].user, challenges[i].node>> :
        i \in {j \in DOMAIN challenges : Proved(j)}}
BoundPairs == {<<m.user, m.node>> : m \in mappings}

Abstract == INSTANCE Ownership WITH proved <- ProvedPairs, bound <- BoundPairs
ImplementsOwnership == Abstract!OwnershipSpec
=============================================================================
