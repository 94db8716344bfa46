------------------------------ MODULE Sharing -------------------------------
(***************************************************************************)
(* Node sharing: an owner invites a user to some of its nodes, the invitee *)
(* accepts or declines, the owner revokes; and the access rule every node  *)
(* route applies (own the node, or hold a share).  Requests run as in      *)
(* Claiming: one step per SELECT that is used later, one per COMMIT.       *)
(* Rows refer to accounts by id, but an invitation names its invitee: the  *)
(* name may have no account yet, or change hands when one is deleted.      *)
(* A definition named Bug_... is a mutated form of the one that follows    *)
(* it; no specification uses it.                                           *)
(***************************************************************************)
EXTENDS Naturals

CONSTANTS
    Users,     \* primary keys of users
    Names,
    Invitees,  \* the names invitations are sent to
    Nodes,
    NameOf,    \* the user_name an account is created with
    Workers,   \* concurrent API requests
    Ids        \* primary keys of node_sharing_requests

ASSUME NamesAssumption ==
    /\ NameOf \in [Users -> Names]
    /\ Invitees \subseteq Names

VARIABLES
    accounts,  \* how far each user id is: not drawn yet, a row, deleted
    owners,    \* user_node_mappings, as pairs <<user, node>>
    requests,  \* node_sharing_requests: primary key -> row
    shares,    \* node_sharing
    req,       \* the request each worker is serving
    askedBy    \* history: pairs <<user, node>> that once were mappings, of
               \* accounts that are there

vars == <<accounts, owners, requests, shares, req, askedBy>>

-----------------------------------------------------------------------------
(* Rows and requests.                                                      *)

\* head is history: the row of the same invitation whose id was returned to
\* the owner, the only id the invitee can learn.
NodeSharingRequest ==
    [node : Nodes, from : Users, to : Names, late : BOOLEAN, head : Ids,
     status : {"pending", "accepted", "declined", "expired"}]

\* <<via, by>>, the sharing request and the worker that turned it into this
\* row, stand for its primary key.
NodeSharing == [node : Nodes, from : Users, to : Users, via : Ids, by : Workers]

Idle == [pc |-> "idle"]

Request ==
    {Idle}
      \cup [pc : {"create"}, from : Users, to : Names, first : Nodes,
            todo : SUBSET Nodes, all : SUBSET Nodes]
      \cup [pc : {"accept", "decline", "expire"}, row : Ids, user : Users,
            held : NodeSharingRequest]
      \cup [pc : {"grant"}, row : Ids, user : Users,
            held : NodeSharingRequest, absent : BOOLEAN]
      \cup [pc : {"revoke"}, from : Users, to : Users,
            todo : SUBSET Nodes, found : SUBSET NodeSharing]

TypeOK ==
    /\ accounts \in [Users -> {"new", "member", "deleted"}]
    /\ owners \subseteq Users \X Nodes
    /\ DOMAIN requests \subseteq Ids
    /\ requests \in [DOMAIN requests -> NodeSharingRequest]
    /\ shares \subseteq NodeSharing
    /\ req \in [Workers -> Request]
    /\ askedBy \subseteq Users \X Nodes

Init ==
    /\ accounts = [u \in Users |-> "new"]
    /\ owners = {}
    /\ requests = [i \in {} |-> 0]
    /\ shares = {}
    /\ req = [w \in Workers |-> Idle]
    /\ askedBy = {}

-----------------------------------------------------------------------------
(* Accounts, as far as sharing depends on them.                            *)

Members == {u \in Users : accounts[u] = "member"}

\* An account is created under a name nobody has (Accounts).
SignUp(u) ==
    /\ accounts[u] = "new"
    /\ \A v \in Members : NameOf[v] # NameOf[u]
    /\ accounts' = [accounts EXCEPT ![u] = "member"]
    /\ UNCHANGED <<owners, requests, shares, req, askedBy>>

\* The foreign key takes the invitations the account sent along, not those
\* sent to its name.
WithoutSender(u) ==
    [i \in {j \in DOMAIN requests : requests[j].from # u} |-> requests[i]]

\* DELETE /user2 is committed: the cascades take the account's mappings, the
\* invitations it sent and the shares at either end.
DeleteUser(u) ==
    /\ u \in Members
    /\ accounts' = [accounts EXCEPT ![u] = "deleted"]
    /\ owners' = {o \in owners : o[1] # u}
    /\ requests' = WithoutSender(u)
    /\ shares' = {s \in shares : s.from # u /\ s.to # u}
    /\ askedBy' = {o \in askedBy : o[1] # u}
    /\ UNCHANGED req

-----------------------------------------------------------------------------
(* The access rule.                                                        *)

has_access(u, n) ==
    \/ <<u, n>> \in owners
    \/ \E s \in shares : s.to = u /\ s.node = n

accessible_node_ids(u) ==
    {n \in Nodes : <<u, n>> \in owners}
        \cup {s.node : s \in {t \in shares : t.to = u}}

-----------------------------------------------------------------------------
(* PUT /user/nodes/sharing/requests {nodes, user_name}.                    *)

Reply(w) == req' = [req EXCEPT ![w] = Idle]

CreateRequest(w, u, v, first, N) ==
    /\ req[w].pc = "idle"
    /\ u \in Members
    /\ first \in N
    /\ req' = [req EXCEPT ![w] = [pc |-> "create", from |-> u, to |-> v,
                                  first |-> first, todo |-> N, all |-> N]]
    /\ UNCHANGED <<accounts, owners, requests, shares, askedBy>>

Owns(u, n) == <<u, n>> \in owners

\* One round of the loop over the nodes: the caller must own the node.
CreateCheck(w, n) ==
    /\ req[w].pc = "create"
    /\ n \in req[w].todo
    /\ IF Owns(req[w].from, n)
       THEN req' = [req EXCEPT ![w].todo = @ \ {n}]
       ELSE Reply(w)
    /\ UNCHANGED <<accounts, owners, requests, shares, askedBy>>

\* The worker carries an answer to an invitation.
Answers(w) == req[w].pc \in {"accept", "decline", "expire", "grant"}

\* Ids in use: those of rows, and those a request still carries.
Drawn == DOMAIN requests \cup {req[w].row : w \in {x \in Workers : Answers(x)}}

NewRequest(w, n, told) ==
    [node |-> n, from |-> req[w].from, to |-> req[w].to, late |-> FALSE,
     head |-> told, status |-> "pending"]

\* Rows with the keys new are added, nodeOf says for which node each is, and
\* the key told is the answer.
InsertRequests(w, new, nodeOf, told) ==
    requests' = [i \in DOMAIN requests \cup new |->
                   IF i \in DOMAIN requests THEN requests[i]
                   ELSE NewRequest(w, nodeOf[i], told)]

\* One row per node, in one commit; the id of the first node's row is the
\* answer.  The sender must still be there (foreign key).
CreateCommit(w) ==
    /\ req[w].pc = "create"
    /\ req[w].todo = {}
    /\ req[w].from \in Members
    /\ \E new \in SUBSET (Ids \ Drawn) :
         \E nodeOf \in [new -> req[w].all], told \in new :
           /\ \A n \in req[w].all : \E i \in new : nodeOf[i] = n
           /\ \A i, j \in new : nodeOf[i] = nodeOf[j] => i = j
           /\ nodeOf[told] = req[w].first
           /\ InsertRequests(w, new, nodeOf, told)
    /\ Reply(w)
    /\ UNCHANGED <<accounts, owners, shares, askedBy>>

\* The sender was deleted since; 500.
CreateConflict(w) ==
    /\ req[w].pc = "create"
    /\ req[w].todo = {}
    /\ req[w].from \notin Members
    /\ Reply(w)
    /\ UNCHANGED <<accounts, owners, requests, shares, askedBy>>

-----------------------------------------------------------------------------
(* PUT /user/nodes/sharing/requests {request_id, accept}.                  *)

Bug_Resolved(i, u) == requests[i].to = NameOf[u]

\* Not for this user: 403; already resolved: 400.  An id that was never
\* returned to anybody cannot be sent.
Answerable(i, u) ==
    requests[i].to = NameOf[u] /\ requests[i].status = "pending"

Bug_NoDeadline(i, accept) == IF accept THEN "accept" ELSE "decline"

\* Which way the handler goes on.
AnswerBranch(i, accept) ==
    IF requests[i].late THEN "expire" ELSE IF accept THEN "accept" ELSE "decline"

AcceptOrDecline(w, u, i, accept) ==
    /\ req[w].pc = "idle"
    /\ u \in Members
    /\ requests[i].head = i
    /\ Answerable(i, u)
    /\ req' = [req EXCEPT ![w] = [pc |-> AnswerBranch(i, accept), row |-> i,
                                  user |-> u, held |-> requests[i]]]
    /\ UNCHANGED <<accounts, owners, requests, shares, askedBy>>

\* The row to UPDATE is still there.
RowStands(w) == req[w].row \in DOMAIN requests

\* The expired and the declined branch write the status.
ResolveCommit(w) ==
    /\ req[w].pc \in {"expire", "decline"}
    /\ RowStands(w)
    /\ requests' = [requests EXCEPT ![req[w].row].status =
                      IF req[w].pc = "expire" THEN "expired" ELSE "declined"]
    /\ Reply(w)
    /\ UNCHANGED <<accounts, owners, shares, askedBy>>

ShareOf(n, u) == {s \in shares : s.node = n /\ s.to = u}

\* The accept branch first looks for a share of the node with the caller,
\* granted by whomever.
AcceptLookup(w) ==
    /\ req[w].pc = "accept"
    /\ req' = [req EXCEPT ![w] =
                 [pc |-> "grant", row |-> req[w].row, user |-> req[w].user,
                  held |-> req[w].held,
                  absent |-> ShareOf(req[w].held.node, req[w].user) = {}]]
    /\ UNCHANGED <<accounts, owners, requests, shares, askedBy>>

NewShare(w) ==
    [node |-> req[w].held.node, from |-> req[w].held.from, to |-> req[w].user,
     via |-> req[w].row, by |-> w]

Bug_DanglingKeys(w) == ShareOf(NewShare(w).node, NewShare(w).to) = {}

\* Unique (node, invitee), and both ends refer to accounts.
KeysHold(w) ==
    /\ ShareOf(NewShare(w).node, NewShare(w).to) = {}
    /\ {NewShare(w).from, NewShare(w).to} \subseteq Members

MarkAccepted(w) == requests' = [requests EXCEPT ![req[w].row].status = "accepted"]

AcceptCommit(w) ==
    /\ req[w].pc = "grant"
    /\ RowStands(w)
    /\ \/ ~req[w].absent /\ UNCHANGED shares
       \/ req[w].absent /\ KeysHold(w) /\ shares' = shares \cup {NewShare(w)}
    /\ MarkAccepted(w)
    /\ Reply(w)
    /\ UNCHANGED <<accounts, owners, askedBy>>

\* Somebody inserted the share since, or an account is gone; 500.
AcceptConflict(w) ==
    /\ req[w].pc = "grant"
    /\ req[w].absent /\ ~KeysHold(w)
    /\ Reply(w)
    /\ UNCHANGED <<accounts, owners, requests, shares, askedBy>>

\* The invitation went with its sender: the UPDATE matches no row; 500.
AnswerStale(w) ==
    /\ req[w].pc \in {"expire", "decline", "grant"}
    /\ ~RowStands(w)
    /\ Reply(w)
    /\ UNCHANGED <<accounts, owners, requests, shares, askedBy>>

-----------------------------------------------------------------------------
(* DELETE /user/nodes/sharing.                                             *)

\* The invitee is looked up by name.
RevokeShare(w, u, v, N) ==
    /\ req[w].pc = "idle"
    /\ {u, v} \subseteq Members
    /\ req' = [req EXCEPT ![w] = [pc |-> "revoke", from |-> u, to |-> v,
                                  todo |-> N, found |-> {}]]
    /\ UNCHANGED <<accounts, owners, requests, shares, askedBy>>

Bug_AnyGranter(u, v, n) == ShareOf(n, v)

\* The share the caller itself granted.
Revocable(u, v, n) == {s \in ShareOf(n, v) : s.from = u}

RevokeCheck(w, n) ==
    /\ req[w].pc = "revoke"
    /\ n \in req[w].todo
    /\ req' = [req EXCEPT ![w].todo = @ \ {n},
                          ![w].found = @ \cup Revocable(req[w].from, req[w].to, n)]
    /\ UNCHANGED <<accounts, owners, requests, shares, askedBy>>

RevokeCommit(w) ==
    /\ req[w].pc = "revoke"
    /\ req[w].todo = {}
    /\ shares' = shares \ req[w].found
    /\ Reply(w)
    /\ UNCHANGED <<accounts, owners, requests, askedBy>>

-----------------------------------------------------------------------------
(* Around the requests.                                                    *)

\* A mapping is committed (NodeMapping).
MapNode(u, n) ==
    /\ u \in Members
    /\ <<u, n>> \notin owners
    /\ owners' = owners \cup {<<u, n>>}
    /\ askedBy' = askedBy \cup {<<u, n>>}
    /\ UNCHANGED <<accounts, requests, shares, req>>

\* DELETE /user/nodes/{node_id} is committed: the mapping and nothing else.
UnmapNode(u, n) ==
    /\ <<u, n>> \in owners
    /\ owners' = owners \ {<<u, n>>}
    /\ UNCHANGED <<accounts, requests, shares, req, askedBy>>

\* The deadline passes.  Once the row is resolved nothing reads it.
Elapse(i) ==
    /\ requests[i].status = "pending" /\ ~requests[i].late
    /\ requests' = [requests EXCEPT ![i].late = TRUE]
    /\ UNCHANGED <<accounts, owners, shares, req, askedBy>>

Abort(w) ==
    /\ req[w].pc # "idle"
    /\ Reply(w)
    /\ UNCHANGED <<accounts, owners, requests, shares, askedBy>>

Step(w) ==
    \/ \E n \in Nodes : CreateCheck(w, n) \/ RevokeCheck(w, n)
    \/ CreateCommit(w)
    \/ CreateConflict(w)
    \/ ResolveCommit(w)
    \/ AcceptLookup(w)
    \/ AcceptCommit(w)
    \/ AcceptConflict(w)
    \/ AnswerStale(w)
    \/ RevokeCommit(w)
    \/ Abort(w)

Next ==
    \/ \E w \in Workers, u \in Users, v \in Invitees, n \in Nodes,
          N \in SUBSET Nodes :
          CreateRequest(w, u, v, n, N)
    \/ \E w \in Workers, u \in Users, i \in DOMAIN requests, a \in BOOLEAN :
          AcceptOrDecline(w, u, i, a)
    \/ \E w \in Workers, u, v \in Users, N \in SUBSET Nodes \ {{}} :
          RevokeShare(w, u, v, N)
    \/ \E w \in Workers : Step(w)
    \/ \E u \in Users, n \in Nodes : MapNode(u, n) \/ UnmapNode(u, n)
    \/ \E u \in Users : SignUp(u) \/ DeleteUser(u)
    \/ \E i \in DOMAIN requests : Elapse(i)

Spec == Init /\ [][Next]_vars

-----------------------------------------------------------------------------
(* Properties.                                                             *)

\* The workers that still carry an answer to request i.
Answering(i) == {w \in Workers : Answers(w) /\ req[w].row = i}

\* Every share goes back to an invitation that is still stored and has been
\* resolved, for that node, from a user who did own it, to the name of the
\* user who holds it; and both have an account, whatever was deleted while
\* the answer was under way.
ShareJustified ==
    \A s \in shares :
        /\ s.via \in DOMAIN requests
        /\ requests[s.via].status # "pending"
        /\ requests[s.via].node = s.node
        /\ requests[s.via].from = s.from
        /\ requests[s.via].to = NameOf[s.to]
        /\ <<s.from, s.node>> \in askedBy
        /\ {s.from, s.to} \subseteq Members

\* Access comes and goes only through the user's own mapping, the user's own
\* acceptance, a revocation by the user who granted it, or the deletion of
\* the account at one end: no step of anybody else's request touches it.
AccessOnlyByConsent ==
    [][\A u \in Users, n \in Nodes :
          /\ ~has_access(u, n) /\ n \in accessible_node_ids(u)' =>
                \/ <<u, n>> \in owners'
                \/ \E w \in Workers : /\ req[w].pc = "grant"
                                      /\ req[w].user = u
                                      /\ req[w].held.to = NameOf[u]
          /\ \A s \in shares \ shares' :
                \/ \E w \in Workers : /\ req[w].pc = "revoke"
                                      /\ req[w].from = s.from
                \/ "deleted" \in {accounts'[s.from], accounts'[s.to]}]_vars

\* An invitation whose deadline passed with no answer under way grants
\* nothing any more.
LateNeverGrants ==
    [][\A i \in DOMAIN requests :
          requests[i].late /\ Answering(i) = {} =>
              /\ \A s \in shares' \ shares : s.via # i
              /\ \A w \in Answering(i)' : req'[w].pc = "expire"]_vars

\* A resolved invitation that no request still answers is resolved for good,
\* for as long as its sender is there: no status change, no new answer, no
\* share out of it, so what was declined or revoked stays so.
ResolvedIsFinal ==
    [][\A i \in DOMAIN requests :
          requests[i].status # "pending" /\ Answering(i) = {} =>
              /\ \/ accounts'[requests[i].from] = "deleted"
                 \/ requests'[i].status = requests[i].status
              /\ Answering(i)' = {}
              /\ \A s \in shares' \ shares : s.via # i]_vars

=============================================================================
