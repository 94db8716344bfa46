------------------------------- MODULE Groups -------------------------------
(***************************************************************************)
(* Node groups: a user files nodes under named groups, which may have a    *)
(* parent group of the same user.  Requests run as in Claiming: one step   *)
(* per SELECT that is used later, one per COMMIT.  Automations extends     *)
(* this module with the other rows a user owns.  A definition named        *)
(* Bug_... is a mutated form of the one that follows it; no specification  *)
(* uses it.                                                                *)
(***************************************************************************)
EXTENDS Naturals, Sequences, FiniteSets

CONSTANTS
    Users, Nodes,
    Registered,   \* the nodes that have a row
    Lists,        \* the node lists clients send
    GroupIds,     \* primary keys of node_groups
    NoParent,
    Workers       \* concurrent API requests

ASSUME GroupsAssumption ==
    /\ Registered \subseteq Nodes
    /\ Lists \subseteq Seq(Nodes)
    /\ NoParent \notin GroupIds

VARIABLES
    users,     \* the accounts that exist
    groups,    \* node_groups: primary key -> row
    members,   \* node_group_nodes, as pairs <<group, node>>
    req,       \* the request each worker is serving
    made       \* history: the nodes each group was created with

groupVars == <<groups, members, made>>

-----------------------------------------------------------------------------

NodeGroup == [owner : Users, parent : GroupIds \cup {NoParent}]

Idle == [pc |-> "idle"]

GroupRequest ==
    [pc : {"create"}, user : Users, parent : GroupIds \cup {NoParent}, nodes : Lists]
      \cup [pc : {"delete"}, user : Users, row : GroupIds]
      \cup [pc : {"list"}, user : Users, todo : SUBSET GroupIds,
            out : SUBSET (GroupIds \X SUBSET Nodes)]

GroupTypeOK ==
    /\ users \subseteq Users
    /\ DOMAIN groups \subseteq GroupIds
    /\ groups \in [DOMAIN groups -> NodeGroup]
    /\ members \subseteq GroupIds \X Nodes
    /\ DOMAIN made \subseteq GroupIds
    /\ made \in [DOMAIN made -> SUBSET Nodes]

GroupInit ==
    /\ users = Users
    /\ groups = [g \in {} |-> 0]
    /\ members = {}
    /\ req = [w \in Workers |-> Idle]
    /\ made = [g \in {} |-> 0]

-----------------------------------------------------------------------------

\* get_current_user lets a request in while the account exists.
Arrive(w, u, r) ==
    /\ req[w].pc = "idle"
    /\ u \in users
    /\ req' = [req EXCEPT ![w] = r]

Reply(w) == req' = [req EXCEPT ![w] = Idle]

Owned(u) == {g \in DOMAIN groups : groups[g].owner = u}

MembersOf(g) == {n \in Nodes : <<g, n>> \in members}

ElementsOf(list) == {list[i] : i \in 1..Len(list)}

\* What ON DELETE CASCADE takes along with the groups S: the least set that
\* holds them and every group whose parent it holds.
Cascade(S) ==
    {g \in DOMAIN groups :
        \A T \in SUBSET DOMAIN groups :
            /\ S \subseteq T
            /\ \A h \in DOMAIN groups : groups[h].parent \in T => h \in T
            => g \in T}

DeleteRows(S) ==
    LET gone == Cascade(S) IN
    /\ groups' = [g \in DOMAIN groups \ gone |-> groups[g]]
    /\ members' = {m \in members : m[1] \notin gone}

-----------------------------------------------------------------------------
(* POST /user/node_group.                                                  *)

Bug_ParentOk(u, p) == p \in DOMAIN groups \cup {NoParent}

\* The parent, when one is given, must be a group of the caller.
ParentOk(u, p) == p \in Owned(u) \cup {NoParent}

CreateGroup(w, u, p, list) ==
    /\ ParentOk(u, p)
    /\ Arrive(w, u, [pc |-> "create", user |-> u, parent |-> p, nodes |-> list])
    /\ UNCHANGED <<users, groupVars>>

\* Foreign key to nodes, unique (group, node).
Known(list) ==
    /\ ElementsOf(list) \subseteq Registered
    /\ \A i, j \in 1..Len(list) : list[i] = list[j] => i = j

\* Foreign keys to users and to the parent: either may be gone by now.
Anchored(u, p) == u \in users /\ p \in DOMAIN groups \cup {NoParent}

Bug_NewMembers(g, list) == IF list = <<>> THEN {} ELSE {<<g, list[Len(list)]>>}

NewMembers(g, list) == {<<g, n>> : n \in ElementsOf(list)}

\* Group and members in one transaction.  The flush takes share locks on the
\* owner and the parent, so nobody deletes them before the commit.
CreateGroupCommit(w, g) ==
    LET r == req[w] IN
    /\ r.pc = "create"
    /\ Known(r.nodes) /\ Anchored(r.user, r.parent)
    /\ g \in GroupIds \ DOMAIN made
    /\ groups' = [h \in DOMAIN groups \cup {g} |->
                    IF h = g THEN [owner |-> r.user, parent |-> r.parent] ELSE groups[h]]
    /\ members' = members \cup NewMembers(g, r.nodes)
    /\ made' = [h \in DOMAIN made \cup {g} |->
                  IF h = g THEN ElementsOf(r.nodes) ELSE made[h]]
    /\ Reply(w)
    /\ UNCHANGED users

\* A key is violated: 500, nothing is written.
CreateGroupConflict(w) ==
    /\ req[w].pc = "create"
    /\ ~Known(req[w].nodes) \/ ~Anchored(req[w].user, req[w].parent)
    /\ Reply(w)
    /\ UNCHANGED <<users, groupVars>>

-----------------------------------------------------------------------------
(* DELETE /user/node_group/{group_id}.                                     *)

Bug_Deletable(u) == DOMAIN groups

\* Anybody else's group is 404.
Deletable(u) == Owned(u)

DeleteGroup(w, u, g) ==
    /\ g \in Deletable(u)
    /\ Arrive(w, u, [pc |-> "delete", user |-> u, row |-> g])
    /\ UNCHANGED <<users, groupVars>>

\* Deleting a row that is gone by now deletes nothing.
DeleteGroupCommit(w) ==
    /\ req[w].pc = "delete"
    /\ DeleteRows({req[w].row} \cap DOMAIN groups)
    /\ Reply(w)
    /\ UNCHANGED <<users, made>>

-----------------------------------------------------------------------------
(* GET /user/node_group: one SELECT of the groups, one per group of its    *)
(* nodes.  With group_id the first is narrowed to that group.              *)

ListGroups(w, u, only) ==
    /\ only = Owned(u) \/ \E g \in GroupIds : only = Owned(u) \cap {g}
    /\ Arrive(w, u, [pc |-> "list", user |-> u, todo |-> only, out |-> {}])
    /\ UNCHANGED <<users, groupVars>>

ListNodes(w, g) ==
    /\ req[w].pc = "list"
    /\ g \in req[w].todo
    /\ req' = [req EXCEPT ![w] =
                 [pc |-> "list", user |-> req[w].user, todo |-> req[w].todo \ {g},
                  out |-> req[w].out \cup {<<g, MembersOf(g)>>}]]
    /\ UNCHANGED <<users, groupVars>>

ListReply(w) ==
    /\ req[w].pc = "list"
    /\ req[w].todo = {}
    /\ Reply(w)
    /\ UNCHANGED <<users, groupVars>>

-----------------------------------------------------------------------------

GroupNext(w) ==
    \/ \E u \in Users, p \in GroupIds \cup {NoParent}, l \in Lists : CreateGroup(w, u, p, l)
    \/ \E g \in GroupIds : CreateGroupCommit(w, g) \/ ListNodes(w, g)
    \/ CreateGroupConflict(w)
    \/ \E u \in Users, g \in GroupIds : DeleteGroup(w, u, g)
    \/ DeleteGroupCommit(w)
    \/ \E u \in Users, S \in SUBSET GroupIds : ListGroups(w, u, S)
    \/ ListReply(w)

-----------------------------------------------------------------------------
(* Properties.                                                             *)

\* A group belongs to an account that exists and hangs under a group of the
\* same user, whatever was deleted while it was being created; so a cascade
\* never reaches another user's groups.  Members are members of a group.
Rooted ==
    /\ \A g \in DOMAIN groups :
          /\ groups[g].owner \in users
          /\ groups[g].parent # NoParent => groups[g].parent \in Owned(groups[g].owner)
    /\ \A m \in members : m[1] \in DOMAIN groups

\* The list is put together by several SELECTs: each group in it is shown
\* with exactly the nodes it was created with, or, once it has been deleted
\* in the meantime, with none; a part of a group's nodes is never shown.
ListedWhole ==
    \A w \in Workers : req[w].pc = "list" =>
        \A e \in req[w].out :
            e[2] = made[e[1]] \/ (e[2] = {} /\ e[1] \notin DOMAIN groups)

=============================================================================
