--------------------------- MODULE SharingProofs ----------------------------
(***************************************************************************)
(* Theorems about Sharing, for any accounts, names, nodes, invitations and *)
(* workers.                                                                *)
(***************************************************************************)
EXTENDS Sharing, TLAPS

\* An invitation that is stored was sent by an account that is there and did
\* own the node.
RowsJustified ==
    \A i \in DOMAIN requests :
        /\ requests[i].from \in Members
        /\ <<requests[i].from, requests[i].node>> \in askedBy

\* What a request remembers: of the nodes it has checked its sender was the
\* owner, the row it loaded is the row that is stored, if it still is, and it
\* collects only shares its caller granted.
CreateInv ==
    \A w \in Workers : req[w].pc = "create" =>
        /\ accounts[req[w].from] # "new"
        /\ req[w].from \in Members =>
              \A n \in req[w].all \ req[w].todo : <<req[w].from, n>> \in askedBy

AnswerInv ==
    \A w \in Workers : Answers(w) =>
        /\ req[w].held.to = NameOf[req[w].user]
        /\ RowStands(w) => /\ req[w].held.node = requests[req[w].row].node
                           /\ req[w].held.from = requests[req[w].row].from
                           /\ req[w].held.to = requests[req[w].row].to

RevokeInv ==
    \A w \in Workers : req[w].pc = "revoke" =>
        \A s \in req[w].found : s.from = req[w].from

Inv == /\ TypeOK /\ owners \subseteq askedBy /\ RowsJustified /\ ShareJustified
       /\ CreateInv /\ AnswerInv /\ RevokeInv

-----------------------------------------------------------------------------
(* The steps by what they do to the tables.                                *)

SameTables == UNCHANGED <<accounts, owners, requests, shares, askedBy>>

\* The steps that write the tables; all others leave them alone.
LEMMA StepKinds ==
  ASSUME [Next]_vars
  PROVE \/ SameTables
        \/ \E u \in Users : SignUp(u)
        \/ \E u \in Users : DeleteUser(u)
        \/ \E w \in Workers : CreateCommit(w)
        \/ \E w \in Workers : ResolveCommit(w)
        \/ \E w \in Workers : AcceptCommit(w)
        \/ \E w \in Workers : RevokeCommit(w)
        \/ \E u \in Users, n \in Nodes : MapNode(u, n)
        \/ \E u \in Users, n \in Nodes : UnmapNode(u, n)
        \/ \E i \in DOMAIN requests : Elapse(i)
BY DEF Next, Step, vars, SameTables, CreateRequest, CreateCheck, CreateConflict,
       AcceptOrDecline, AcceptLookup, AcceptConflict, AnswerStale, RevokeShare,
       RevokeCheck, Abort

\* And by what they do to the request a worker serves.
LEMMA RequestKinds ==
  ASSUME [Next]_vars
  PROVE \/ UNCHANGED req
        \/ \E w \in Workers : Reply(w)
        \/ \E w \in Workers, u \in Users, v \in Invitees, n \in Nodes,
              N \in SUBSET Nodes : CreateRequest(w, u, v, n, N)
        \/ \E w \in Workers, u \in Users, i \in DOMAIN requests, a \in BOOLEAN :
              AcceptOrDecline(w, u, i, a)
        \/ \E w \in Workers, u, v \in Users, N \in SUBSET Nodes :
              RevokeShare(w, u, v, N)
        \/ \E w \in Workers, n \in Nodes : CreateCheck(w, n)
        \/ \E w \in Workers, n \in Nodes : RevokeCheck(w, n)
        \/ \E w \in Workers : AcceptLookup(w)
BY DEF Next, Step, vars, CreateCommit, CreateConflict, ResolveCommit, AcceptCommit,
       AcceptConflict, AnswerStale, RevokeCommit, Abort, SignUp, DeleteUser,
       MapNode, UnmapNode, Elapse

\* Accounts go one way, and who stays keeps what is recorded of it.
AccountsEvolve ==
    /\ \A u \in Users : accounts[u] # "new" => accounts'[u] # "new"
    /\ \A u \in Members' : accounts[u] # "new" => u \in Members
    /\ \A u \in Members', n \in Nodes : <<u, n>> \in askedBy => <<u, n>> \in askedBy'

\* What AccountsEvolve says holds of every step.
LEMMA StepAccounts ==
  ASSUME TypeOK, [Next]_vars
  PROVE AccountsEvolve
<1> USE DEF TypeOK, AccountsEvolve, Members
<1>1. CASE UNCHANGED <<accounts, askedBy>>
    BY <1>1
<1>2. ASSUME NEW u \in Users, SignUp(u) PROVE AccountsEvolve
    BY <1>2 DEF SignUp
<1>3. ASSUME NEW u \in Users, DeleteUser(u) PROVE AccountsEvolve
    BY <1>3 DEF DeleteUser
<1>4. ASSUME NEW u \in Users, NEW n \in Nodes, MapNode(u, n) PROVE AccountsEvolve
    BY <1>4 DEF MapNode
<1> QED BY <1>1, <1>2, <1>3, <1>4, StepKinds
        DEF SameTables, CreateCommit, ResolveCommit, AcceptCommit, RevokeCommit,
            UnmapNode, Elapse

\* The row of invitation i after a step, if it was there before.
RowKept(i) ==
    /\ i \in DOMAIN requests'
    /\ requests'[i].node = requests[i].node
    /\ requests'[i].from = requests[i].from
    /\ requests'[i].to = requests[i].to
    /\ requests[i].status # "pending" => requests'[i].status # "pending"

\* What the commit of create_request inserts.
NewRow(w, i) ==
    /\ i \in Ids \ Drawn
    /\ requests'[i] \in NodeSharingRequest
    /\ requests'[i].node \in req[w].all
    /\ requests'[i].from = req[w].from

\* create_request adds rows of its own and touches no other.
LEMMA CreateRows ==
  ASSUME TypeOK, NEW w \in Workers, CreateCommit(w)
  PROVE /\ DOMAIN requests \subseteq DOMAIN requests'
        /\ \A i \in DOMAIN requests : requests'[i] = requests[i]
        /\ \A i \in DOMAIN requests' \ DOMAIN requests : NewRow(w, i)
        /\ requests' \in [DOMAIN requests' -> NodeSharingRequest]
<1>1. PICK new \in SUBSET (Ids \ Drawn) :
          \E nodeOf \in [new -> req[w].all], told \in new :
              InsertRequests(w, new, nodeOf, told)
    BY DEF CreateCommit
<1>2. PICK nodeOf \in [new -> req[w].all], told \in new :
          InsertRequests(w, new, nodeOf, told)
    BY <1>1
<1>3. /\ req[w].from \in Users /\ req[w].to \in Names
      /\ req[w].all \subseteq Nodes
    BY DEF CreateCommit, TypeOK, Request, Idle
<1>4. \A i \in new : NewRequest(w, nodeOf[i], told) \in NodeSharingRequest
    BY <1>3 DEF NewRequest, NodeSharingRequest
<1>5. \A i \in new : /\ NewRequest(w, nodeOf[i], told).node \in req[w].all
                      /\ NewRequest(w, nodeOf[i], told).from = req[w].from
    BY DEF NewRequest
<1> QED BY <1>2, <1>4, <1>5 DEF InsertRequests, NewRow, TypeOK

\* An invitation keeps what it says until it goes with its sender.
LEMMA StepRows ==
  ASSUME TypeOK, [Next]_vars, NEW i \in DOMAIN requests
  PROVE RowKept(i) \/ (accounts'[requests[i].from] = "deleted" /\ i \notin DOMAIN requests')
<1> USE DEF TypeOK, RowKept
<1>1. CASE UNCHANGED requests
    BY <1>1
<1>2. ASSUME NEW u \in Users, DeleteUser(u)
      PROVE RowKept(i) \/ (accounts'[requests[i].from] = "deleted" /\ i \notin DOMAIN requests')
    BY <1>2 DEF DeleteUser, WithoutSender, Members
<1>3. ASSUME NEW w \in Workers, CreateCommit(w) PROVE RowKept(i)
    BY <1>3, CreateRows
<1>4. ASSUME NEW w \in Workers, ResolveCommit(w) PROVE RowKept(i)
    BY <1>4 DEF ResolveCommit, RowStands, NodeSharingRequest
<1>5. ASSUME NEW w \in Workers, AcceptCommit(w) PROVE RowKept(i)
    BY <1>5 DEF AcceptCommit, MarkAccepted, RowStands, NodeSharingRequest
<1>6. ASSUME NEW j \in DOMAIN requests, Elapse(j) PROVE RowKept(i)
    BY <1>6 DEF Elapse, NodeSharingRequest
<1> QED BY <1>1, <1>2, <1>3, <1>4, <1>5, <1>6, StepKinds
        DEF SameTables, SignUp, RevokeCommit, MapNode, UnmapNode

\* A row that a step adds has a key nobody carried.
LEMMA StepNewRows ==
  ASSUME TypeOK, [Next]_vars, NEW i \in DOMAIN requests', i \notin DOMAIN requests
  PROVE \E w \in Workers : CreateCommit(w) /\ NewRow(w, i)
<1>1. CASE DOMAIN requests' \subseteq DOMAIN requests
    BY <1>1
<1>2. ASSUME NEW w \in Workers, CreateCommit(w) PROVE NewRow(w, i)
    BY <1>2, CreateRows
<1> QED BY <1>1, <1>2, StepKinds
        DEF SameTables, SignUp, DeleteUser, WithoutSender, ResolveCommit,
            AcceptCommit, MarkAccepted, RevokeCommit, MapNode, UnmapNode, Elapse

-----------------------------------------------------------------------------
(* Types.                                                                  *)

\* The empty tables satisfy the invariant.
LEMMA InitInv == Init => Inv
<1> SUFFICES ASSUME Init PROVE Inv
    OBVIOUS
<1> USE DEF Init
<1>1. TypeOK
    BY DEF TypeOK, Request
<1>2. RowsJustified /\ ShareJustified /\ owners \subseteq askedBy
    BY DEF RowsJustified, ShareJustified
<1>3. CreateInv /\ AnswerInv /\ RevokeInv
    BY DEF CreateInv, AnswerInv, RevokeInv, Answers, Idle
<1> QED BY <1>1, <1>2, <1>3 DEF Inv

\* Every step leaves well-typed tables.
LEMMA TableTypes ==
  ASSUME TypeOK, [Next]_vars
  PROVE /\ accounts' \in [Users -> {"new", "member", "deleted"}]
        /\ owners' \subseteq Users \X Nodes
        /\ DOMAIN requests' \subseteq Ids
        /\ requests' \in [DOMAIN requests' -> NodeSharingRequest]
        /\ shares' \subseteq NodeSharing
        /\ askedBy' \subseteq Users \X Nodes
<1> USE DEF TypeOK
<1>1. CASE SameTables
    BY <1>1 DEF SameTables
<1>3. CASE \E u \in Users : SignUp(u)
    BY <1>3 DEF SignUp
<1>4. CASE \E u \in Users : DeleteUser(u)
    BY <1>4 DEF DeleteUser, WithoutSender
<1>5. CASE \E w \in Workers : CreateCommit(w)
  <2> PICK w \in Workers : CreateCommit(w)
      BY <1>5
  <2>1. DOMAIN requests' \subseteq Ids
      BY CreateRows DEF NewRow
  <2>2. requests' \in [DOMAIN requests' -> NodeSharingRequest]
      BY CreateRows
  <2> QED BY <2>1, <2>2 DEF CreateCommit
<1>6. CASE \E w \in Workers : ResolveCommit(w)
  <2> PICK w \in Workers : ResolveCommit(w)
      BY <1>6
  <2> DEFINE st == IF req[w].pc = "expire" THEN "expired" ELSE "declined"
  <2>1. st \in {"expired", "declined"}
      OBVIOUS
  <2>2. requests' = [requests EXCEPT ![req[w].row].status = st]
      BY DEF ResolveCommit
  <2> HIDE DEF st
  <2>3. requests' \in [DOMAIN requests -> NodeSharingRequest]
      BY <2>1, <2>2 DEF ResolveCommit, RowStands, NodeSharingRequest
  <2> QED BY <2>3 DEF ResolveCommit
<1>7. CASE \E w \in Workers : AcceptCommit(w)
  <2> PICK w \in Workers : AcceptCommit(w)
      BY <1>7
  <2>1. /\ req[w].row \in Ids /\ req[w].user \in Users
        /\ req[w].held \in NodeSharingRequest
      BY DEF AcceptCommit, Request, Idle
  <2>2. NewShare(w) \in NodeSharing
      BY <2>1 DEF NewShare, NodeSharing, NodeSharingRequest
  <2>3. requests' \in [DOMAIN requests -> NodeSharingRequest]
      BY DEF AcceptCommit, MarkAccepted, RowStands, NodeSharingRequest
  <2> QED BY <2>2, <2>3 DEF AcceptCommit
<1>8. CASE \E w \in Workers : RevokeCommit(w)
    BY <1>8 DEF RevokeCommit
<1>9. CASE \E u \in Users, n \in Nodes : MapNode(u, n) \/ UnmapNode(u, n)
    BY <1>9 DEF MapNode, UnmapNode
<1>10. CASE \E i \in DOMAIN requests : Elapse(i)
  <2> PICK i \in DOMAIN requests : Elapse(i)
      BY <1>10
  <2>1. requests' \in [DOMAIN requests -> NodeSharingRequest]
      BY DEF Elapse, NodeSharingRequest
  <2> QED BY <2>1 DEF Elapse
<1> QED BY <1>1, <1>3, <1>4, <1>5, <1>6, <1>7, <1>8, <1>9, <1>10, StepKinds

\* Every step leaves every worker with a well-typed request.
LEMMA RequestTypes ==
  ASSUME TypeOK, [Next]_vars
  PROVE req' \in [Workers -> Request]
<1> USE NamesAssumption DEF TypeOK
<1>1. ASSUME NEW w \in Workers, NEW u \in Users, NEW v \in Invitees, NEW n \in Nodes,
             NEW N \in SUBSET Nodes, CreateRequest(w, u, v, n, N)
      PROVE req' \in [Workers -> Request]
    BY <1>1 DEF CreateRequest, Request
<1>2. ASSUME NEW w \in Workers, NEW u \in Users, NEW i \in DOMAIN requests,
             NEW a \in BOOLEAN, AcceptOrDecline(w, u, i, a)
      PROVE req' \in [Workers -> Request]
  <2>1. AnswerBranch(i, a) \in {"accept", "decline", "expire"}
      BY DEF AnswerBranch
  <2>2. i \in Ids /\ requests[i] \in NodeSharingRequest
      OBVIOUS
  <2> DEFINE branch == AnswerBranch(i, a)
  <2> HIDE DEF branch
  <2>3. [pc |-> branch, row |-> i, user |-> u, held |-> requests[i]] \in Request
      BY <2>1, <2>2 DEF Request, branch
  <2>4. req' = [req EXCEPT ![w] = [pc |-> branch, row |-> i, user |-> u,
                                   held |-> requests[i]]]
      BY <1>2 DEF AcceptOrDecline, branch
  <2> QED BY <2>3, <2>4
<1>3. ASSUME NEW w \in Workers, NEW u \in Users, NEW v \in Users,
             NEW N \in SUBSET Nodes, RevokeShare(w, u, v, N)
      PROVE req' \in [Workers -> Request]
    BY <1>3 DEF RevokeShare, Request
<1>4. ASSUME NEW w \in Workers, NEW n \in Nodes, CreateCheck(w, n)
      PROVE req' \in [Workers -> Request]
  <2>1. req[w] \in [pc : {"create"}, from : Users, to : Names, first : Nodes,
                    todo : SUBSET Nodes, all : SUBSET Nodes]
      BY <1>4 DEF CreateCheck, Request, Idle
  <2>2. [req[w] EXCEPT !.todo = @ \ {n}] \in Request
      BY <2>1 DEF Request
  <2>3. CASE Reply(w)
      BY <2>3 DEF Reply, Request
  <2>4. CASE req' = [req EXCEPT ![w] = [req[w] EXCEPT !.todo = @ \ {n}]]
      BY <2>2, <2>4
  <2> QED BY <1>4, <2>3, <2>4 DEF CreateCheck
<1>5. ASSUME NEW w \in Workers, NEW n \in Nodes, RevokeCheck(w, n)
      PROVE req' \in [Workers -> Request]
  <2>1. req[w] \in [pc : {"revoke"}, from : Users, to : Users,
                    todo : SUBSET Nodes, found : SUBSET NodeSharing]
      BY <1>5 DEF RevokeCheck, Request, Idle
  <2>2. Revocable(req[w].from, req[w].to, n) \subseteq NodeSharing
      BY DEF Revocable, ShareOf
  <2>3. [req[w] EXCEPT !.todo = @ \ {n},
                       !.found = @ \cup Revocable(req[w].from, req[w].to, n)] \in Request
      BY <2>1, <2>2 DEF Request
  <2>4. req' = [req EXCEPT ![w] =
                  [req[w] EXCEPT !.todo = @ \ {n},
                                 !.found = @ \cup Revocable(req[w].from, req[w].to, n)]]
      BY <1>5 DEF RevokeCheck
  <2> QED BY <2>3, <2>4
<1>6. ASSUME NEW w \in Workers, AcceptLookup(w) PROVE req' \in [Workers -> Request]
  <2>1. /\ req[w].row \in Ids /\ req[w].user \in Users
        /\ req[w].held \in NodeSharingRequest
      BY <1>6 DEF AcceptLookup, Request, Idle
  <2> QED BY <1>6, <2>1 DEF AcceptLookup, Request
<1>7. ASSUME NEW w \in Workers, Reply(w) PROVE req' \in [Workers -> Request]
    BY <1>7 DEF Reply, Request
<1>8. CASE UNCHANGED req
    BY <1>8
<1> QED BY <1>1, <1>2, <1>3, <1>4, <1>5, <1>6, <1>7, <1>8, RequestKinds

-----------------------------------------------------------------------------
(* The tables stay justified.                                              *)

\* An account ends with its cascades, in one step.
LEMMA StepMembers ==
  ASSUME TypeOK, [Next]_vars, NEW u \in Members
  PROVE u \in Members' \/ DeleteUser(u)
<1> USE DEF TypeOK, Members
<1>1. ASSUME NEW v \in Users, SignUp(v) PROVE u \in Members'
    BY <1>1 DEF SignUp
<1>2. ASSUME NEW v \in Users, DeleteUser(v) PROVE u \in Members' \/ DeleteUser(u)
  <2>1. CASE u = v
      BY <1>2, <2>1
  <2>2. CASE u # v
      BY <1>2, <2>2 DEF DeleteUser
  <2> QED BY <2>1, <2>2
<1>3. CASE UNCHANGED accounts
    BY <1>3
<1> QED BY <1>1, <1>2, <1>3, StepKinds
        DEF SameTables, CreateCommit, ResolveCommit, AcceptCommit, RevokeCommit,
            MapNode, UnmapNode, Elapse

\* Who owns a node is on record as having owned it.
LEMMA OwnersStep ==
  ASSUME TypeOK, owners \subseteq askedBy, [Next]_vars
  PROVE owners' \subseteq askedBy'
BY StepKinds
   DEF SameTables, SignUp, DeleteUser, CreateCommit, ResolveCommit, AcceptCommit,
       RevokeCommit, MapNode, UnmapNode, Elapse

\* Invitations are inserted after the check and go with their sender.
LEMMA RowsStep ==
  ASSUME TypeOK, RowsJustified, CreateInv, [Next]_vars
  PROVE RowsJustified'
<1> SUFFICES ASSUME NEW i \in DOMAIN requests'
             PROVE /\ requests'[i].from \in Members'
                   /\ <<requests'[i].from, requests'[i].node>> \in askedBy'
    BY DEF RowsJustified
<1>1. CASE i \in DOMAIN requests
  <2>1. RowKept(i)
      BY <1>1, StepRows
  <2>2. /\ requests[i].from \in Members
        /\ <<requests[i].from, requests[i].node>> \in askedBy
      BY <1>1 DEF RowsJustified
  <2>3. ~DeleteUser(requests[i].from)
      BY <1>1 DEF DeleteUser, WithoutSender
  <2>4. requests[i].from \in Members'
      BY <2>2, <2>3, StepMembers
  <2>5. requests[i].node \in Nodes
      BY <1>1 DEF TypeOK, NodeSharingRequest
  <2> QED BY <2>1, <2>2, <2>4, <2>5, StepAccounts DEF RowKept, AccountsEvolve
<1>2. CASE i \notin DOMAIN requests
  <2>1. PICK w \in Workers : CreateCommit(w) /\ NewRow(w, i)
      BY <1>2, StepNewRows
  <2>2. req[w].pc = "create" /\ req[w].todo = {} /\ req[w].from \in Members
      BY <2>1 DEF CreateCommit
  <2>3. \A n \in req[w].all : <<req[w].from, n>> \in askedBy
      BY <2>2 DEF CreateInv
  <2>4. Members' = Members /\ askedBy' = askedBy
      BY <2>1 DEF CreateCommit, Members
  <2> QED BY <2>1, <2>2, <2>3, <2>4 DEF NewRow
<1> QED BY <1>1, <1>2

\* Only the commit of an acceptance adds a share, and only the one it may.
LEMMA StepShares ==
  ASSUME [Next]_vars, NEW s \in shares', s \notin shares
  PROVE \E w \in Workers : /\ AcceptCommit(w)
                           /\ KeysHold(w)
                           /\ s = NewShare(w)
BY StepKinds
   DEF SameTables, SignUp, DeleteUser, CreateCommit, ResolveCommit, AcceptCommit,
       RevokeCommit, MapNode, UnmapNode, Elapse

\* Shares come from an answered invitation and go with either end.
LEMMA SharesStep ==
  ASSUME TypeOK, RowsJustified, ShareJustified, AnswerInv, [Next]_vars
  PROVE ShareJustified'
<1> SUFFICES ASSUME NEW s \in shares'
             PROVE /\ s.via \in DOMAIN requests'
                   /\ requests'[s.via].status # "pending"
                   /\ requests'[s.via].node = s.node
                   /\ requests'[s.via].from = s.from
                   /\ requests'[s.via].to = NameOf[s.to]
                   /\ <<s.from, s.node>> \in askedBy'
                   /\ {s.from, s.to} \subseteq Members'
    BY DEF ShareJustified
<1>1. CASE s \in shares
  <2>1. /\ s.via \in DOMAIN requests
        /\ requests[s.via].status # "pending"
        /\ requests[s.via].node = s.node
        /\ requests[s.via].from = s.from
        /\ requests[s.via].to = NameOf[s.to]
        /\ <<s.from, s.node>> \in askedBy
        /\ s.from \in Members /\ s.to \in Members
      BY <1>1 DEF ShareJustified
  <2>2. ~DeleteUser(s.from) /\ ~DeleteUser(s.to)
      BY DEF DeleteUser
  <2>3. s.from \in Members' /\ s.to \in Members'
      BY <2>1, <2>2, StepMembers
  <2>4. RowKept(s.via)
      BY <2>1, <2>3, StepRows DEF Members
  <2>5. s.node \in Nodes
      BY <1>1 DEF TypeOK, NodeSharing
  <2>6. <<s.from, s.node>> \in askedBy'
      BY <2>1, <2>3, <2>5, StepAccounts DEF AccountsEvolve
  <2> QED BY <2>1, <2>3, <2>4, <2>6 DEF RowKept
<1>2. CASE s \notin shares
  <2>1. PICK w \in Workers : AcceptCommit(w) /\ KeysHold(w) /\ s = NewShare(w)
      BY <1>2, StepShares
  <2> DEFINE i == req[w].row
  <2>2. /\ i \in DOMAIN requests
        /\ requests' = [requests EXCEPT ![i].status = "accepted"]
        /\ UNCHANGED <<accounts, askedBy>>
      BY <2>1 DEF AcceptCommit, RowStands, MarkAccepted
  <2>3. /\ s.via = i
        /\ s.node = req[w].held.node /\ s.from = req[w].held.from
        /\ s.to = req[w].user
      BY <2>1 DEF NewShare
  <2>4. /\ req[w].held.to = NameOf[s.to]
        /\ s.node = requests[i].node /\ s.from = requests[i].from
        /\ req[w].held.to = requests[i].to
      BY <2>1, <2>2, <2>3 DEF AnswerInv, Answers, RowStands, AcceptCommit
  <2>5. /\ i \in DOMAIN requests'
        /\ requests'[i].status = "accepted" /\ requests'[i].node = requests[i].node
        /\ requests'[i].from = requests[i].from /\ requests'[i].to = requests[i].to
      BY <2>2 DEF TypeOK, NodeSharingRequest
  <2>6. <<s.from, s.node>> \in askedBy'
      BY <2>2, <2>4 DEF RowsJustified
  <2>7. {s.from, s.to} \subseteq Members'
      BY <2>1, <2>2 DEF KeysHold, Members
  <2> HIDE DEF i
  <2> QED BY <2>3, <2>4, <2>5, <2>6, <2>7
<1> QED BY <1>1, <1>2

-----------------------------------------------------------------------------
(* What the requests remember stays true.                                  *)

\* A worker keeps its request, ends it, or takes one step of it.
Moves(w) ==
    \/ req'[w] = req[w]
    \/ req'[w] = Idle
    \/ \E u \in Users, v \in Invitees, n \in Nodes, N \in SUBSET Nodes :
          CreateRequest(w, u, v, n, N)
    \/ \E u \in Users, i \in DOMAIN requests, a \in BOOLEAN :
          AcceptOrDecline(w, u, i, a)
    \/ \E u, v \in Users, N \in SUBSET Nodes : RevokeShare(w, u, v, N)
    \/ \E n \in Nodes : CreateCheck(w, n) /\ req'[w] # Idle
    \/ \E n \in Nodes : RevokeCheck(w, n)
    \/ AcceptLookup(w)

\* What Moves says holds of every step and worker.
LEMMA StepMoves ==
  ASSUME TypeOK, [Next]_vars, NEW w \in Workers
  PROVE Moves(w)
<1> USE DEF Moves
<1>1. ASSUME NEW x \in Workers, x # w,
             \E r : req' = [req EXCEPT ![x] = r]
      PROVE req'[w] = req[w]
    BY <1>1 DEF TypeOK
<1>2. ASSUME NEW x \in Workers, Reply(x) PROVE Moves(w)
    BY <1>2 DEF Reply, TypeOK
<1>3. ASSUME NEW x \in Workers, NEW u \in Users, NEW v \in Invitees, NEW n \in Nodes,
             NEW N \in SUBSET Nodes, CreateRequest(x, u, v, n, N)
      PROVE Moves(w)
    BY <1>1, <1>3 DEF CreateRequest
<1>4. ASSUME NEW x \in Workers, NEW u \in Users, NEW i \in DOMAIN requests,
             NEW a \in BOOLEAN, AcceptOrDecline(x, u, i, a)
      PROVE Moves(w)
    BY <1>1, <1>4 DEF AcceptOrDecline
<1>5. ASSUME NEW x \in Workers, NEW u \in Users, NEW v \in Users,
             NEW N \in SUBSET Nodes, RevokeShare(x, u, v, N)
      PROVE Moves(w)
    BY <1>1, <1>5 DEF RevokeShare
<1>6. ASSUME NEW x \in Workers, NEW n \in Nodes, CreateCheck(x, n) PROVE Moves(w)
    BY <1>1, <1>6 DEF CreateCheck, Reply
<1>7. ASSUME NEW x \in Workers, NEW n \in Nodes, RevokeCheck(x, n) PROVE Moves(w)
    BY <1>1, <1>7 DEF RevokeCheck
<1>8. ASSUME NEW x \in Workers, AcceptLookup(x) PROVE Moves(w)
    BY <1>1, <1>8 DEF AcceptLookup
<1>9. CASE UNCHANGED req
    BY <1>9
<1> QED BY <1>2, <1>3, <1>4, <1>5, <1>6, <1>7, <1>8, <1>9, RequestKinds

\* A node leaves the todo list only after the ownership check.
LEMMA CreateInvStep ==
  ASSUME TypeOK, owners \subseteq askedBy, CreateInv, [Next]_vars
  PROVE CreateInv'
<1> SUFFICES ASSUME NEW w \in Workers, req'[w].pc = "create"
             PROVE /\ accounts'[req'[w].from] # "new"
                   /\ req'[w].from \in Members' =>
                        \A n \in req'[w].all \ req'[w].todo :
                            <<req'[w].from, n>> \in askedBy'
    BY DEF CreateInv
<1>1. CASE req'[w] = req[w]
  <2>1. req[w].from \in Users /\ req[w].all \subseteq Nodes
      BY <1>1 DEF TypeOK, Request, Idle
  <2> QED BY <1>1, <2>1, StepAccounts DEF CreateInv, AccountsEvolve
<1>2. ASSUME NEW u \in Users, NEW v \in Invitees, NEW n \in Nodes, NEW N \in SUBSET Nodes,
             CreateRequest(w, u, v, n, N)
      PROVE /\ req'[w].from = u /\ req'[w].all = N /\ req'[w].todo = N
            /\ accounts'[u] = "member"
    BY <1>2 DEF CreateRequest, TypeOK, Members
<1>3. ASSUME NEW n \in Nodes, CreateCheck(w, n), req'[w] # Idle
      PROVE /\ accounts'[req'[w].from] # "new"
            /\ req'[w].from \in Members' =>
                 \A m \in req'[w].all \ req'[w].todo :
                     <<req'[w].from, m>> \in askedBy'
  <2>1. req[w].pc = "create" /\ UNCHANGED <<accounts, askedBy>>
      BY <1>3 DEF CreateCheck
  <2>2. /\ <<req[w].from, n>> \in askedBy
        /\ req' = [req EXCEPT ![w] = [req[w] EXCEPT !.todo = @ \ {n}]]
      BY <1>3 DEF CreateCheck, Reply, Owns, TypeOK
  <2>3. req[w] \in [pc : {"create"}, from : Users, to : Names, first : Nodes,
                    todo : SUBSET Nodes, all : SUBSET Nodes]
      BY <2>1 DEF TypeOK, Request, Idle
  <2>4. /\ req'[w].from = req[w].from /\ req'[w].all = req[w].all
        /\ req'[w].todo = req[w].todo \ {n}
      BY <2>2, <2>3 DEF TypeOK
  <2> QED BY <2>1, <2>2, <2>4 DEF CreateInv, Members
<1>4. Moves(w)
    BY StepMoves
<1>5. ~AcceptLookup(w) /\ \A n \in Nodes : ~RevokeCheck(w, n)
  <2>1. ASSUME AcceptLookup(w) PROVE FALSE
      BY <2>1 DEF AcceptLookup, TypeOK
  <2>2. ASSUME NEW n \in Nodes, RevokeCheck(w, n) PROVE FALSE
    <3>1. req[w] \in [pc : {"revoke"}, from : Users, to : Users,
                      todo : SUBSET Nodes, found : SUBSET NodeSharing]
        BY <2>2 DEF RevokeCheck, TypeOK, Request, Idle
    <3> QED BY <2>2, <3>1 DEF RevokeCheck, TypeOK
  <2> QED BY <2>1, <2>2
<1>6. ASSUME NEW u \in Users, NEW i \in DOMAIN requests, NEW a \in BOOLEAN,
             AcceptOrDecline(w, u, i, a)
      PROVE FALSE
    BY <1>6 DEF AcceptOrDecline, AnswerBranch, TypeOK
<1>7. ASSUME NEW u \in Users, NEW v \in Users, NEW N \in SUBSET Nodes,
             RevokeShare(w, u, v, N)
      PROVE FALSE
    BY <1>7 DEF RevokeShare, TypeOK
<1>8. req'[w] # Idle
    BY DEF Idle
<1>9. CASE \E u \in Users, v \in Invitees, n \in Nodes, N \in SUBSET Nodes :
              CreateRequest(w, u, v, n, N)
    BY <1>2, <1>9
<1> QED BY <1>1, <1>3, <1>4, <1>5, <1>6, <1>7, <1>8, <1>9 DEF Moves

\* How a worker comes to carry an answer.
LEMMA AnswerMoves ==
  ASSUME TypeOK, [Next]_vars, NEW w \in Workers, Answers(w)'
  PROVE \/ req'[w] = req[w]
        \/ \E u \in Users, i \in DOMAIN requests, a \in BOOLEAN :
              AcceptOrDecline(w, u, i, a)
        \/ AcceptLookup(w)
<1> USE DEF Answers, TypeOK
<1>1. req'[w] # Idle
    BY DEF Idle
<1>2. ASSUME NEW u \in Users, NEW v \in Invitees, NEW n \in Nodes, NEW N \in SUBSET Nodes,
             CreateRequest(w, u, v, n, N)
      PROVE FALSE
    BY <1>2 DEF CreateRequest
<1>3. ASSUME NEW u \in Users, NEW v \in Users, NEW N \in SUBSET Nodes,
             RevokeShare(w, u, v, N)
      PROVE FALSE
    BY <1>3 DEF RevokeShare
<1>4. ASSUME NEW n \in Nodes, CreateCheck(w, n), req'[w] # Idle PROVE FALSE
  <2>1. req[w] \in [pc : {"create"}, from : Users, to : Names, first : Nodes,
                    todo : SUBSET Nodes, all : SUBSET Nodes]
      BY <1>4 DEF CreateCheck, Request, Idle
  <2>2. req' = [req EXCEPT ![w] = [req[w] EXCEPT !.todo = @ \ {n}]]
      BY <1>4 DEF CreateCheck, Reply
  <2> QED BY <2>1, <2>2
<1>5. ASSUME NEW n \in Nodes, RevokeCheck(w, n) PROVE FALSE
  <2>1. req[w] \in [pc : {"revoke"}, from : Users, to : Users,
                    todo : SUBSET Nodes, found : SUBSET NodeSharing]
      BY <1>5 DEF RevokeCheck, Request, Idle
  <2> QED BY <1>5, <2>1 DEF RevokeCheck
<1> QED BY <1>1, <1>2, <1>3, <1>4, <1>5, StepMoves DEF Moves

\* The row a request loaded and the stored one agree: rows are immutable but
\* for their status, and a key that is carried is not drawn again.
LEMMA AnswerInvStep ==
  ASSUME TypeOK, AnswerInv, [Next]_vars
  PROVE AnswerInv'
<1> DEFINE Row(w) ==
      RowStands(w)' => /\ req'[w].held.node = requests'[req'[w].row].node
                       /\ req'[w].held.from = requests'[req'[w].row].from
                       /\ req'[w].held.to = requests'[req'[w].row].to
<1> SUFFICES ASSUME NEW w \in Workers, Answers(w)'
             PROVE req'[w].held.to = NameOf[req'[w].user] /\ Row(w)
    BY DEF AnswerInv
<1>1. ASSUME Answers(w),
             req'[w].row = req[w].row, req'[w].user = req[w].user,
             req'[w].held = req[w].held
      PROVE req'[w].held.to = NameOf[req'[w].user] /\ Row(w)
  <2>1. CASE req[w].row \in DOMAIN requests
      BY <1>1, <2>1, StepRows DEF AnswerInv, RowStands, RowKept
  <2>2. CASE req[w].row \notin DOMAIN requests
    <3>1. req[w].row \in Drawn
        BY <1>1 DEF Drawn
    <3>2. req[w].row \notin DOMAIN requests'
        BY <2>2, <3>1, StepNewRows DEF NewRow
    <3> QED BY <1>1, <3>2 DEF AnswerInv, RowStands
  <2> QED BY <2>1, <2>2
<1>2. CASE req'[w] = req[w]
  <2>1. Answers(w)
      BY <1>2 DEF Answers
  <2> QED BY <1>1, <1>2, <2>1
<1>3. CASE AcceptLookup(w)
  <2>1. Answers(w)
      BY <1>3 DEF Answers, AcceptLookup
  <2>2. /\ req'[w].row = req[w].row /\ req'[w].user = req[w].user
        /\ req'[w].held = req[w].held
      BY <1>3 DEF AcceptLookup, TypeOK
  <2> QED BY <1>1, <2>1, <2>2
<1>4. ASSUME NEW u \in Users, NEW i \in DOMAIN requests, NEW a \in BOOLEAN,
             AcceptOrDecline(w, u, i, a)
      PROVE req'[w].held.to = NameOf[req'[w].user] /\ Row(w)
  <2>1. /\ req'[w].row = i /\ req'[w].user = u /\ req'[w].held = requests[i]
        /\ requests' = requests
      BY <1>4 DEF AcceptOrDecline, TypeOK
  <2> QED BY <1>4, <2>1 DEF AcceptOrDecline, Answerable
<1> QED BY <1>2, <1>3, <1>4, AnswerMoves

\* Only shares of the caller are collected.
LEMMA RevokeInvStep ==
  ASSUME TypeOK, RevokeInv, [Next]_vars
  PROVE RevokeInv'
<1> SUFFICES ASSUME NEW w \in Workers, req'[w].pc = "revoke"
             PROVE \A s \in req'[w].found : s.from = req'[w].from
    BY DEF RevokeInv
<1> USE DEF TypeOK
<1>1. CASE req'[w] = req[w]
    BY <1>1 DEF RevokeInv
<1>2. ASSUME NEW u \in Users, NEW v \in Users, NEW N \in SUBSET Nodes,
             RevokeShare(w, u, v, N)
      PROVE req'[w].found = {}
    BY <1>2 DEF RevokeShare
<1>3. ASSUME NEW n \in Nodes, RevokeCheck(w, n)
      PROVE \A s \in req'[w].found : s.from = req'[w].from
  <2>1. req[w] \in [pc : {"revoke"}, from : Users, to : Users,
                    todo : SUBSET Nodes, found : SUBSET NodeSharing]
      BY <1>3 DEF RevokeCheck, Request, Idle
  <2>2. /\ req'[w].from = req[w].from
        /\ req'[w].found = req[w].found \cup Revocable(req[w].from, req[w].to, n)
      BY <1>3, <2>1 DEF RevokeCheck
  <2> QED BY <2>1, <2>2 DEF RevokeInv, Revocable
<1>4. req'[w] # Idle
    BY DEF Idle
<1>5. ASSUME NEW n \in Nodes, CreateCheck(w, n), req'[w] # Idle PROVE FALSE
  <2>1. req[w] \in [pc : {"create"}, from : Users, to : Names, first : Nodes,
                    todo : SUBSET Nodes, all : SUBSET Nodes]
      BY <1>5 DEF CreateCheck, Request, Idle
  <2>2. req' = [req EXCEPT ![w] = [req[w] EXCEPT !.todo = @ \ {n}]]
      BY <1>5 DEF CreateCheck, Reply
  <2> QED BY <2>1, <2>2
<1>6. ASSUME NEW u \in Users, NEW i \in DOMAIN requests, NEW a \in BOOLEAN,
             AcceptOrDecline(w, u, i, a)
      PROVE FALSE
    BY <1>6 DEF AcceptOrDecline, AnswerBranch
<1>7. ASSUME NEW u \in Users, NEW v \in Invitees, NEW n \in Nodes, NEW N \in SUBSET Nodes,
             CreateRequest(w, u, v, n, N)
      PROVE FALSE
    BY <1>7 DEF CreateRequest
<1>8. ~AcceptLookup(w)
    BY DEF AcceptLookup
<1>9. CASE \E u, v \in Users, N \in SUBSET Nodes : RevokeShare(w, u, v, N)
    BY <1>2, <1>9
<1> QED BY <1>1, <1>3, <1>4, <1>5, <1>6, <1>7, <1>8, <1>9, StepMoves DEF Moves

\* The invariant is inductive.
LEMMA InvStep ==
  ASSUME Inv, [Next]_vars
  PROVE Inv'
<1>1. TypeOK'
    BY TableTypes, RequestTypes DEF Inv, TypeOK
<1> QED BY <1>1, OwnersStep, RowsStep, SharesStep, CreateInvStep, AnswerInvStep,
           RevokeInvStep
        DEF Inv

-----------------------------------------------------------------------------
(* Theorems.                                                               *)

\* The invariant is inductive, so it holds of every reachable state.
THEOREM InvHolds == Spec => []Inv
<1>1. Inv /\ [Next]_vars => Inv'
    BY InvStep
<1> QED BY <1>1, InitInv, PTL DEF Spec

\* The tables and the requests under way keep their types.
THEOREM TypeCorrect == Spec => []TypeOK
<1>1. Inv => TypeOK
    BY DEF Inv
<1> QED BY <1>1, InvHolds, PTL

\* No share stands without the resolved invitation of an owner to the name
\* of its holder, both with an account, whatever is deleted in between.
THEOREM SharesJustified == Spec => []ShareJustified
<1>1. Inv => ShareJustified
    BY DEF Inv
<1> QED BY <1>1, InvHolds, PTL

\* Access to a node changes only by the consent of those concerned.
THEOREM ConsentOnly == Spec => AccessOnlyByConsent
<1>1. Inv /\ [Next]_vars =>
        \A u \in Users, n \in Nodes :
          /\ ~has_access(u, n) /\ n \in accessible_node_ids(u)' =>
                \/ <<u, n>> \in owners'
                \/ \E w \in Workers : /\ req[w].pc = "grant"
                                      /\ req[w].user = u
                                      /\ req[w].held.to = NameOf[u]
          /\ \A s \in shares \ shares' :
                \/ \E w \in Workers : /\ req[w].pc = "revoke"
                                      /\ req[w].from = s.from
                \/ "deleted" \in {accounts'[s.from], accounts'[s.to]}
  <2> SUFFICES ASSUME Inv, [Next]_vars, NEW u \in Users, NEW n \in Nodes
               PROVE /\ ~has_access(u, n) /\ n \in accessible_node_ids(u)' =>
                           \/ <<u, n>> \in owners'
                           \/ \E w \in Workers : /\ req[w].pc = "grant"
                                                 /\ req[w].user = u
                                                 /\ req[w].held.to = NameOf[u]
                     /\ \A s \in shares \ shares' :
                           \/ \E w \in Workers : /\ req[w].pc = "revoke"
                                                 /\ req[w].from = s.from
                           \/ "deleted" \in {accounts'[s.from], accounts'[s.to]}
      OBVIOUS
  <2>1. ASSUME ~has_access(u, n), n \in accessible_node_ids(u)', <<u, n>> \notin owners'
        PROVE \E w \in Workers : /\ req[w].pc = "grant"
                                 /\ req[w].user = u
                                 /\ req[w].held.to = NameOf[u]
    <3>1. PICK s \in shares' : s.to = u /\ s.node = n
        BY <2>1 DEF accessible_node_ids
    <3>2. s \notin shares
        BY <2>1, <3>1 DEF has_access
    <3>3. PICK w \in Workers : AcceptCommit(w) /\ s = NewShare(w)
        BY <3>2, StepShares
    <3>4. req[w].pc = "grant" /\ req[w].user = u
        BY <3>1, <3>3 DEF AcceptCommit, NewShare
    <3> QED BY <3>4 DEF Inv, AnswerInv, Answers
  <2>2. ASSUME NEW s \in shares \ shares'
        PROVE \/ \E w \in Workers : req[w].pc = "revoke" /\ req[w].from = s.from
              \/ "deleted" \in {accounts'[s.from], accounts'[s.to]}
    <3>1. ASSUME NEW v \in Users, DeleteUser(v)
          PROVE "deleted" \in {accounts'[s.from], accounts'[s.to]}
        BY <2>2, <3>1 DEF DeleteUser, Inv, TypeOK
    <3>2. ASSUME NEW w \in Workers, RevokeCommit(w)
          PROVE req[w].pc = "revoke" /\ req[w].from = s.from
        BY <2>2, <3>2 DEF RevokeCommit, Inv, RevokeInv
    <3> QED BY <2>2, <3>1, <3>2, StepKinds
            DEF SameTables, SignUp, CreateCommit, ResolveCommit, AcceptCommit,
                MapNode, UnmapNode, Elapse
  <2> QED BY <2>1, <2>2
<1> QED BY <1>1, InvHolds, PTL DEF Spec, AccessOnlyByConsent

\* A share, or an answer under way, that a step makes out of an invitation
\* nobody was answering: there is no such share, and the answer is new.
LEMMA Unanswered ==
  ASSUME TypeOK, [Next]_vars, NEW i \in DOMAIN requests, Answering(i) = {}
  PROVE /\ \A s \in shares' \ shares : s.via # i
        /\ \A w \in Answering(i)' :
              \E u \in Users, a \in BOOLEAN : AcceptOrDecline(w, u, i, a)
<1>1. ASSUME NEW s \in shares' \ shares, s.via = i PROVE FALSE
  <2>1. PICK w \in Workers : AcceptCommit(w) /\ s = NewShare(w)
      BY StepShares
  <2>2. Answers(w) /\ req[w].row = i
      BY <1>1, <2>1 DEF AcceptCommit, NewShare, Answers
  <2> QED BY <2>2 DEF Answering
<1>2. ASSUME NEW w \in Workers, Answers(w)', req'[w].row = i
      PROVE \E u \in Users, a \in BOOLEAN : AcceptOrDecline(w, u, i, a)
  <2>1. req'[w] # req[w]
      BY <1>2 DEF Answering, Answers
  <2>2. ~AcceptLookup(w)
    <3>1. ASSUME AcceptLookup(w) PROVE Answers(w) /\ req[w].row = i
        BY <1>2, <3>1 DEF AcceptLookup, Answers, TypeOK
    <3> QED BY <3>1 DEF Answering
  <2>3. PICK u \in Users, j \in DOMAIN requests, a \in BOOLEAN :
            AcceptOrDecline(w, u, j, a)
      BY <1>2, <2>1, <2>2, AnswerMoves
  <2>4. j = i
      BY <1>2, <2>3 DEF AcceptOrDecline, TypeOK
  <2> QED BY <2>3, <2>4
<1> QED BY <1>1, <1>2 DEF Answering

\* An invitation whose deadline passed with no answer under way grants
\* nothing any more.
THEOREM LateGrantsNothing == Spec => LateNeverGrants
<1>1. Inv /\ [Next]_vars =>
        \A i \in DOMAIN requests :
          requests[i].late /\ Answering(i) = {} =>
              /\ \A s \in shares' \ shares : s.via # i
              /\ \A w \in Answering(i)' : req'[w].pc = "expire"
  <2> SUFFICES ASSUME Inv, [Next]_vars, NEW i \in DOMAIN requests,
                      requests[i].late, Answering(i) = {}
               PROVE /\ \A s \in shares' \ shares : s.via # i
                     /\ \A w \in Answering(i)' : req'[w].pc = "expire"
      OBVIOUS
  <2> USE DEF Inv
  <2>1. ASSUME NEW w \in Answering(i)' PROVE req'[w].pc = "expire"
    <3>1. PICK u \in Users, a \in BOOLEAN : AcceptOrDecline(w, u, i, a)
        BY <2>1, Unanswered
    <3>2. w \in Workers
        BY <2>1 DEF Answering
    <3> QED BY <3>1, <3>2 DEF AcceptOrDecline, AnswerBranch, TypeOK
  <2> QED BY <2>1, Unanswered
<1> QED BY <1>1, InvHolds, PTL DEF Spec, LateNeverGrants

\* A resolved invitation nobody is answering stays as it is while its sender
\* has an account, and grants nothing.
THEOREM ResolvedForGood == Spec => ResolvedIsFinal
<1>1. Inv /\ [Next]_vars =>
        \A i \in DOMAIN requests :
          requests[i].status # "pending" /\ Answering(i) = {} =>
              /\ \/ accounts'[requests[i].from] = "deleted"
                 \/ requests'[i].status = requests[i].status
              /\ Answering(i)' = {}
              /\ \A s \in shares' \ shares : s.via # i
  <2> SUFFICES ASSUME Inv, [Next]_vars, NEW i \in DOMAIN requests,
                      requests[i].status # "pending", Answering(i) = {}
               PROVE /\ \/ accounts'[requests[i].from] = "deleted"
                        \/ requests'[i].status = requests[i].status
                     /\ Answering(i)' = {}
                     /\ \A s \in shares' \ shares : s.via # i
      OBVIOUS
  <2> USE DEF Inv
  <2>1. Answering(i)' = {}
      BY Unanswered DEF AcceptOrDecline, Answerable
  <2>2. \/ accounts'[requests[i].from] = "deleted"
        \/ requests'[i].status = requests[i].status
    <3> USE DEF TypeOK
    <3>1. ASSUME NEW u \in Users, DeleteUser(u)
          PROVE \/ accounts'[requests[i].from] = "deleted"
                \/ requests'[i].status = requests[i].status
        BY <3>1 DEF DeleteUser, WithoutSender
    <3>2. ASSUME NEW w \in Workers, CreateCommit(w)
          PROVE requests'[i] = requests[i]
        BY <3>2, CreateRows
    <3>3. ASSUME NEW w \in Workers, ResolveCommit(w) PROVE requests'[i] = requests[i]
      <4>1. req[w].row # i
          BY <3>3 DEF ResolveCommit, Answering, Answers
      <4> QED BY <3>3, <4>1 DEF ResolveCommit
    <3>4. ASSUME NEW w \in Workers, AcceptCommit(w) PROVE requests'[i] = requests[i]
      <4>1. req[w].row # i
          BY <3>4 DEF AcceptCommit, Answering, Answers
      <4> QED BY <3>4, <4>1 DEF AcceptCommit, MarkAccepted
    <3>5. ASSUME NEW j \in DOMAIN requests, Elapse(j) PROVE requests'[i] = requests[i]
        BY <3>5 DEF Elapse
    <3> QED BY <3>1, <3>2, <3>3, <3>4, <3>5, StepKinds
            DEF SameTables, SignUp, RevokeCommit, MapNode, UnmapNode
  <2> QED BY <2>1, <2>2, Unanswered
<1> QED BY <1>1, InvHolds, PTL DEF Spec, ResolvedIsFinal

=============================================================================
