--------------------------- MODULE MappingProofs ----------------------------
(* Proofs about NodeMapping, for any number of API workers and ingestor     *)
(* replicas, any set of challenges, secrets, users and nodes.               *)
EXTENDS NodeMapping, TLAPS

\* Of a request between its steps: unless its challenge went with its user,
\* that row is the one it loaded, and from the match on the pair is proved,
\* so the later insert needs no further check.
RequestInv ==
    \A p \in Procs : Carrying(p) /\ RowStands(p) =>
        /\ Proved(req[p].row)
        /\ req[p].held.user = challenges[req[p].row].user
        /\ req[p].held.node = challenges[req[p].row].node

\* A challenge that produced a binding is no longer pending, so no process
\* picks it up again.
UsedUp == \A m \in mappings : challenges[m.via].status # "pending"

\* Whatever reaches an ingestor was published.
QueueInv == \A m \in queue : <<m.node, m.secret>> \in published

Inv == /\ TypeOK /\ RequestInv /\ QueueInv /\ BindingProved /\ UsedUp
       /\ NotTwice /\ OneRowPerPair

\* What no step undoes: challenges keep their user, node and secret, leave
\* "pending" once, and what a device published stays published.
Keeps(i) ==
    /\ i \in DOMAIN challenges'
    /\ challenges'[i].user = challenges[i].user
    /\ challenges'[i].node = challenges[i].node
    /\ challenges'[i].secret = challenges[i].secret
    /\ challenges[i].status # "pending" => challenges'[i].status # "pending"

\* A step deletes a user or leaves the accounts alone.
LEMMA UsersOrDeletion ==
    ASSUME [Next]_vars
    PROVE  UNCHANGED users \/ \E u \in Users : DeleteUser(u)
BY DEF Next, CalmNext, vars, RequestLegacyMapping, InitiateChallenge,
       VerifyChallenge, DeleteUserNode, DeleteCommit, RegisterNode,
       DevicePublish, LoseMessage, HandleUserMapping, DropUserMapping,
       ExpireCommit, Lookup, BindCommit, BindConflict, StaleChallenge, Abort,
       Elapse

\* Every step but the deletion of a user keeps every challenge in that sense:
\* a commit of one of the handlers writes the status column and no other.
LEMMA ChallengesKeep ==
    ASSUME TypeOK, RequestInv, [Next]_vars, UNCHANGED users, NEW i \in DOMAIN challenges
    PROVE  Keeps(i)
<1> USE DEF TypeOK, RowStands, Keeps
<1>0. ~\E u \in Users : DeleteUser(u)
    BY DEF DeleteUser
<1>1. ASSUME NEW u \in Users, NEW n \in Nodes, NEW s \in Secrets,
             RequestLegacyMapping(u, n, s)
      PROVE  Keeps(i)
    BY <1>1 DEF RequestLegacyMapping, InsertChallenge, FreshIds
<1>2. ASSUME NEW u \in Users, NEW n \in Nodes, InitiateChallenge(u, n)
      PROVE  Keeps(i)
    BY <1>2 DEF InitiateChallenge, InsertChallenge, FreshIds
<1>3. ASSUME NEW g \in Ingestors, ExpireCommit(g) PROVE Keeps(i)
    BY <1>3 DEF ExpireCommit, MappingChallenge, Procs
<1>4. ASSUME NEW p \in Procs, BindCommit(p) PROVE Keeps(i)
    BY <1>4 DEF BindCommit, CompleteRow, MappingChallenge
<1>5. ASSUME NEW j \in DOMAIN challenges, Elapse(j) PROVE Keeps(i)
    BY <1>5 DEF Elapse, MappingChallenge
<1>6. CASE UNCHANGED challenges
    BY <1>6
<1> QED BY <1>0, <1>1, <1>2, <1>3, <1>4, <1>5, <1>6
        DEF Next, CalmNext, vars, VerifyChallenge, DeleteUserNode, DeleteCommit,
            RegisterNode, DevicePublish, LoseMessage, HandleUserMapping,
            DropUserMapping, Lookup, BindConflict, StaleChallenge, Abort

\* Nodes and the record of publishes only grow.
LEMMA HistoryGrows ==
    ASSUME [Next]_vars
    PROVE  nodes \subseteq nodes' /\ published \subseteq published'
<1>1. ASSUME NEW m \in Message, DevicePublish(m) \/ LoseMessage(m)
      PROVE  nodes \subseteq nodes' /\ published \subseteq published'
    BY <1>1 DEF DevicePublish, LoseMessage
<1>2. ASSUME NEW n \in Nodes, RegisterNode(n)
      PROVE  nodes \subseteq nodes' /\ published \subseteq published'
    BY <1>2 DEF RegisterNode
<1>3. CASE UNCHANGED <<nodes, published>>
    BY <1>3
<1> QED BY <1>1, <1>2, <1>3
        DEF Next, CalmNext, vars, RequestLegacyMapping, InitiateChallenge,
            VerifyChallenge, DeleteUserNode, DeleteCommit, HandleUserMapping,
            DropUserMapping, ExpireCommit, Lookup, BindCommit, BindConflict,
            StaleChallenge, Abort, Elapse, DeleteUser

\* A proved challenge stays proved.
LEMMA ProvedStays ==
    ASSUME TypeOK, RequestInv, [Next]_vars, UNCHANGED users,
           NEW i \in DOMAIN challenges, Proved(i)
    PROVE  Proved(i)'
BY ChallengesKeep, HistoryGrows DEF Keeps, Proved

\* The tables, the messages and the requests have the declared types after
\* every step.
LEMMA TypeStep == TypeOK /\ [Next]_vars => TypeOK'
<1> SUFFICES ASSUME TypeOK, [Next]_vars PROVE TypeOK'
    OBVIOUS
<1> USE MappingAssumption DEF TypeOK
<1>1. ASSUME NEW u \in Users, NEW n \in Nodes, NEW s \in Secrets,
             RequestLegacyMapping(u, n, s)
      PROVE  TypeOK'
    BY <1>1 DEF RequestLegacyMapping, InsertChallenge, FreshIds, MappingChallenge
<1>2. ASSUME NEW u \in Users, NEW n \in Nodes, InitiateChallenge(u, n)
      PROVE  TypeOK'
    BY <1>2 DEF InitiateChallenge, InsertChallenge, FreshIds, MappingChallenge
<1>3. ASSUME NEW w \in Workers, NEW u \in Users, NEW i \in DOMAIN challenges,
             VerifyChallenge(w, u, i)
      PROVE  TypeOK'
    BY <1>3 DEF VerifyChallenge, Request, Procs
<1>4. ASSUME NEW w \in Workers, NEW u \in Users, NEW n \in Nodes,
             DeleteUserNode(w, u, n)
      PROVE  TypeOK'
    BY <1>4 DEF DeleteUserNode, MappingOf, Request, Procs
<1>5. ASSUME NEW w \in Workers, DeleteCommit(w) PROVE TypeOK'
    BY <1>5 DEF DeleteCommit, Request, Procs
<1>6. ASSUME NEW n \in Nodes, RegisterNode(n) PROVE TypeOK'
    BY <1>6 DEF RegisterNode
<1>7. ASSUME NEW m \in Message, DevicePublish(m) \/ LoseMessage(m)
      PROVE  TypeOK'
    BY <1>7 DEF DevicePublish, LoseMessage, Message
<1>8. ASSUME NEW g \in Ingestors, NEW m \in queue, HandleUserMapping(g, m)
      PROVE  TypeOK'
    <2>1. PICK i \in DOMAIN challenges :
             req' = [req EXCEPT ![g] =
                       [pc |-> IF challenges[i].late THEN "expire" ELSE "lookup",
                        row |-> i, user |-> m.user, held |-> challenges[i]]]
        BY <1>8 DEF HandleUserMapping
    <2>2. m.user \in Users
        BY DEF Message
    <2>3. req' \in [Procs -> Request]
        BY <2>1, <2>2 DEF Request, Procs
    <2> QED BY <1>8, <2>3 DEF HandleUserMapping, Take
<1>9. ASSUME NEW g \in Ingestors, NEW m \in queue, DropUserMapping(g, m)
      PROVE  TypeOK'
    BY <1>9 DEF DropUserMapping, Take
<1>10. ASSUME NEW g \in Ingestors, ExpireCommit(g) PROVE TypeOK'
    <2>1. req[g].row \in DOMAIN challenges
        BY <1>10 DEF ExpireCommit, RowStands
    <2>2. challenges' \in [DOMAIN challenges -> MappingChallenge]
        BY <1>10, <2>1 DEF ExpireCommit, MappingChallenge
    <2> QED BY <1>10, <2>2 DEF ExpireCommit, Request, Procs
<1>11. ASSUME NEW p \in Procs, Lookup(p) PROVE TypeOK'
    <2>1. /\ req[p].row \in Ids /\ req[p].user \in Users
          /\ req[p].held \in MappingChallenge
        BY <1>11 DEF Lookup, Request, Idle
    <2> QED BY <1>11, <2>1 DEF Lookup, Request
<1>12. ASSUME NEW p \in Procs, BindCommit(p) PROVE TypeOK'
    <2>1. req[p].row \in DOMAIN challenges
        BY <1>12 DEF BindCommit, RowStands
    <2>2. challenges' \in [DOMAIN challenges -> MappingChallenge]
        BY <1>12, <2>1 DEF BindCommit, CompleteRow, MappingChallenge
    <2>3. req[p].held.user \in Users /\ req[p].held.node \in Nodes
        BY <1>12 DEF BindCommit, Request, Idle, MappingChallenge
    <2>4. mappings' \subseteq UserNodeMapping
        BY <1>12, <2>1, <2>3 DEF BindCommit, AddMapping, UserNodeMapping
    <2> QED BY <1>12, <2>2, <2>4 DEF BindCommit, Request
<1>13. ASSUME NEW p \in Procs, BindConflict(p) \/ StaleChallenge(p) \/ Abort(p)
       PROVE  TypeOK'
    BY <1>13 DEF BindConflict, StaleChallenge, Abort, Request
<1>14. ASSUME NEW i \in DOMAIN challenges, Elapse(i) PROVE TypeOK'
    BY <1>14 DEF Elapse, MappingChallenge
<1>15. CASE UNCHANGED vars
    BY <1>15 DEF vars
<1>16. ASSUME NEW u \in Users, DeleteUser(u) PROVE TypeOK'
    BY <1>16 DEF DeleteUser
<1> QED BY <1>1, <1>2, <1>3, <1>4, <1>5, <1>6, <1>7, <1>8, <1>9, <1>10, <1>11,
           <1>12, <1>13, <1>14, <1>15, <1>16 DEF Next, CalmNext

\* How a step changes the request of a process: not at all, to the end, by
\* taking up an existing pending challenge whose pair is proved, by moving on
\* with the same challenge, or by taking up a deletion.
Moves(p) ==
    \/ req'[p] = req[p]
    \/ req'[p].pc \in {"idle", "delete"}
    \/ \E i \in DOMAIN challenges :
          /\ req'[p].row = i /\ req'[p].held = challenges[i]
          /\ challenges[i].status = "pending" /\ Proved(i)'
    \/ /\ req[p].pc = "lookup"
       /\ req'[p].row = req[p].row /\ req'[p].held = req[p].held

\* Every process moves in that way in every step but a deletion, in which none
\* moves.
LEMMA RequestMoves ==
    ASSUME Inv, [Next]_vars, UNCHANGED users, NEW p \in Procs
    PROVE  Moves(p)
<1> USE DEF Inv, TypeOK, Moves
<1>0. ~\E u \in Users : DeleteUser(u)
    BY DEF DeleteUser
<1>1. ASSUME NEW w \in Workers, NEW u \in Users, NEW i \in DOMAIN challenges,
             VerifyChallenge(w, u, i)
      PROVE  Moves(p)
    BY <1>1 DEF VerifyChallenge, Proved, Procs
<1>2. ASSUME NEW w \in Workers, NEW u \in Users, NEW n \in Nodes,
             DeleteUserNode(w, u, n)
      PROVE  Moves(p)
    BY <1>2 DEF DeleteUserNode, Procs
<1>3. ASSUME NEW w \in Workers, DeleteCommit(w) PROVE Moves(p)
    BY <1>3 DEF DeleteCommit, Idle, Procs
<1>4. ASSUME NEW g \in Ingestors, NEW m \in queue, HandleUserMapping(g, m)
      PROVE  Moves(p)
    <2>1. PICK i \in DOMAIN challenges :
             /\ Matches(m) = {i}
             /\ req' = [req EXCEPT ![g] =
                       [pc |-> IF challenges[i].late THEN "expire" ELSE "lookup",
                        row |-> i, user |-> m.user, held |-> challenges[i]]]
        BY <1>4 DEF HandleUserMapping
    <2>2. i \in Matches(m)
        BY <2>1
    <2>3. /\ challenges[i].status = "pending"
          /\ challenges[i].node = m.node
          /\ challenges[i].secret = m.secret
        BY <2>2 DEF Matches
    <2>4. Proved(i)
        BY <2>3 DEF QueueInv, Proved
    <2>5. Proved(i)'
        BY <2>4, ProvedStays
    <2> QED BY <2>1, <2>3, <2>5 DEF Procs
<1>5. ASSUME NEW g \in Ingestors, ExpireCommit(g) PROVE Moves(p)
    BY <1>5 DEF ExpireCommit, Idle, Procs
<1>6. ASSUME NEW q \in Procs, Lookup(q) PROVE Moves(p)
    BY <1>6 DEF Lookup
<1>7. ASSUME NEW q \in Procs,
             BindCommit(q) \/ BindConflict(q) \/ StaleChallenge(q) \/ Abort(q)
      PROVE  Moves(p)
    BY <1>7 DEF BindCommit, BindConflict, StaleChallenge, Abort, Idle
<1>8. CASE UNCHANGED req
    BY <1>8
<1> QED BY <1>0, <1>1, <1>2, <1>3, <1>4, <1>5, <1>6, <1>7, <1>8
        DEF Next, CalmNext, vars, RequestLegacyMapping, InitiateChallenge,
            RegisterNode, DevicePublish, LoseMessage, DropUserMapping, Elapse

\* A step that adds a challenge gives it a key nobody carries.
LEMMA NewKeys ==
    ASSUME [Next]_vars, UNCHANGED users, NEW p \in Procs, Carrying(p),
           req[p].row \in DOMAIN challenges'
    PROVE  req[p].row \in DOMAIN challenges
<1>0. ~\E u \in Users : DeleteUser(u)
    BY DEF DeleteUser
<1>1. ASSUME NEW i \in FreshIds, NEW row, InsertChallenge(i, row)
      PROVE  req[p].row \in DOMAIN challenges
    BY <1>1 DEF InsertChallenge, FreshIds
<1>2. ASSUME NEW u \in Users, NEW n \in Nodes, NEW s \in Secrets,
             RequestLegacyMapping(u, n, s)
      PROVE  req[p].row \in DOMAIN challenges
    BY <1>1, <1>2 DEF RequestLegacyMapping
<1>3. ASSUME NEW u \in Users, NEW n \in Nodes, InitiateChallenge(u, n)
      PROVE  req[p].row \in DOMAIN challenges
    BY <1>1, <1>3 DEF InitiateChallenge
<1>4. CASE DOMAIN challenges' = DOMAIN challenges
    BY <1>4
<1> QED BY <1>0, <1>2, <1>3, <1>4
        DEF Next, CalmNext, vars, VerifyChallenge, DeleteUserNode, DeleteCommit,
            RegisterNode, DevicePublish, LoseMessage, HandleUserMapping,
            DropUserMapping, ExpireCommit, Lookup, BindCommit, CompleteRow,
            BindConflict, StaleChallenge, Abort, Elapse

\* A process that has taken up a challenge works on the row it loaded, which
\* is proved.
LEMMA RequestStep ==
    ASSUME Inv, [Next]_vars, UNCHANGED users
    PROVE  RequestInv'
<1> SUFFICES ASSUME NEW p \in Procs, Carrying(p)', req'[p].row \in DOMAIN challenges'
             PROVE  /\ Proved(req[p].row)'
                    /\ req'[p].held.user = challenges'[req'[p].row].user
                    /\ req'[p].held.node = challenges'[req'[p].row].node
    BY DEF RequestInv, RowStands
<1>1. CASE /\ Carrying(p)
           /\ req'[p].row = req[p].row /\ req'[p].held = req[p].held
    <2>1. req[p].row \in DOMAIN challenges
        BY <1>1, NewKeys
    <2>2. /\ Proved(req[p].row)
          /\ req[p].held.user = challenges[req[p].row].user
          /\ req[p].held.node = challenges[req[p].row].node
        BY <1>1, <2>1 DEF Inv, RequestInv, RowStands
    <2>3. PICK i \in DOMAIN challenges : i = req[p].row
        BY <2>1
    <2>4. Keeps(i)
        BY ChallengesKeep DEF Inv
    <2>5. Proved(i)'
        BY <2>2, <2>3, ProvedStays DEF Inv
    <2> QED BY <1>1, <2>2, <2>3, <2>4, <2>5 DEF Keeps, Proved
<1>2. ASSUME NEW i \in DOMAIN challenges,
             req'[p].row = i, req'[p].held = challenges[i], Proved(i)'
      PROVE  /\ Proved(req[p].row)'
             /\ req'[p].held.user = challenges'[req'[p].row].user
             /\ req'[p].held.node = challenges'[req'[p].row].node
    BY <1>2, ChallengesKeep DEF Keeps, Inv, Proved
<1>3. CASE req'[p] = req[p]
    BY <1>1, <1>3 DEF Carrying
<1>4. CASE /\ req[p].pc = "lookup"
           /\ req'[p].row = req[p].row /\ req'[p].held = req[p].held
    BY <1>1, <1>4 DEF Carrying
<1> QED BY <1>2, <1>3, <1>4, RequestMoves DEF Moves, Carrying

\* A message on its way to an ingestor was published by its device.
LEMMA QueueStep == Inv /\ [Next]_vars => QueueInv'
<1> SUFFICES ASSUME Inv, [Next]_vars PROVE QueueInv'
    OBVIOUS
<1> USE DEF Inv, QueueInv
<1>1. ASSUME NEW m \in Message, DevicePublish(m) \/ LoseMessage(m)
      PROVE  QueueInv'
    BY <1>1 DEF DevicePublish, LoseMessage
<1>2. CASE queue' \subseteq queue
    BY <1>2, HistoryGrows
<1> QED BY <1>1, <1>2
        DEF Next, CalmNext, vars, RequestLegacyMapping, InitiateChallenge,
            VerifyChallenge, DeleteUserNode, DeleteCommit, RegisterNode,
            HandleUserMapping, DropUserMapping, Take, ExpireCommit, Lookup,
            BindCommit, BindConflict, StaleChallenge, Abort, Elapse, DeleteUser

\* What the insert of process p adds.
NewMapping(p) ==
    [user |-> req[p].held.user, node |-> req[p].held.node, via |-> req[p].row,
     by |-> p]

\* A step removes bindings, or one process inserts the one it is about, for a
\* pair that has none, and completes its challenge.
LEMMA MappingStep ==
    ASSUME Inv, [Next]_vars
    PROVE  \/ mappings' \subseteq mappings
           \/ \E p \in Procs :
                 /\ BindCommit(p) /\ Insertable(p)
                 /\ mappings' = mappings \cup {NewMapping(p)}
<1>1. ASSUME NEW p \in Procs, BindCommit(p)
      PROVE  \/ mappings' \subseteq mappings
             \/ Insertable(p) /\ mappings' = mappings \cup {NewMapping(p)}
    BY <1>1 DEF BindCommit, AddMapping, NewMapping
<1>2. ASSUME NEW w \in Workers, DeleteCommit(w) PROVE mappings' \subseteq mappings
    BY <1>2 DEF DeleteCommit
<1>3. ASSUME NEW u \in Users, DeleteUser(u) PROVE mappings' \subseteq mappings
    BY <1>3 DEF DeleteUser
<1>4. CASE UNCHANGED mappings
    BY <1>4
<1> QED BY <1>1, <1>2, <1>3, <1>4
        DEF Next, CalmNext, vars, RequestLegacyMapping, InitiateChallenge,
            VerifyChallenge, DeleteUserNode, RegisterNode, DevicePublish,
            LoseMessage, HandleUserMapping, DropUserMapping, ExpireCommit,
            Lookup, BindConflict, StaleChallenge, Abort, Elapse

\* Every binding rests on its own challenge, before and after a step.
LEMMA BindingStep ==
    ASSUME Inv, [Next]_vars, UNCHANGED users
    PROVE  BindingProved' /\ UsedUp'
<1> SUFFICES ASSUME NEW m \in mappings'
             PROVE  /\ m.via \in DOMAIN challenges'
                    /\ challenges'[m.via].user = m.user
                    /\ challenges'[m.via].node = m.node
                    /\ Proved(m.via)'
                    /\ m.node \in nodes' /\ m.user \in users'
                    /\ challenges'[m.via].status # "pending"
    BY DEF BindingProved, UsedUp
<1>1. CASE m \in mappings
    <2>1. /\ m.via \in DOMAIN challenges
          /\ challenges[m.via].user = m.user
          /\ challenges[m.via].node = m.node
          /\ Proved(m.via)
          /\ m.node \in nodes /\ m.user \in users
          /\ challenges[m.via].status # "pending"
        BY <1>1 DEF Inv, BindingProved, UsedUp
    <2> QED BY <2>1, ChallengesKeep, ProvedStays, HistoryGrows DEF Keeps, Inv
<1>2. CASE m \notin mappings
    <2>1. PICK p \in Procs : /\ BindCommit(p) /\ Insertable(p)
                             /\ m = NewMapping(p)
        BY <1>2, MappingStep
    <2>2. /\ m.via = req[p].row
          /\ m.user = req[p].held.user
          /\ m.node = req[p].held.node
        BY <2>1 DEF NewMapping
    <2>3. /\ req[p].row \in DOMAIN challenges /\ Proved(req[p].row)
          /\ req[p].held.user = challenges[req[p].row].user
          /\ req[p].held.node = challenges[req[p].row].node
        BY <2>1 DEF BindCommit, Inv, RequestInv, RowStands, Carrying
    <2>4. m.node \in nodes /\ m.user \in users
        BY <2>1, <2>2 DEF Insertable
    <2>5. challenges'[req[p].row].status = "completed"
        BY <2>1, <2>3 DEF BindCommit, CompleteRow, Inv, TypeOK, MappingChallenge
    <2> QED BY <2>2, <2>3, <2>4, <2>5, ChallengesKeep, ProvedStays, HistoryGrows
            DEF Keeps, Inv
<1> QED BY <1>1, <1>2

\* The unique constraint does its work at every insert.
LEMMA UniqueStep == Inv /\ [Next]_vars => OneRowPerPair'
<1> SUFFICES ASSUME Inv, [Next]_vars PROVE OneRowPerPair'
    OBVIOUS
<1>1. CASE mappings' \subseteq mappings
    BY <1>1 DEF Inv, OneRowPerPair
<1>2. ASSUME NEW p \in Procs, BindCommit(p), Insertable(p),
             mappings' = mappings \cup {NewMapping(p)}
      PROVE  OneRowPerPair'
    <2>1. \A k \in mappings : ~(/\ k.user = NewMapping(p).user
                                /\ k.node = NewMapping(p).node)
        BY <1>2 DEF Insertable, MappingOf, NewMapping
    <2> QED BY <1>2, <2>1 DEF Inv, OneRowPerPair
<1> QED BY <1>1, <1>2, MappingStep

\* A process that takes up a pending challenge finds no binding made from it,
\* and it is the only one that could make one in its own name.
LEMMA NotTwiceStep ==
    ASSUME Inv, [Next]_vars, UNCHANGED users
    PROVE  NotTwice'
<1> SUFFICES ASSUME NEW p \in Procs, NEW m \in mappings',
                    req'[p].pc \in {"lookup", "bind"},
                    m.via = req'[p].row, m.by = p
             PROVE  FALSE
    BY DEF NotTwice
<1>1. CASE m \in mappings
    <2>1. challenges[m.via].status # "pending"
        BY <1>1 DEF Inv, UsedUp
    <2>2. CASE req'[p] = req[p]
        BY <1>1, <2>2 DEF Inv, NotTwice
    <2>3. CASE req[p].pc = "lookup" /\ req'[p].row = req[p].row
        BY <1>1, <2>3 DEF Inv, NotTwice
    <2> QED BY <2>1, <2>2, <2>3, RequestMoves DEF Moves
<1>2. CASE m \notin mappings
    <2>1. PICK q \in Procs : BindCommit(q) /\ m = NewMapping(q)
        BY <1>2, MappingStep
    <2>2. q = p
        BY <2>1 DEF NewMapping
    <2> QED BY <2>1, <2>2 DEF BindCommit, Idle, Inv, TypeOK
<1> QED BY <1>1, <1>2

\* A deleted user takes its challenges and its bindings along; what is left
\* stands on what is left.
LEMMA DeletionStep ==
    ASSUME Inv, NEW u \in Users, DeleteUser(u)
    PROVE  RequestInv' /\ BindingProved' /\ UsedUp' /\ NotTwice'
<1> USE DEF Inv, DeleteUser
<1>1. \A i \in DOMAIN challenges' :
          /\ i \in DOMAIN challenges /\ challenges'[i] = challenges[i]
          /\ Proved(i)' = Proved(i)
    BY DEF Proved
<1>2. RequestInv'
    BY <1>1 DEF RequestInv, RowStands, Carrying, Proved
<1>3. BindingProved' /\ UsedUp'
    BY <1>1 DEF BindingProved, UsedUp, Proved
<1>4. NotTwice'
    BY DEF NotTwice
<1> QED BY <1>2, <1>3, <1>4

\* The invariant is inductive, so it holds of every reachable state of the
\* mapping flows.
THEOREM InvHolds == Spec => []Inv
<1>1. Init => Inv
    BY DEF Init, Inv, TypeOK, RequestInv, QueueInv, BindingProved, UsedUp,
           NotTwice, OneRowPerPair, Idle, Request, Carrying
<1>2. Inv /\ [Next]_vars => Inv'
    BY TypeStep, RequestStep, QueueStep, BindingStep, UniqueStep, NotTwiceStep,
       DeletionStep, UsersOrDeletion
    DEF Inv
<1> QED BY <1>1, <1>2, PTL DEF Spec

\* The mapping tables, queues and requests keep their types.
THEOREM TypeCorrect == Spec => []TypeOK
<1>1. Inv => TypeOK
    BY DEF Inv
<1> QED BY <1>1, InvHolds, PTL

\* No user is bound to a node without its own request and, in the secret-key
\* flow, the device's publish of that request's secret.
THEOREM BindingsProved == Spec => []BindingProved
<1>1. Inv => BindingProved
    BY DEF Inv
<1> QED BY <1>1, InvHolds, PTL

\* One row per user and node.
THEOREM UniqueBindings == Spec => []OneRowPerPair
<1>1. Inv => OneRowPerPair
    BY DEF Inv
<1> QED BY <1>1, InvHolds, PTL

\* No process binds twice on one challenge.
THEOREM BindsOnce == Spec => []NotTwice
<1>1. Inv => NotTwice
    BY DEF Inv
<1> QED BY <1>1, InvHolds, PTL

-----------------------------------------------------------------------------
(* Spent challenges.                                                        *)

\* A completed challenge is written only by a process that works on it, its
\* user's deletion apart.
LEMMA SpentStaysCompleted ==
    ASSUME Inv, [Next]_vars, UNCHANGED users, NEW i \in DOMAIN challenges,
           challenges[i].status = "completed", Working(i) = {}
    PROVE  challenges'[i].status = "completed"
<1> USE DEF Inv, TypeOK, RowStands
<1>0. ~\E u \in Users : DeleteUser(u)
    BY DEF DeleteUser
<1>1. ASSUME NEW u \in Users, NEW n \in Nodes, NEW s \in Secrets,
             RequestLegacyMapping(u, n, s)
      PROVE  challenges'[i] = challenges[i]
    BY <1>1 DEF RequestLegacyMapping, InsertChallenge, FreshIds
<1>2. ASSUME NEW u \in Users, NEW n \in Nodes, InitiateChallenge(u, n)
      PROVE  challenges'[i] = challenges[i]
    BY <1>2 DEF InitiateChallenge, InsertChallenge, FreshIds
<1>3. ASSUME NEW g \in Ingestors, ExpireCommit(g)
      PROVE  challenges'[i] = challenges[i]
    <2>1. req[g].row # i
        BY <1>3 DEF ExpireCommit, Working, Carrying, Procs
    <2> QED BY <1>3, <2>1 DEF ExpireCommit
<1>4. ASSUME NEW p \in Procs, BindCommit(p)
      PROVE  challenges'[i] = challenges[i]
    <2>1. req[p].row # i
        BY <1>4 DEF BindCommit, Working, Carrying
    <2> QED BY <1>4, <2>1 DEF BindCommit, CompleteRow
<1>5. ASSUME NEW j \in DOMAIN challenges, Elapse(j)
      PROVE  challenges'[i].status = challenges[i].status
    BY <1>5 DEF Elapse, MappingChallenge
<1>6. CASE UNCHANGED challenges
    BY <1>6
<1> QED BY <1>0, <1>1, <1>2, <1>3, <1>4, <1>5, <1>6
        DEF Next, CalmNext, vars, VerifyChallenge, DeleteUserNode, DeleteCommit,
            RegisterNode, DevicePublish, LoseMessage, HandleUserMapping,
            DropUserMapping, Lookup, BindConflict, StaleChallenge, Abort

\* A challenge that is not pending is taken up by nobody who did not work on
\* it already.
LEMMA SpentIsNotTakenUp ==
    ASSUME Inv, [Next]_vars, NEW i \in DOMAIN challenges,
           challenges[i].status # "pending", Working(i) = {}
    PROVE  Working(i)' = {}
<1>1. CASE UNCHANGED users
    <2> SUFFICES ASSUME NEW p \in Procs, Carrying(p)', req'[p].row = i
                 PROVE  FALSE
        BY DEF Working
    <2>1. ~(Carrying(p) /\ req[p].row = i)
        BY DEF Working
    <2> QED BY <1>1, <2>1, RequestMoves DEF Moves, Carrying
<1>2. CASE \E u \in Users : DeleteUser(u)
    BY <1>2 DEF DeleteUser, Working, Carrying
<1> QED BY <1>1, <1>2, UsersOrDeletion

\* A binding is inserted by a process that works on its challenge.
LEMMA BoundByWorkers ==
    ASSUME Inv, [Next]_vars, NEW m \in mappings' \ mappings
    PROVE  Working(m.via) # {}
<1>1. PICK p \in Procs : BindCommit(p) /\ m = NewMapping(p)
    BY MappingStep
<1>2. Carrying(p) /\ req[p].row = m.via
    BY <1>1 DEF BindCommit, Carrying, NewMapping
<1> QED BY <1>2 DEF Working

\* A completed challenge that nobody works on is spent for good: a message
\* that comes again, also after the binding was deleted, finds nothing to
\* match and binds nobody, whatever else is going on.
THEOREM CompletedForGood == Spec => CompletedMeansDone
<1>1. ASSUME Inv, [Next]_vars, NEW i \in DOMAIN challenges,
             GetMappingStatus(i) = "completed", Working(i) = {}
      PROVE  /\ \/ challenges[i].user \notin users'
                \/ GetMappingStatus(i)' = "completed"
             /\ Working(i)' = {}
             /\ \A m \in mappings' \ mappings : m.via # i
    <2>1. \/ challenges[i].user \notin users'
          \/ challenges'[i].status = "completed"
        <3>1. CASE UNCHANGED users
            BY <1>1, <3>1, SpentStaysCompleted DEF GetMappingStatus
        <3>2. ASSUME NEW u \in Users, DeleteUser(u)
              PROVE  challenges[i].user = u \/ challenges'[i] = challenges[i]
            BY <3>2 DEF DeleteUser
        <3> QED BY <1>1, <3>1, <3>2, UsersOrDeletion DEF DeleteUser, GetMappingStatus
    <2>2. Working(i)' = {}
        BY <1>1, SpentIsNotTakenUp DEF GetMappingStatus
    <2>3. \A m \in mappings' \ mappings : m.via # i
        BY <1>1, BoundByWorkers
    <2> QED BY <2>1, <2>2, <2>3 DEF GetMappingStatus
<1>2. Inv /\ [Next]_vars =>
        [\A i \in DOMAIN challenges :
            GetMappingStatus(i) = "completed" /\ Working(i) = {} =>
              /\ \/ challenges[i].user \notin users'
                 \/ GetMappingStatus(i)' = "completed"
              /\ Working(i)' = {}
              /\ \A m \in mappings' \ mappings : m.via # i]_vars
    BY <1>1
<1> QED BY <1>2, InvHolds, PTL DEF Spec, CompletedMeansDone

-----------------------------------------------------------------------------
(* The refinement of Ownership.                                            *)

\* Pairs of the refinement mapping are pairs of the abstract specification.
LEMMA ProvedPairsIn ==
    ASSUME TypeOK PROVE ProvedPairs \subseteq Users \X Nodes
BY DEF TypeOK, ProvedPairs, MappingChallenge

\* Pairs that are proved stay proved.
LEMMA ProvedPairsGrow ==
    ASSUME Inv, [Next]_vars, UNCHANGED users
    PROVE  ProvedPairs \subseteq ProvedPairs'
<1> SUFFICES ASSUME NEW i \in DOMAIN challenges, Proved(i)
             PROVE  <<challenges[i].user, challenges[i].node>> \in ProvedPairs'
    BY DEF ProvedPairs
<1>1. Keeps(i) /\ Proved(i)'
    BY ChallengesKeep, ProvedStays DEF Inv
<1>2. i \in {j \in DOMAIN challenges' : Proved(j)'}
    BY <1>1 DEF Keeps
<1>3. <<challenges'[i].user, challenges'[i].node>> \in ProvedPairs'
    BY <1>2 DEF ProvedPairs
<1> QED BY <1>1, <1>3 DEF Keeps

\* A step that leaves the bindings alone proves some pairs, or none.
LEMMA SilentStep ==
    ASSUME Inv, [Next]_vars, TypeOK', UNCHANGED <<users, mappings>>
    PROVE  [Abstract!OwnershipNext]_<<ProvedPairs, BoundPairs>>
<1>1. BoundPairs' = BoundPairs
    BY DEF BoundPairs
<1>2. ProvedPairs' = ProvedPairs \cup ProvedPairs'
    BY ProvedPairsGrow
<1>3. ProvedPairs' \in SUBSET (Users \X Nodes)
    BY DEF TypeOK, ProvedPairs, MappingChallenge
<1>4. Abstract!Prove(ProvedPairs')
    BY <1>1, <1>2 DEF Abstract!Prove
<1> QED BY <1>3, <1>4 DEF Abstract!OwnershipNext, Abstract!Pairs

\* The insert binds a pair that has been proved.
LEMMA InsertStep ==
    ASSUME Inv, NEW p \in Procs, BindCommit(p),
           mappings' = mappings \cup {NewMapping(p)}
    PROVE  Abstract!OwnershipNext
<1> DEFINE i == req[p].row
           pair == <<challenges[i].user, challenges[i].node>>
<1>1. i \in DOMAIN challenges /\ Proved(i)
    BY DEF BindCommit, Inv, RequestInv, RowStands, Carrying
<1>2. pair \in ProvedPairs /\ pair \in Users \X Nodes
    BY <1>1 DEF ProvedPairs, Inv, TypeOK, MappingChallenge
<1>3. /\ DOMAIN challenges' = DOMAIN challenges
      /\ \A j \in DOMAIN challenges :
           /\ challenges'[j].user = challenges[j].user
           /\ challenges'[j].node = challenges[j].node
           /\ challenges'[j].secret = challenges[j].secret
    BY <1>1 DEF BindCommit, CompleteRow, Inv, TypeOK, MappingChallenge
<1>4. \A j \in DOMAIN challenges : Proved(j)' = Proved(j)
    BY <1>3 DEF BindCommit, Proved
<1>5. ProvedPairs' = ProvedPairs
    BY <1>3, <1>4 DEF ProvedPairs
<1>6. BoundPairs' = BoundPairs \cup {pair}
    <2>1. <<NewMapping(p).user, NewMapping(p).node>> = pair
        BY <1>1 DEF NewMapping, BindCommit, Inv, RequestInv, RowStands, Carrying
    <2> HIDE DEF pair
    <2> QED BY <2>1 DEF BoundPairs
<1>7. Abstract!Bind(pair)
    BY <1>2, <1>5, <1>6 DEF Abstract!Bind
<1> QED BY <1>2, <1>7 DEF Abstract!OwnershipNext, Abstract!Pairs

\* The delete unbinds a pair: since it has one row only, none is left.
LEMMA DeleteStep ==
    ASSUME Inv, NEW w \in Workers, DeleteCommit(w), req[w].mapping \in mappings
    PROVE  Abstract!OwnershipNext
<1> DEFINE m == req[w].mapping
           pair == <<m.user, m.node>>
<1>1. pair \in Users \X Nodes
    BY DEF Inv, TypeOK, UserNodeMapping
<1>2. BoundPairs' = BoundPairs \ {pair}
    BY DEF BoundPairs, DeleteCommit, Inv, OneRowPerPair
<1>3. ProvedPairs' = ProvedPairs
    BY DEF ProvedPairs, Proved, DeleteCommit
<1>4. Abstract!Unbind(pair)
    BY <1>2, <1>3 DEF Abstract!Unbind
<1> QED BY <1>1, <1>4 DEF Abstract!OwnershipNext, Abstract!Pairs

\* The deletion of a user forgets its pairs.
LEMMA ForgetStep ==
    ASSUME Inv, NEW u \in Users, DeleteUser(u)
    PROVE  Abstract!OwnershipNext
<1> USE DEF DeleteUser
<1>1. BoundPairs' = {p \in BoundPairs : p[1] # u}
    BY DEF BoundPairs
<1>2. DOMAIN challenges' = {i \in DOMAIN challenges : challenges[i].user # u}
    OBVIOUS
<1>3. \A i \in DOMAIN challenges' :
          challenges'[i] = challenges[i] /\ Proved(i)' = Proved(i)
    BY DEF Proved
<1>4. ProvedPairs' = {p \in ProvedPairs : p[1] # u}
  <2>1. ASSUME NEW i \in DOMAIN challenges', Proved(i)'
        PROVE /\ i \in DOMAIN challenges /\ Proved(i) /\ challenges[i].user # u
              /\ <<challenges'[i].user, challenges'[i].node>>
                   = <<challenges[i].user, challenges[i].node>>
      BY <1>2, <1>3, <2>1
  <2>2. ASSUME NEW i \in DOMAIN challenges, Proved(i), challenges[i].user # u
        PROVE /\ i \in DOMAIN challenges' /\ Proved(i)'
              /\ <<challenges'[i].user, challenges'[i].node>>
                   = <<challenges[i].user, challenges[i].node>>
      BY <1>2, <1>3, <2>2
  <2> HIDE DEF DeleteUser
  <2>3. ASSUME NEW p \in ProvedPairs' PROVE p \in ProvedPairs /\ p[1] # u
    <3>1. PICK i \in DOMAIN challenges' :
              Proved(i)' /\ p = <<challenges'[i].user, challenges'[i].node>>
        BY <2>3 DEF ProvedPairs
    <3> QED BY <2>1, <3>1 DEF ProvedPairs
  <2>4. ASSUME NEW p \in ProvedPairs, p[1] # u PROVE p \in ProvedPairs'
    <3>1. PICK i \in DOMAIN challenges :
              Proved(i) /\ p = <<challenges[i].user, challenges[i].node>>
        BY <2>4 DEF ProvedPairs
    <3>2. challenges[i].user # u
        BY <2>4, <3>1
    <3> QED BY <2>2, <3>1, <3>2 DEF ProvedPairs
  <2> QED BY <2>3, <2>4
<1>5. Abstract!Forget(u)
    BY <1>1, <1>4 DEF Abstract!Forget
<1> QED BY <1>5 DEF Abstract!OwnershipNext

\* Only the insert and the delete touch the bindings of those who stay.
LEMMA WhoWrites ==
    ASSUME [Next]_vars
    PROVE  \/ UNCHANGED <<users, mappings>>
           \/ \E p \in Procs : BindCommit(p)
           \/ \E w \in Workers : DeleteCommit(w)
           \/ \E u \in Users : DeleteUser(u)
BY DEF Next, CalmNext, vars, RequestLegacyMapping, InitiateChallenge,
       VerifyChallenge, DeleteUserNode, RegisterNode, DevicePublish,
       LoseMessage, HandleUserMapping, DropUserMapping, ExpireCommit,
       Lookup, BindConflict, StaleChallenge, Abort, Elapse

\* NodeMapping implements Ownership: whatever the replicas and workers do
\* concurrently, a user is bound only to a pair that has been proved and
\* loses the binding only by its own deletion of it, or of the account.
THEOREM Refinement == Spec => ImplementsOwnership
<1>1. Init => Abstract!OwnershipInit
    BY DEF Init, Abstract!OwnershipInit, ProvedPairs, BoundPairs
<1>2. Inv /\ Inv' /\ [Next]_vars
        => [Abstract!OwnershipNext]_<<ProvedPairs, BoundPairs>>
    <2> SUFFICES ASSUME Inv, Inv', [Next]_vars
                 PROVE  [Abstract!OwnershipNext]_<<ProvedPairs, BoundPairs>>
        OBVIOUS
    <2>1. CASE UNCHANGED <<users, mappings>>
        BY <2>1, SilentStep DEF Inv
    <2>2. ASSUME NEW p \in Procs, BindCommit(p), ~UNCHANGED <<users, mappings>>
          PROVE  Abstract!OwnershipNext
        <3>1. mappings' = mappings \cup {NewMapping(p)}
            BY <2>2 DEF BindCommit, AddMapping, NewMapping
        <3> QED BY <2>2, <3>1, InsertStep
    <2>3. ASSUME NEW w \in Workers, DeleteCommit(w), ~UNCHANGED <<users, mappings>>
          PROVE  Abstract!OwnershipNext
        <3>1. req[w].mapping \in mappings
            BY <2>3 DEF DeleteCommit
        <3> QED BY <2>3, <3>1, DeleteStep
    <2> QED BY <2>1, <2>2, <2>3, ForgetStep, WhoWrites
<1> QED BY <1>1, <1>2, InvHolds, PTL
        DEF Spec, ImplementsOwnership, Abstract!OwnershipSpec
=============================================================================
