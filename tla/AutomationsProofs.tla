------------------------- MODULE AutomationsProofs --------------------------
(***************************************************************************)
(* Theorems about Groups and Automations, for any users, nodes, keys,      *)
(* columns and workers.                                                    *)
(***************************************************************************)
EXTENDS Automations, TLAPS

Requests == {Idle} \cup GroupRequest \cup AutomationRequest

\* A group that exists has the members it was created with.
MembersMade ==
    /\ DOMAIN groups \subseteq DOMAIN made
    /\ \A g \in DOMAIN groups : MembersOf(g) = made[g]

\* What a request remembers of the tables was true when it was read, and the
\* rows that are still there have not changed hands.
Remembered(r) ==
    /\ r.pc = "create" => r.parent = NoParent \/
          /\ r.parent \in DOMAIN made
          /\ r.parent \in DOMAIN groups => groups[r.parent].owner = r.user
    /\ r.pc = "delete" =>
          /\ r.row \in DOMAIN made
          /\ r.row \in DOMAIN groups => groups[r.row].owner = r.user
    /\ r.pc = "list" =>
          /\ r.todo \subseteq DOMAIN made
          /\ \A e \in r.out :
                /\ e[1] \in DOMAIN made
                /\ e[2] = made[e[1]] \/ (e[2] = {} /\ e[1] \notin DOMAIN groups)
    /\ r.pc \in {"patch", "remove"} =>
          /\ r.row \in autosUsed
          /\ r.row \in DOMAIN automations => automations[r.row].user = r.user

RequestInv == \A w \in Workers : Remembered(req[w])

Inv == TypeOK /\ NoOrphans /\ MembersMade /\ RequestInv

-----------------------------------------------------------------------------
(* The steps by what they do to the tables.                                *)

SameTables == UNCHANGED <<users, groupVars, automations, autosUsed>>

LEMMA StepKinds ==
  ASSUME [Next]_vars
  PROVE \/ SameTables
        \/ \E w \in Workers, g \in GroupIds :
              CreateGroupCommit(w, g) /\ UNCHANGED <<automations, autosUsed>>
        \/ \E w \in Workers : DeleteGroupCommit(w) /\ UNCHANGED <<automations, autosUsed>>
        \/ \E w \in Workers, a \in AutoIds : CreateAutomationCommit(w, a)
        \/ \E w \in Workers : UpdateAutomationCommit(w)
        \/ \E w \in Workers : DeleteAutomationCommit(w)
        \/ \E u \in Users : DeleteUser(u)
BY DEF Next, GroupNext, AutomationNext, SameTables, vars, groupVars, CreateGroup,
       CreateGroupConflict, DeleteGroup, ListGroups, ListNodes, ListReply,
       CreateAutomation, CreateAutomationConflict, UpdateAutomation,
       UpdateAutomationStale, DeleteAutomation, Abort

-----------------------------------------------------------------------------
(* What a deletion takes along.                                            *)

LEMMA CascadeHolds ==
  ASSUME NEW S \in SUBSET DOMAIN groups
  PROVE S \subseteq Cascade(S)
BY DEF Cascade

LEMMA CascadeClosed ==
  ASSUME NEW S, NEW h \in DOMAIN groups, groups[h].parent \in Cascade(S)
  PROVE h \in Cascade(S)
BY DEF Cascade

\* A cascade stays with one user's groups.
LEMMA CascadeOfOwner ==
  ASSUME GroupTypeOK, Rooted, NEW u, NEW S \in SUBSET Owned(u)
  PROVE Cascade(S) \subseteq Owned(u)
<1>1. \A h \in DOMAIN groups : groups[h].parent \in Owned(u) => h \in Owned(u)
  <2> SUFFICES ASSUME NEW h \in DOMAIN groups, groups[h].parent \in Owned(u)
               PROVE h \in Owned(u)
      OBVIOUS
  <2>1. groups[h].parent # NoParent
      BY GroupsAssumption DEF GroupTypeOK, Owned
  <2>2. groups[h].parent \in Owned(groups[h].owner)
      BY <2>1 DEF Rooted
  <2> QED BY <2>2 DEF Owned
<1>2. Owned(u) \in SUBSET DOMAIN groups
    BY DEF Owned
<1> QED BY <1>1, <1>2 DEF Cascade

-----------------------------------------------------------------------------
(* Types.                                                                  *)

LEMMA InitInv == Init => Inv
<1> SUFFICES ASSUME Init PROVE Inv
    OBVIOUS
<1> USE DEF Init, GroupInit
<1>1. TypeOK
    BY DEF TypeOK, GroupTypeOK
<1>2. NoOrphans /\ MembersMade
    BY DEF NoOrphans, Rooted, MembersMade
<1>3. RequestInv
    BY DEF RequestInv, Remembered, Idle
<1> QED BY <1>1, <1>2, <1>3 DEF Inv

LEMMA TableTypes ==
  ASSUME TypeOK, [Next]_vars
  PROVE /\ GroupTypeOK'
        /\ DOMAIN automations' \subseteq autosUsed'
        /\ automations' \in [DOMAIN automations' -> Automation]
        /\ autosUsed' \subseteq AutoIds
<1> USE DEF TypeOK, GroupTypeOK
<1>1. CASE SameTables
    BY <1>1 DEF SameTables, groupVars
<1>2. CASE \E w \in Workers, g \in GroupIds :
              CreateGroupCommit(w, g) /\ UNCHANGED <<automations, autosUsed>>
  <2> PICK w \in Workers, g \in GroupIds :
              CreateGroupCommit(w, g) /\ UNCHANGED <<automations, autosUsed>>
      BY <1>2
  <2> DEFINE r == req[w]
  <2>1. /\ r.pc = "create"
        /\ groups' = [h \in DOMAIN groups \cup {g} |->
                        IF h = g THEN [owner |-> r.user, parent |-> r.parent] ELSE groups[h]]
        /\ members' = members \cup NewMembers(g, r.nodes)
        /\ made' = [h \in DOMAIN made \cup {g} |->
                      IF h = g THEN ElementsOf(r.nodes) ELSE made[h]]
        /\ users' = users
      BY DEF CreateGroupCommit
  <2>2. r \in [pc : {"create"}, user : Users, parent : GroupIds \cup {NoParent}, nodes : Lists]
      BY <2>1 DEF Idle, GroupRequest, AutomationRequest
  <2>3. [owner |-> r.user, parent |-> r.parent] \in NodeGroup
      BY <2>2 DEF NodeGroup
  <2>4. ElementsOf(r.nodes) \subseteq Nodes
      BY <2>2, GroupsAssumption DEF ElementsOf
  <2>5. NewMembers(g, r.nodes) \subseteq GroupIds \X Nodes
      BY <2>4 DEF NewMembers
  <2> QED BY <2>1, <2>3, <2>4, <2>5
<1>3. CASE \E w \in Workers : DeleteGroupCommit(w) /\ UNCHANGED <<automations, autosUsed>>
    BY <1>3 DEF DeleteGroupCommit, DeleteRows
<1>4. CASE \E w \in Workers, a \in AutoIds : CreateAutomationCommit(w, a)
  <2> PICK w \in Workers, a \in AutoIds : CreateAutomationCommit(w, a)
      BY <1>4
  <2> DEFINE r == req[w]
  <2>1. r.pc = "new"
      BY DEF CreateAutomationCommit
  <2>2. r \in [pc : {"new"}, user : Users, cols : [Columns -> Values]]
      BY <2>1 DEF Idle, GroupRequest, AutomationRequest
  <2>3. [user |-> r.user, cols |-> r.cols] \in Automation
      BY <2>2 DEF Automation
  <2> QED BY <2>3 DEF CreateAutomationCommit, groupVars
<1>5. CASE \E w \in Workers : UpdateAutomationCommit(w)
  <2> PICK w \in Workers : UpdateAutomationCommit(w)
      BY <1>5
  <2> DEFINE r == req[w]
  <2>1. r.pc = "patch" /\ r.row \in DOMAIN automations
      BY DEF UpdateAutomationCommit
  <2>2. r \in [pc : {"patch"}, user : Users, row : AutoIds, patch : Patches,
               base : [Columns -> Values]]
      BY <2>1 DEF Idle, GroupRequest, AutomationRequest
  <2>3. r.patch \in Patches
      BY <2>2
  <2>4. \A c \in DOMAIN r.patch : r.patch[c] \in Values
      BY <2>3 DEF Patches
  <2>5. Patched(automations[r.row].cols, r.base, r.patch) \in [Columns -> Values]
      BY <2>1, <2>4 DEF Patched, Automation
  <2>6. automations' =
          [automations EXCEPT ![r.row] =
             [@ EXCEPT !.cols = Patched(automations[r.row].cols, r.base, r.patch)]]
      BY DEF UpdateAutomationCommit
  <2>7. automations' \in [DOMAIN automations -> Automation]
      BY <2>1, <2>5, <2>6 DEF Automation
  <2> QED BY <2>6, <2>7 DEF UpdateAutomationCommit, groupVars
<1>6. CASE \E w \in Workers : DeleteAutomationCommit(w)
    BY <1>6 DEF DeleteAutomationCommit, groupVars
<1>7. CASE \E u \in Users : DeleteUser(u)
    BY <1>7 DEF DeleteUser, DeleteRows
<1> QED BY <1>1, <1>2, <1>3, <1>4, <1>5, <1>6, <1>7, StepKinds

-----------------------------------------------------------------------------
(* Keys are given out once, and rows do not change hands.                  *)

Evolves ==
    /\ DOMAIN made \subseteq DOMAIN made'
    /\ \A g \in DOMAIN made : /\ made'[g] = made[g]
                              /\ g \in DOMAIN groups' =>
                                    g \in DOMAIN groups /\ groups'[g] = groups[g]
    /\ autosUsed \subseteq autosUsed'
    /\ \A a \in autosUsed : a \in DOMAIN automations' =>
          a \in DOMAIN automations /\ automations'[a].user = automations[a].user

LEMMA StepEvolves ==
  ASSUME TypeOK, MembersMade, [Next]_vars
  PROVE Evolves
<1> USE DEF Evolves
<1>1. CASE SameTables
    BY <1>1 DEF SameTables, groupVars
<1>2. CASE \E w \in Workers, g \in GroupIds :
              CreateGroupCommit(w, g) /\ UNCHANGED <<automations, autosUsed>>
    BY <1>2 DEF CreateGroupCommit, MembersMade
<1>3. CASE \E w \in Workers : DeleteGroupCommit(w) /\ UNCHANGED <<automations, autosUsed>>
    BY <1>3 DEF DeleteGroupCommit, DeleteRows
<1>4. CASE \E w \in Workers, a \in AutoIds : CreateAutomationCommit(w, a)
    BY <1>4 DEF CreateAutomationCommit, groupVars
<1>5. CASE \E w \in Workers : UpdateAutomationCommit(w)
  <2> PICK w \in Workers : UpdateAutomationCommit(w)
      BY <1>5
  <2>1. /\ DOMAIN automations' = DOMAIN automations
        /\ \A a \in DOMAIN automations : automations'[a].user = automations[a].user
      BY DEF UpdateAutomationCommit, TypeOK, Automation
  <2> QED BY <2>1 DEF UpdateAutomationCommit, groupVars
<1>6. CASE \E w \in Workers : DeleteAutomationCommit(w)
    BY <1>6 DEF DeleteAutomationCommit, groupVars
<1>7. CASE \E u \in Users : DeleteUser(u)
    BY <1>7 DEF DeleteUser, DeleteRows
<1> QED BY <1>1, <1>2, <1>3, <1>4, <1>5, <1>6, <1>7, StepKinds

-----------------------------------------------------------------------------
(* The tables.                                                             *)

\* Deleting groups with their cascade leaves a rooted forest, if the accounts
\* of the groups that stay exist.
LEMMA DeletionRooted ==
  ASSUME GroupTypeOK, Rooted, NEW S \in SUBSET DOMAIN groups, DeleteRows(S),
         \A g \in DOMAIN groups \ S : groups[g].owner \in users'
  PROVE Rooted'
<1> DEFINE gone == Cascade(S)
<1>1. /\ groups' = [g \in DOMAIN groups \ gone |-> groups[g]]
      /\ members' = {m \in members : m[1] \notin gone}
    BY DEF DeleteRows
<1>2. S \subseteq gone
    BY CascadeHolds
<1>3. ASSUME NEW g \in DOMAIN groups'
      PROVE /\ groups'[g].owner \in users'
            /\ groups'[g].parent # NoParent =>
                  /\ groups'[g].parent \in DOMAIN groups'
                  /\ groups'[groups'[g].parent].owner = groups'[g].owner
  <2>1. g \in DOMAIN groups /\ g \notin gone /\ groups'[g] = groups[g]
      BY <1>1
  <2>2. groups[g].parent \notin gone
      BY <2>1, CascadeClosed
  <2>3. groups[g].parent # NoParent =>
           /\ groups[g].parent \in DOMAIN groups
           /\ groups[groups[g].parent].owner = groups[g].owner
      BY <2>1 DEF Rooted, Owned
  <2> QED BY <1>1, <1>2, <2>1, <2>2, <2>3
<1>4. \A m \in members' : m[1] \in DOMAIN groups'
    BY <1>1 DEF Rooted
<1> QED BY <1>3, <1>4 DEF Rooted, Owned

LEMMA DeletionMade ==
  ASSUME MembersMade, NEW S, DeleteRows(S), made' = made
  PROVE MembersMade'
<1>1. /\ groups' = [g \in DOMAIN groups \ Cascade(S) |-> groups[g]]
      /\ members' = {m \in members : m[1] \notin Cascade(S)}
    BY DEF DeleteRows
<1>2. \A g \in DOMAIN groups' : MembersOf(g)' = MembersOf(g)
    BY <1>1 DEF MembersOf
<1> QED BY <1>1, <1>2 DEF MembersMade

LEMMA StepNoOrphans ==
  ASSUME Inv, [Next]_vars
  PROVE NoOrphans'
<1> USE DEF Inv
<1>0. GroupTypeOK /\ Rooted
    BY DEF TypeOK, NoOrphans
<1>1. CASE SameTables
    BY <1>1 DEF SameTables, groupVars, NoOrphans, Rooted, Owned
<1>2. CASE \E w \in Workers, g \in GroupIds :
              CreateGroupCommit(w, g) /\ UNCHANGED <<automations, autosUsed>>
  <2> PICK w \in Workers, g \in GroupIds :
              CreateGroupCommit(w, g) /\ UNCHANGED <<automations, autosUsed>>
      BY <1>2
  <2> DEFINE r == req[w]
  <2>1. /\ r.pc = "create"
        /\ r.user \in users
        /\ r.parent \in DOMAIN groups \cup {NoParent}
        /\ g \notin DOMAIN groups
        /\ groups' = [h \in DOMAIN groups \cup {g} |->
                        IF h = g THEN [owner |-> r.user, parent |-> r.parent] ELSE groups[h]]
        /\ members' = members \cup NewMembers(g, r.nodes)
        /\ users' = users
      BY DEF CreateGroupCommit, Anchored, MembersMade
  <2>2. r.parent # NoParent => r.parent \in Owned(r.user)
      BY <2>1 DEF RequestInv, Remembered, Owned
  <2>3. \A k \in DOMAIN groups : k \in DOMAIN groups' /\ groups'[k] = groups[k]
      BY <2>1
  <2>4. ASSUME NEW h \in DOMAIN groups'
        PROVE /\ groups'[h].owner \in users'
              /\ groups'[h].parent # NoParent =>
                    /\ groups'[h].parent \in DOMAIN groups'
                    /\ groups'[groups'[h].parent].owner = groups'[h].owner
    <3>1. CASE h = g
      <4>1. groups'[h].owner = r.user /\ groups'[h].parent = r.parent
          BY <2>1, <3>1
      <4> QED BY <4>1, <2>1, <2>2, <2>3 DEF Owned
    <3>2. CASE h # g
      <4>1. h \in DOMAIN groups /\ groups'[h] = groups[h]
          BY <2>1, <3>2
      <4>2. /\ groups[h].owner \in users
            /\ groups[h].parent # NoParent =>
                  /\ groups[h].parent \in DOMAIN groups
                  /\ groups[groups[h].parent].owner = groups[h].owner
          BY <4>1, <1>0 DEF Rooted, Owned
      <4> QED BY <4>1, <4>2, <2>1, <2>3
    <3> QED BY <3>1, <3>2
  <2>5. \A m \in members' : m[1] \in DOMAIN groups'
      BY <2>1, <1>0 DEF Rooted, NewMembers
  <2>6. Rooted'
      BY <2>4, <2>5 DEF Rooted, Owned
  <2> QED BY <2>1, <2>6 DEF NoOrphans
<1>3. CASE \E w \in Workers : DeleteGroupCommit(w) /\ UNCHANGED <<automations, autosUsed>>
  <2> PICK w \in Workers : DeleteGroupCommit(w) /\ UNCHANGED <<automations, autosUsed>>
      BY <1>3
  <2>1. DeleteRows({req[w].row} \cap DOMAIN groups) /\ users' = users
      BY DEF DeleteGroupCommit
  <2>2. \A g \in DOMAIN groups : groups[g].owner \in users'
      BY <2>1, <1>0 DEF Rooted
  <2>3. Rooted'
      BY <2>1, <2>2, <1>0, DeletionRooted
  <2> QED BY <2>1, <2>3 DEF NoOrphans
<1>4. CASE \E w \in Workers, a \in AutoIds : CreateAutomationCommit(w, a)
    BY <1>4 DEF CreateAutomationCommit, groupVars, NoOrphans, Rooted, Owned
<1>5. CASE \E w \in Workers : UpdateAutomationCommit(w)
  <2> PICK w \in Workers : UpdateAutomationCommit(w)
      BY <1>5
  <2>1. /\ DOMAIN automations' = DOMAIN automations
        /\ \A a \in DOMAIN automations : automations'[a].user = automations[a].user
      BY DEF UpdateAutomationCommit, TypeOK, Automation
  <2>2. UNCHANGED <<users, groupVars>>
      BY DEF UpdateAutomationCommit
  <2> QED BY <2>1, <2>2 DEF NoOrphans, groupVars, Rooted, Owned
<1>6. CASE \E w \in Workers : DeleteAutomationCommit(w)
    BY <1>6 DEF DeleteAutomationCommit, groupVars, NoOrphans, Rooted, Owned
<1>7. CASE \E u \in Users : DeleteUser(u)
  <2> PICK u \in Users : DeleteUser(u)
      BY <1>7
  <2>1. /\ users' = users \ {u} /\ DeleteRows(Owned(u))
        /\ automations' = [a \in DOMAIN automations \ Found(u) |-> automations[a]]
      BY DEF DeleteUser
  <2>2. \A g \in DOMAIN groups \ Owned(u) : groups[g].owner \in users'
      BY <2>1, <1>0 DEF Rooted, Owned
  <2>3. Owned(u) \in SUBSET DOMAIN groups
      BY DEF Owned
  <2>4. Rooted'
      BY <2>1, <2>2, <2>3, <1>0, DeletionRooted
  <2>5. \A a \in DOMAIN automations' : automations'[a].user \in users'
      BY <2>1 DEF NoOrphans, Found
  <2> QED BY <2>4, <2>5 DEF NoOrphans
<1> QED BY <1>1, <1>2, <1>3, <1>4, <1>5, <1>6, <1>7, StepKinds

LEMMA StepMembersMade ==
  ASSUME Inv, [Next]_vars
  PROVE MembersMade'
<1> USE DEF Inv
<1>1. CASE UNCHANGED groupVars
    BY <1>1 DEF groupVars, MembersMade, MembersOf
<1>2. CASE \E w \in Workers, g \in GroupIds : CreateGroupCommit(w, g)
  <2> PICK w \in Workers, g \in GroupIds : CreateGroupCommit(w, g)
      BY <1>2
  <2> DEFINE r == req[w]
  <2>1. /\ g \notin DOMAIN made /\ g \notin DOMAIN groups
        /\ DOMAIN groups' = DOMAIN groups \cup {g}
        /\ members' = members \cup NewMembers(g, r.nodes)
        /\ made' = [h \in DOMAIN made \cup {g} |->
                      IF h = g THEN ElementsOf(r.nodes) ELSE made[h]]
        /\ ElementsOf(r.nodes) \subseteq Registered
      BY DEF CreateGroupCommit, MembersMade, Known
  <2>2. MembersOf(g)' = made'[g]
      BY <2>1, GroupsAssumption DEF MembersOf, NewMembers, NoOrphans, Rooted
  <2>3. \A h \in DOMAIN groups : MembersOf(h)' = made'[h]
      BY <2>1 DEF MembersOf, NewMembers, MembersMade
  <2> QED BY <2>1, <2>2, <2>3 DEF MembersMade
<1>3. CASE \E w \in Workers : DeleteGroupCommit(w)
    BY <1>3, DeletionMade DEF DeleteGroupCommit
<1>4. CASE \E u \in Users : DeleteUser(u)
    BY <1>4, DeletionMade DEF DeleteUser
<1> QED BY <1>1, <1>2, <1>3, <1>4, StepKinds
        DEF SameTables, CreateAutomationCommit, UpdateAutomationCommit, DeleteAutomationCommit

-----------------------------------------------------------------------------
(* The requests.                                                           *)

\* What is remembered stays true while the tables evolve.
LEMMA RememberedKept ==
  ASSUME Evolves, NEW r, Remembered(r)
  PROVE Remembered(r)'
BY DEF Evolves, Remembered

\* The requests a step may begin or carry on, and what they remember.
LEMMA NewRequest ==
  ASSUME Inv, NEW w \in Workers,
         GroupNext(w) \/ AutomationNext(w), req'[w] # req[w], req'[w] # Idle
  PROVE req'[w] \in Requests /\ Remembered(req'[w])
<1> USE DEF Inv
<1>0. /\ req \in [Workers -> Requests]
      /\ DOMAIN groups \subseteq DOMAIN made /\ DOMAIN made \subseteq GroupIds
      /\ DOMAIN automations \subseteq autosUsed /\ autosUsed \subseteq AutoIds
    BY DEF TypeOK, GroupTypeOK, Requests, MembersMade
<1>1. ASSUME NEW u \in Users, NEW p \in GroupIds \cup {NoParent}, NEW l \in Lists,
             CreateGroup(w, u, p, l)
      PROVE req'[w] \in Requests /\ Remembered(req'[w])
  <2>1. req'[w] = [pc |-> "create", user |-> u, parent |-> p, nodes |-> l]
      BY <1>1, <1>0 DEF CreateGroup, Arrive
  <2>2. p = NoParent \/ (p \in DOMAIN groups /\ groups[p].owner = u)
      BY <1>1 DEF CreateGroup, ParentOk, Owned
  <2> QED BY <2>1, <2>2, <1>0 DEF Requests, GroupRequest, Remembered
<1>2. ASSUME NEW u \in Users, NEW g \in GroupIds, DeleteGroup(w, u, g)
      PROVE req'[w] \in Requests /\ Remembered(req'[w])
  <2>1. req'[w] = [pc |-> "delete", user |-> u, row |-> g]
      BY <1>2, <1>0 DEF DeleteGroup, Arrive
  <2>2. g \in DOMAIN groups /\ groups[g].owner = u
      BY <1>2 DEF DeleteGroup, Deletable, Owned
  <2> QED BY <2>1, <2>2, <1>0 DEF Requests, GroupRequest, Remembered
<1>3. ASSUME NEW u \in Users, NEW S \in SUBSET GroupIds, ListGroups(w, u, S)
      PROVE req'[w] \in Requests /\ Remembered(req'[w])
  <2>1. req'[w] = [pc |-> "list", user |-> u, todo |-> S, out |-> {}]
      BY <1>3, <1>0 DEF ListGroups, Arrive
  <2>2. S \subseteq DOMAIN groups
      BY <1>3 DEF ListGroups, Owned
  <2> QED BY <2>1, <2>2, <1>0 DEF Requests, GroupRequest, Remembered
<1>4. ASSUME NEW g \in GroupIds, ListNodes(w, g)
      PROVE req'[w] \in Requests /\ Remembered(req'[w])
  <2> DEFINE r == req[w]
             e == <<g, MembersOf(g)>>
  <2>1. /\ r.pc = "list" /\ g \in r.todo
        /\ req'[w] = [pc |-> "list", user |-> r.user, todo |-> r.todo \ {g},
                      out |-> r.out \cup {e}]
      BY <1>4, <1>0 DEF ListNodes
  <2>2. r \in [pc : {"list"}, user : Users, todo : SUBSET GroupIds,
               out : SUBSET (GroupIds \X SUBSET Nodes)]
      BY <2>1, <1>0 DEF Requests, Idle, GroupRequest, AutomationRequest
  <2>3. e \in GroupIds \X SUBSET Nodes
      BY DEF MembersOf
  <2>4. /\ r.todo \subseteq DOMAIN made
        /\ \A x \in r.out :
              /\ x[1] \in DOMAIN made
              /\ x[2] = made[x[1]] \/ (x[2] = {} /\ x[1] \notin DOMAIN groups)
      BY <2>1 DEF RequestInv, Remembered
  <2>5. MembersOf(g) = made[g] \/ (MembersOf(g) = {} /\ g \notin DOMAIN groups)
    <3>1. CASE g \in DOMAIN groups
        BY <3>1 DEF MembersMade
    <3>2. CASE g \notin DOMAIN groups
        BY <3>2 DEF NoOrphans, Rooted, MembersOf
    <3> QED BY <3>1, <3>2
  <2>6. req'[w] \in [pc : {"list"}, user : Users, todo : SUBSET GroupIds,
                     out : SUBSET (GroupIds \X SUBSET Nodes)]
      BY <2>1, <2>2, <2>3
  <2>7. \A x \in r.out \cup {e} :
              /\ x[1] \in DOMAIN made
              /\ x[2] = made[x[1]] \/ (x[2] = {} /\ x[1] \notin DOMAIN groups)
      BY <2>1, <2>4, <2>5
  <2>8. Remembered(req'[w])
      BY <2>1, <2>4, <2>7 DEF Remembered
  <2> QED BY <2>6, <2>8 DEF Requests, GroupRequest
<1>5. ASSUME NEW u \in Users, NEW cols \in [Columns -> Values], CreateAutomation(w, u, cols)
      PROVE req'[w] \in Requests /\ Remembered(req'[w])
  <2>1. req'[w] = [pc |-> "new", user |-> u, cols |-> cols]
      BY <1>5, <1>0 DEF CreateAutomation, Arrive
  <2> QED BY <2>1 DEF Requests, AutomationRequest, Remembered
<1>6. ASSUME NEW u \in Users, NEW a \in AutoIds, NEW p \in Patches, UpdateAutomation(w, u, a, p)
      PROVE req'[w] \in Requests /\ Remembered(req'[w])
  <2>1. req'[w] = [pc |-> "patch", user |-> u, row |-> a, patch |-> p,
                   base |-> automations[a].cols]
      BY <1>6, <1>0 DEF UpdateAutomation, Arrive
  <2>2. a \in DOMAIN automations /\ automations[a].user = u
      BY <1>6 DEF UpdateAutomation, Found
  <2>3. automations[a].cols \in [Columns -> Values]
      BY <2>2 DEF TypeOK, Automation
  <2> QED BY <2>1, <2>2, <2>3, <1>0 DEF Requests, AutomationRequest, Remembered
<1>7. ASSUME NEW u \in Users, NEW a \in AutoIds, DeleteAutomation(w, u, a)
      PROVE req'[w] \in Requests /\ Remembered(req'[w])
  <2>1. req'[w] = [pc |-> "remove", user |-> u, row |-> a]
      BY <1>7, <1>0 DEF DeleteAutomation, Arrive
  <2>2. a \in DOMAIN automations /\ automations[a].user = u
      BY <1>7 DEF DeleteAutomation, Found
  <2> QED BY <2>1, <2>2, <1>0 DEF Requests, AutomationRequest, Remembered
<1>8. CASE \/ CreateGroupConflict(w) \/ DeleteGroupCommit(w) \/ ListReply(w)
           \/ \E g \in GroupIds : CreateGroupCommit(w, g)
           \/ \E a \in AutoIds : CreateAutomationCommit(w, a)
           \/ CreateAutomationConflict(w) \/ UpdateAutomationCommit(w)
           \/ UpdateAutomationStale(w) \/ DeleteAutomationCommit(w)
  <2>1. req' = [req EXCEPT ![w] = Idle]
      BY <1>8 DEF CreateGroupConflict, DeleteGroupCommit, ListReply, CreateGroupCommit,
         CreateAutomationCommit, CreateAutomationConflict, UpdateAutomationCommit,
         UpdateAutomationStale, DeleteAutomationCommit, Reply
  <2> QED BY <2>1, <1>0
<1> QED BY <1>1, <1>2, <1>3, <1>4, <1>5, <1>6, <1>7, <1>8 DEF GroupNext, AutomationNext

\* A step serves one request at most.
LEMMA OneRequest ==
  ASSUME req \in [Workers -> Requests], [Next]_vars
  PROVE /\ DOMAIN req' = Workers /\ req' = [v \in Workers |-> req'[v]]
        /\ \A v \in Workers : \/ req'[v] = req[v]
                              \/ req'[v] = Idle
                              \/ (GroupNext(v) \/ AutomationNext(v)) /\ SameTables
<1>1. CASE UNCHANGED vars
    BY <1>1 DEF vars
<1>2. ASSUME NEW w \in Workers, GroupNext(w), UNCHANGED <<automations, autosUsed>>
      PROVE /\ \E r : req' = [req EXCEPT ![w] = r]
            /\ req' = [req EXCEPT ![w] = Idle] \/ SameTables
    BY <1>2 DEF GroupNext, CreateGroup, CreateGroupCommit, CreateGroupConflict, DeleteGroup,
       DeleteGroupCommit, ListGroups, ListNodes, ListReply, Arrive, Reply, SameTables, groupVars
<1>3. ASSUME NEW w \in Workers, AutomationNext(w)
      PROVE /\ \E r : req' = [req EXCEPT ![w] = r]
            /\ req' = [req EXCEPT ![w] = Idle] \/ SameTables
    BY <1>3 DEF AutomationNext, CreateAutomation, CreateAutomationCommit,
       CreateAutomationConflict, UpdateAutomation, UpdateAutomationCommit,
       UpdateAutomationStale, DeleteAutomation, DeleteAutomationCommit, Arrive, Reply,
       SameTables, groupVars
<1>4. ASSUME NEW w \in Workers, Abort(w)
      PROVE req' = [req EXCEPT ![w] = Idle]
    BY <1>4 DEF Abort, Reply
<1>5. CASE \E u \in Users : DeleteUser(u)
    BY <1>5 DEF DeleteUser
<1>6. CASE \E w \in Workers : GroupNext(w) /\ UNCHANGED <<automations, autosUsed>>
    BY <1>6, <1>2
<1>7. CASE \E w \in Workers : AutomationNext(w)
    BY <1>7, <1>3
<1>8. CASE \E w \in Workers : Abort(w)
    BY <1>8, <1>4
<1> QED BY <1>1, <1>5, <1>6, <1>7, <1>8 DEF Next

LEMMA StepRequests ==
  ASSUME Inv, [Next]_vars
  PROVE req' \in [Workers -> Requests] /\ RequestInv'
<1> USE DEF Inv
<1>1. req \in [Workers -> Requests]
    BY DEF TypeOK, Requests
<1>2. Evolves
    BY StepEvolves
<1>3. ASSUME NEW v \in Workers
      PROVE req'[v] \in Requests /\ Remembered(req[v])'
  <2>1. CASE req'[v] = req[v]
    <3>1. Remembered(req[v])
        BY DEF RequestInv
    <3> QED BY <2>1, <3>1, <1>1, <1>2 DEF Evolves, Remembered
  <2>2. CASE req'[v] = Idle
      BY <2>2 DEF Requests, Idle, Remembered
  <2>3. CASE /\ req'[v] # req[v] /\ req'[v] # Idle
             /\ GroupNext(v) \/ AutomationNext(v)
             /\ SameTables
    <3>1. req'[v] \in Requests /\ Remembered(req'[v])
        BY <2>3, NewRequest
    <3> QED BY <3>1, <2>3 DEF Remembered, SameTables, groupVars
  <2> QED BY <2>1, <2>2, <2>3, <1>1, OneRequest
<1>4. req' = [v \in Workers |-> req'[v]]
    BY <1>1, OneRequest
<1> QED BY <1>3, <1>4 DEF RequestInv

-----------------------------------------------------------------------------
(* Theorems.                                                               *)

LEMMA InvStep == Inv /\ [Next]_vars => Inv'
<1> SUFFICES ASSUME Inv, [Next]_vars PROVE Inv'
    OBVIOUS
<1>1. req' \in [Workers -> Requests] /\ RequestInv'
    BY StepRequests
<1>2. TypeOK'
    BY <1>1, TableTypes DEF Inv, TypeOK, Requests
<1>3. NoOrphans' /\ MembersMade'
    BY StepNoOrphans, StepMembersMade
<1> QED BY <1>1, <1>2, <1>3 DEF Inv

LEMMA Invariant == Spec => []Inv
BY InitInv, InvStep, PTL DEF Spec

\* The tables and the requests under way keep their types.
THEOREM TypeCorrect == Spec => []TypeOK
<1>1. Inv => TypeOK
    BY DEF Inv
<1> QED BY <1>1, Invariant, PTL

\* No group and no automation outlives its user or its parent group, whatever
\* is deleted between the check in create_group and its commit.
THEOREM OrphanFree == Spec => []NoOrphans
<1>1. Inv => NoOrphans
    BY DEF Inv
<1> QED BY <1>1, Invariant, PTL

\* list_groups, one SELECT per group, never shows a part of a group.
THEOREM GroupsListedWhole == Spec => []ListedWhole
<1>1. Inv => ListedWhole
    BY DEF Inv, RequestInv, Remembered, ListedWhole
<1> QED BY <1>1, Invariant, PTL

\* Groups go with their user's account or by a request of that user, their
\* descendants included.
LEMMA GroupsByOwnHands ==
  ASSUME Inv, [Next]_vars, NEW g \in DOMAIN groups \ DOMAIN groups'
  PROVE \/ groups[g].owner \notin users'
        \/ \E w \in Workers : /\ req[w].pc = "delete" /\ req'[w].pc = "idle"
                              /\ req[w].user = groups[g].owner
<1> USE DEF Inv
<1>0. GroupTypeOK /\ Rooted /\ req \in [Workers -> Requests]
    BY DEF TypeOK, NoOrphans, Requests
<1>1. CASE \E w \in Workers : DeleteGroupCommit(w)
  <2> PICK w \in Workers : DeleteGroupCommit(w)
      BY <1>1
  <2> DEFINE r == req[w]
  <2>1. /\ r.pc = "delete"
        /\ DOMAIN groups' = DOMAIN groups \ Cascade({r.row} \cap DOMAIN groups)
        /\ req' = [req EXCEPT ![w] = Idle]
      BY DEF DeleteGroupCommit, DeleteRows, Reply
  <2>2. {r.row} \cap DOMAIN groups \in SUBSET Owned(r.user)
      BY <2>1 DEF RequestInv, Remembered, Owned
  <2>3. Cascade({r.row} \cap DOMAIN groups) \subseteq Owned(r.user)
      BY <2>2, <1>0, CascadeOfOwner
  <2>4. groups[g].owner = r.user
      BY <2>1, <2>3 DEF Owned
  <2> QED BY <2>1, <2>4, <1>0 DEF Idle
<1>2. CASE \E u \in Users : DeleteUser(u)
  <2> PICK u \in Users : DeleteUser(u)
      BY <1>2
  <2>1. users' = users \ {u} /\ DOMAIN groups' = DOMAIN groups \ Cascade(Owned(u))
      BY DEF DeleteUser, DeleteRows
  <2>2. Cascade(Owned(u)) \subseteq Owned(u)
      BY <1>0, CascadeOfOwner
  <2> QED BY <2>1, <2>2 DEF Owned
<1> QED BY <1>1, <1>2, StepKinds
        DEF SameTables, groupVars, CreateGroupCommit, CreateAutomationCommit,
            UpdateAutomationCommit, DeleteAutomationCommit

LEMMA AutomationsByOwnHands ==
  ASSUME Inv, [Next]_vars, NEW a \in DOMAIN automations \ DOMAIN automations'
  PROVE \/ automations[a].user \notin users'
        \/ \E w \in Workers : /\ req[w].pc = "remove" /\ req'[w].pc = "idle"
                              /\ req[w].user = automations[a].user
<1> USE DEF Inv
<1>0. req \in [Workers -> Requests]
    BY DEF TypeOK, Requests
<1>1. CASE \E w \in Workers : DeleteAutomationCommit(w)
  <2> PICK w \in Workers : DeleteAutomationCommit(w)
      BY <1>1
  <2>1. /\ req[w].pc = "remove" /\ a = req[w].row
        /\ req' = [req EXCEPT ![w] = Idle]
      BY DEF DeleteAutomationCommit, Reply
  <2>2. automations[a].user = req[w].user
      BY <2>1 DEF RequestInv, Remembered
  <2> QED BY <2>1, <2>2, <1>0 DEF Idle
<1>2. CASE \E u \in Users : DeleteUser(u)
    BY <1>2 DEF DeleteUser, Found
<1> QED BY <1>1, <1>2, StepKinds
        DEF SameTables, CreateAutomationCommit, UpdateAutomationCommit

\* A row goes only with its user's account or by a request of that user, and
\* an update after the deletion brings no automation back.
THEOREM ByOwnHands == Spec => OwnHandsOnly
<1>1. Inv /\ [Next]_vars =>
        [/\ \A g \in DOMAIN groups \ DOMAIN groups' :
              \/ groups[g].owner \notin users'
              \/ \E w \in Workers : /\ req[w].pc = "delete" /\ req'[w].pc = "idle"
                                    /\ req[w].user = groups[g].owner
         /\ \A a \in DOMAIN automations \ DOMAIN automations' :
              \/ automations[a].user \notin users'
              \/ \E w \in Workers : /\ req[w].pc = "remove" /\ req'[w].pc = "idle"
                                    /\ req[w].user = automations[a].user
         /\ \A a \in autosUsed : a \in DOMAIN automations' => a \in DOMAIN automations]_vars
    BY GroupsByOwnHands, AutomationsByOwnHands, StepEvolves DEF Inv, Evolves
<1> QED BY <1>1, Invariant, PTL DEF Spec, OwnHandsOnly

\* A patch changes the columns it names, to what it says, and no other; so of
\* two overlapping patches of different columns both stand.
THEOREM PatchesBothStand == Spec => PatchesStand
<1>1. ASSUME Inv, [Next]_vars, NEW a \in DOMAIN automations \cap DOMAIN automations',
             automations'[a] # automations[a]
      PROVE \E w \in Workers :
                /\ req[w].pc = "patch" /\ req[w].row = a
                /\ req[w].user = automations[a].user
                /\ \A c \in Columns :
                      IF c \in DOMAIN req[w].patch
                      THEN \/ automations'[a].cols[c] = req[w].patch[c]
                           \/ automations[a].cols[c] # req[w].base[c]
                      ELSE automations'[a].cols[c] = automations[a].cols[c]
  <2> USE DEF Inv
  <2>1. \E w \in Workers : UpdateAutomationCommit(w)
      BY <1>1, StepKinds
         DEF SameTables, CreateAutomationCommit, DeleteAutomationCommit, DeleteUser, TypeOK
  <2> PICK w \in Workers : UpdateAutomationCommit(w)
      BY <2>1
  <2> DEFINE r == req[w]
             new == Patched(automations[a].cols, r.base, r.patch)
  <2>2. r.pc = "patch" /\ r.row = a
      BY <1>1 DEF UpdateAutomationCommit
  <2>3. r.user = automations[a].user
      BY <1>1, <2>2 DEF RequestInv, Remembered
  <2>4. automations' = [automations EXCEPT ![a].cols = new]
      BY <2>2 DEF UpdateAutomationCommit
  <2>5. automations[a] \in Automation
      BY <1>1 DEF TypeOK
  <2>6. automations'[a].cols = new
      BY <1>1, <2>4, <2>5 DEF Automation
  <2>7. \A c \in Columns :
            IF c \in DOMAIN r.patch
            THEN new[c] = r.patch[c] \/ automations[a].cols[c] # r.base[c]
            ELSE new[c] = automations[a].cols[c]
      BY DEF Patched
  <2> QED BY <2>2, <2>3, <2>6, <2>7
<1>2. Inv /\ [Next]_vars =>
        [\A a \in DOMAIN automations \cap DOMAIN automations' :
            automations'[a] # automations[a] =>
                \E w \in Workers :
                    /\ req[w].pc = "patch" /\ req[w].row = a
                    /\ req[w].user = automations[a].user
                    /\ \A c \in Columns :
                          IF c \in DOMAIN req[w].patch
                          THEN \/ automations'[a].cols[c] = req[w].patch[c]
                               \/ automations[a].cols[c] # req[w].base[c]
                          ELSE automations'[a].cols[c] = automations[a].cols[c]]_vars
    BY <1>1
<1> QED BY <1>2, Invariant, PTL DEF Spec, PatchesStand
=============================================================================
