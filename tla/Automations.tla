---------------------------- MODULE Automations -----------------------------
(***************************************************************************)
(* Automations, the other rows a user owns, next to the groups; and what   *)
(* deleting the account does to both.  Nothing in the code evaluates       *)
(* automations: they are stored, listed, patched and deleted.              *)
(***************************************************************************)
EXTENDS Groups

CONSTANTS
    AutoIds,    \* primary keys of automations
    Columns,    \* the columns of a row; "enabled" is one
    Values,     \* what a column may hold
    On          \* the value of enabled in a new row

ASSUME AutomationsAssumption == "enabled" \in Columns /\ On \in Values

VARIABLES
    automations,  \* primary key -> row
    autosUsed     \* history: the keys that were given out

vars == <<users, groups, members, req, made, automations, autosUsed>>

-----------------------------------------------------------------------------

Automation == [user : Users, cols : [Columns -> Values]]

Patches == UNION {[S -> Values] : S \in SUBSET Columns}

AutomationRequest ==
    [pc : {"new"}, user : Users, cols : [Columns -> Values]]
      \cup [pc : {"patch"}, user : Users, row : AutoIds, patch : Patches,
            base : [Columns -> Values]]
      \cup [pc : {"remove"}, user : Users, row : AutoIds]

TypeOK ==
    /\ GroupTypeOK
    /\ DOMAIN automations \subseteq autosUsed
    /\ automations \in [DOMAIN automations -> Automation]
    /\ autosUsed \subseteq AutoIds
    /\ req \in [Workers -> {Idle} \cup GroupRequest \cup AutomationRequest]

Init ==
    /\ GroupInit
    /\ automations = [a \in {} |-> 0]
    /\ autosUsed = {}

-----------------------------------------------------------------------------
(* POST /user/node_automation.                                             *)

\* A new automation is enabled, whatever the client sends.
CreateAutomation(w, u, cols) ==
    /\ cols["enabled"] = On
    /\ Arrive(w, u, [pc |-> "new", user |-> u, cols |-> cols])
    /\ UNCHANGED <<users, groupVars, automations, autosUsed>>

CreateAutomationCommit(w, a) ==
    LET r == req[w] IN
    /\ r.pc = "new"
    /\ r.user \in users
    /\ a \in AutoIds \ autosUsed
    /\ automations' = [b \in DOMAIN automations \cup {a} |->
                         IF b = a THEN [user |-> r.user, cols |-> r.cols]
                         ELSE automations[b]]
    /\ autosUsed' = autosUsed \cup {a}
    /\ Reply(w)
    /\ UNCHANGED <<users, groupVars>>

\* The account is gone: foreign key, 500.
CreateAutomationConflict(w) ==
    /\ req[w].pc = "new"
    /\ req[w].user \notin users
    /\ Reply(w)
    /\ UNCHANGED <<users, groupVars, automations, autosUsed>>

-----------------------------------------------------------------------------
(* PUT and DELETE /user/node_automation.                                   *)

\* The row is looked up by its id and the caller; 404 otherwise.
Found(u) == {a \in DOMAIN automations : automations[a].user = u}

UpdateAutomation(w, u, a, patch) ==
    /\ a \in Found(u)
    /\ Arrive(w, u, [pc |-> "patch", user |-> u, row |-> a, patch |-> patch,
                     base |-> automations[a].cols])
    /\ UNCHANGED <<users, groupVars, automations, autosUsed>>

Bug_Patched(cols, base, patch) ==
    [c \in Columns |-> IF c \in DOMAIN patch THEN patch[c] ELSE base[c]]

\* The UPDATE: the columns of the patch whose value differs from the one read.
Patched(cols, base, patch) ==
    [c \in Columns |-> IF c \in DOMAIN patch /\ patch[c] # base[c] THEN patch[c]
                       ELSE cols[c]]

UpdateAutomationCommit(w) ==
    LET r == req[w] IN
    /\ r.pc = "patch"
    /\ r.row \in DOMAIN automations
    /\ automations' = [automations EXCEPT ![r.row].cols = Patched(@, r.base, r.patch)]
    /\ Reply(w)
    /\ UNCHANGED <<users, groupVars, autosUsed>>

\* The row is gone: the UPDATE, or the refresh after it, fails; 500.
UpdateAutomationStale(w) ==
    /\ req[w].pc = "patch"
    /\ req[w].row \notin DOMAIN automations
    /\ Reply(w)
    /\ UNCHANGED <<users, groupVars, automations, autosUsed>>

DeleteAutomation(w, u, a) ==
    /\ a \in Found(u)
    /\ Arrive(w, u, [pc |-> "remove", user |-> u, row |-> a])
    /\ UNCHANGED <<users, groupVars, automations, autosUsed>>

DeleteAutomationCommit(w) ==
    /\ req[w].pc = "remove"
    /\ automations' = [a \in DOMAIN automations \ {req[w].row} |-> automations[a]]
    /\ Reply(w)
    /\ UNCHANGED <<users, groupVars, autosUsed>>

-----------------------------------------------------------------------------

\* The account is deleted (Accounts): every row of the user goes with it.
DeleteUser(u) ==
    /\ u \in users
    /\ users' = users \ {u}
    /\ DeleteRows(Owned(u))
    /\ automations' = [a \in DOMAIN automations \ Found(u) |-> automations[a]]
    /\ UNCHANGED <<req, made, autosUsed>>

Abort(w) ==
    /\ req[w].pc # "idle"
    /\ Reply(w)
    /\ UNCHANGED <<users, groupVars, automations, autosUsed>>

AutomationNext(w) ==
    \/ \E u \in Users, cols \in [Columns -> Values] : CreateAutomation(w, u, cols)
    \/ \E a \in AutoIds : CreateAutomationCommit(w, a)
    \/ CreateAutomationConflict(w)
    \/ \E u \in Users, a \in AutoIds, p \in Patches : UpdateAutomation(w, u, a, p)
    \/ UpdateAutomationCommit(w)
    \/ UpdateAutomationStale(w)
    \/ \E u \in Users, a \in AutoIds : DeleteAutomation(w, u, a)
    \/ DeleteAutomationCommit(w)

Next ==
    \/ \E w \in Workers : GroupNext(w) /\ UNCHANGED <<automations, autosUsed>>
    \/ \E w \in Workers : AutomationNext(w) \/ Abort(w)
    \/ \E u \in Users : DeleteUser(u)

Spec == Init /\ [][Next]_vars

-----------------------------------------------------------------------------
(* Properties.                                                             *)

\* No row outlives its user: what is created while the account, or the parent
\* group, is being deleted either goes with it or is not created.
NoOrphans == Rooted /\ \A a \in DOMAIN automations : automations[a].user \in users

\* A row of a user goes only with the account or by a request of that user,
\* and what a group's deletion takes along is the same user's; a key that
\* was given out never names a row again, so an update that comes after the
\* deletion does not bring the row back.
OwnHandsOnly ==
    [][/\ \A g \in DOMAIN groups \ DOMAIN groups' :
             \/ groups[g].owner \notin users'
             \/ \E w \in Workers : /\ req[w].pc = "delete" /\ req'[w].pc = "idle"
                                   /\ req[w].user = groups[g].owner
       /\ \A a \in DOMAIN automations \ DOMAIN automations' :
             \/ automations[a].user \notin users'
             \/ \E w \in Workers : /\ req[w].pc = "remove" /\ req'[w].pc = "idle"
                                   /\ req[w].user = automations[a].user
       /\ \A a \in autosUsed : a \in DOMAIN automations' => a \in DOMAIN automations]_vars

\* Two patches of one automation may overlap: a commit changes no column but
\* those its own patch names, to the value the patch gives it, and it leaves
\* none of them out that nobody changed since it read the row; so two patches
\* of different columns both stand.
PatchesStand ==
    [][\A a \in DOMAIN automations \cap DOMAIN automations' :
          automations'[a] # automations[a] =>
              \E w \in Workers :
                  /\ req[w].pc = "patch" /\ req[w].row = a
                  /\ req[w].user = automations[a].user
                  /\ \A c \in Columns :
                        IF c \in DOMAIN req[w].patch
                        THEN \/ automations'[a].cols[c] = req[w].patch[c]
                             \/ automations[a].cols[c] # req[w].base[c]
                        ELSE automations'[a].cols[c] = automations[a].cols[c]]_vars
=============================================================================
