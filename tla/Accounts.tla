------------------------------ MODULE Accounts ------------------------------
(***************************************************************************)
(* User accounts and sessions: sign up, confirm, log in, refresh, log out, *)
(* change or reset the password, delete.  Requests run as in Claiming: one *)
(* step per SELECT that is used later, one per COMMIT.  An access token is *)
(* stateless, so all the model keeps is for which accounts one is still    *)
(* valid; a refresh token is a row.  A definition named Bug_... is a       *)
(* mutated form of the one that follows it; no specification uses it.      *)
(***************************************************************************)
EXTENDS Naturals, FiniteSets

CONSTANTS
    Names, Passwords,
    Codes,     \* six-digit codes, drawn at random: a draw may repeat
    NoCode,    \* the NULL of confirm_code and reset_code
    Ids,       \* primary keys of users
    Tokens,    \* jti of refresh_tokens
    Workers    \* concurrent API requests

ASSUME NoCodeAssumption == NoCode \notin Codes

VARIABLES
    users,     \* primary key -> row
    tokens,    \* refresh_tokens: jti -> row
    access,    \* accounts with an access token that has not expired
    req,       \* the request each worker is serving
    used,      \* history: <<ids, jtis>> drawn so far (a UUID never repeats)
    ended      \* history: tokens that existed when a successful logout began

vars == <<users, tokens, access, req, used, ended>>

-----------------------------------------------------------------------------
(* Rows and requests.                                                      *)

\* The two ...Late bits are confirm_code_exp < now and reset_code_exp < now.
\* resetBy is history: the workers that used the reset code issued last.
User ==
    [name : Names, password : Passwords,
     status : {"unconfirmed", "confirmed"},
     confirm : Codes \cup {NoCode}, confirmLate : BOOLEAN,
     reset : Codes \cup {NoCode}, resetLate : BOOLEAN,
     resetBy : SUBSET Workers]

RefreshToken == [user : Ids, revoked : BOOLEAN, late : BOOLEAN]

Idle == [pc |-> "idle"]

\* held is history: the account's tokens when the logout arrived; so is
\* after: whether the token had been ended when the refresh arrived.
Request ==
    {Idle}
      \cup [pc : {"signup"}, name : Names, password : Passwords]
      \cup [pc : {"confirm", "login", "mint", "delete"}, user : Ids]
      \cup [pc : {"change", "reset"}, user : Ids, new : Passwords]
      \cup [pc : {"forgot"}, user : Ids, was : Codes \cup {NoCode}]
      \cup [pc : {"refresh"}, user : Ids, after : BOOLEAN]
      \cup [pc : {"logout"}, user : Ids, held : SUBSET Tokens]
      \cup [pc : {"revoke"}, user : Ids, held : SUBSET Tokens,
            rows : SUBSET Tokens]

TypeOK ==
    /\ DOMAIN users \subseteq Ids
    /\ users \in [DOMAIN users -> User]
    /\ DOMAIN tokens \subseteq Tokens
    /\ tokens \in [DOMAIN tokens -> RefreshToken]
    /\ access \subseteq Ids
    /\ req \in [Workers -> Request]
    /\ used \in (SUBSET Ids) \X (SUBSET Tokens)
    /\ ended \subseteq Tokens

Init ==
    /\ users = [i \in {} |-> 0]
    /\ tokens = [t \in {} |-> 0]
    /\ access = {}
    /\ req = [w \in Workers |-> Idle]
    /\ used = <<{}, {}>>
    /\ ended = {}

Begin(w, r) == req[w].pc = "idle" /\ req' = [req EXCEPT ![w] = r]

Reply(w) == req' = [req EXCEPT ![w] = Idle]

\* SELECT ... WHERE user_name = n, found.
Found(i, n) == i \in DOMAIN users /\ users[i].name = n

Confirmed(i) == i \in DOMAIN users /\ users[i].status = "confirmed"

\* The account of a valid access token, as the dependency of every user
\* route loads it.
get_current_user(i) == i \in access /\ Confirmed(i)

-----------------------------------------------------------------------------
(* POST /user2: sign up.                                                   *)

SignupRead(w, n, p) ==
    /\ \A i \in DOMAIN users : users[i].name # n
    /\ Begin(w, [pc |-> "signup", name |-> n, password |-> p])
    /\ UNCHANGED <<users, tokens, access, used, ended>>

Bug_NameFree(n) == TRUE

\* The unique key on user_name.
NameFree(n) == \A i \in DOMAIN users : users[i].name # n

SignupCommit(w, i, c) ==
    /\ req[w].pc = "signup"
    /\ NameFree(req[w].name)
    /\ i \notin used[1]
    /\ users' = [j \in DOMAIN users \cup {i} |->
                   IF j \in DOMAIN users THEN users[j]
                   ELSE [name |-> req[w].name, password |-> req[w].password,
                         status |-> "unconfirmed",
                         confirm |-> c, confirmLate |-> FALSE,
                         reset |-> NoCode, resetLate |-> FALSE,
                         resetBy |-> {}]]
    /\ used' = <<used[1] \cup {i}, used[2]>>
    /\ Reply(w)
    /\ UNCHANGED <<tokens, access, ended>>

SignupConflict(w) ==
    /\ req[w].pc = "signup"
    /\ ~NameFree(req[w].name)
    /\ Reply(w)
    /\ UNCHANGED <<users, tokens, access, used, ended>>

-----------------------------------------------------------------------------
(* UPDATEs of a row read earlier.  An account deleted since matches no row *)
(* and the commit fails.                                                   *)

UpdateStale(w) ==
    /\ req[w].pc \in {"confirm", "login", "change", "forgot", "reset"}
    /\ req[w].user \notin DOMAIN users
    /\ Reply(w)
    /\ UNCHANGED <<users, tokens, access, used, ended>>

(* PUT /user2: confirm a sign-up.                                          *)

Bug_ConfirmRead(w, i, n, c) ==
    /\ Found(i, n)
    /\ users[i].confirm = c
    /\ Begin(w, [pc |-> "confirm", user |-> i])
    /\ UNCHANGED <<users, tokens, access, used, ended>>

ConfirmRead(w, i, n, c) ==
    /\ Found(i, n)
    /\ users[i].confirm = c
    /\ ~users[i].confirmLate
    /\ Begin(w, [pc |-> "confirm", user |-> i])
    /\ UNCHANGED <<users, tokens, access, used, ended>>

ConfirmCommit(w) ==
    /\ req[w].pc = "confirm"
    /\ req[w].user \in DOMAIN users
    /\ users' = [users EXCEPT ![req[w].user].status = "confirmed",
                              ![req[w].user].confirm = NoCode,
                              ![req[w].user].confirmLate = FALSE]
    /\ Reply(w)
    /\ UNCHANGED <<tokens, access, used, ended>>

-----------------------------------------------------------------------------
(* POST /login2 with a password: last_login_at in one commit, the refresh  *)
(* token in another.                                                       *)

LoginRead(w, i, n, p) ==
    /\ Found(i, n)
    /\ users[i].password = p
    /\ users[i].status = "confirmed"
    /\ Begin(w, [pc |-> "login", user |-> i])
    /\ UNCHANGED <<users, tokens, access, used, ended>>

LoginCommit(w) ==
    /\ req[w].pc = "login"
    /\ req[w].user \in DOMAIN users
    /\ req' = [req EXCEPT ![w].pc = "mint"]
    /\ UNCHANGED <<users, tokens, access, used, ended>>

\* The foreign key refresh_tokens.user_id.
UserKey(i) == i \in DOMAIN users

MintCommit(w, t) ==
    /\ req[w].pc = "mint"
    /\ UserKey(req[w].user)
    /\ t \notin used[2]
    /\ tokens' = [s \in DOMAIN tokens \cup {t} |->
                    IF s \in DOMAIN tokens THEN tokens[s]
                    ELSE [user |-> req[w].user, revoked |-> FALSE,
                          late |-> FALSE]]
    /\ access' = access \cup {req[w].user}
    /\ used' = <<used[1], used[2] \cup {t}>>
    /\ Reply(w)
    /\ UNCHANGED <<users, ended>>

MintConflict(w) ==
    /\ req[w].pc = "mint"
    /\ ~UserKey(req[w].user)
    /\ Reply(w)
    /\ UNCHANGED <<users, tokens, access, used, ended>>

-----------------------------------------------------------------------------
(* POST /login2 with a refresh token: the token row, then the account; a   *)
(* new access token and no write.                                          *)

Bug_Usable(t) == t \in DOMAIN tokens /\ ~tokens[t].late

Usable(t) == t \in DOMAIN tokens /\ ~tokens[t].revoked /\ ~tokens[t].late

RefreshRead(w, t) ==
    /\ Usable(t)
    /\ Begin(w, [pc |-> "refresh", user |-> tokens[t].user,
                 after |-> t \in ended])
    /\ UNCHANGED <<users, tokens, access, used, ended>>

Bug_RefreshMint(w) ==
    /\ req[w].pc = "refresh"
    /\ access' = access \cup {req[w].user}
    /\ Reply(w)
    /\ UNCHANGED <<users, tokens, used, ended>>

RefreshMint(w) ==
    /\ req[w].pc = "refresh"
    /\ Confirmed(req[w].user)
    /\ access' = access \cup {req[w].user}
    /\ Reply(w)
    /\ UNCHANGED <<users, tokens, used, ended>>

RefreshRefused(w) ==
    /\ req[w].pc = "refresh"
    /\ ~Confirmed(req[w].user)
    /\ Reply(w)
    /\ UNCHANGED <<users, tokens, access, used, ended>>

-----------------------------------------------------------------------------
(* POST /logout2: every unrevoked token of the caller.                     *)

TokensOf(i) == {t \in DOMAIN tokens : tokens[t].user = i}

LogoutBegin(w, i) ==
    /\ get_current_user(i)
    /\ Begin(w, [pc |-> "logout", user |-> i, held |-> TokensOf(i)])
    /\ UNCHANGED <<users, tokens, access, used, ended>>

LogoutRead(w) ==
    /\ req[w].pc = "logout"
    /\ req' = [req EXCEPT ![w] =
                 [pc |-> "revoke", user |-> req[w].user,
                  held |-> req[w].held,
                  rows |-> {t \in TokensOf(req[w].user) :
                              ~tokens[t].revoked}]]
    /\ UNCHANGED <<users, tokens, access, used, ended>>

LogoutCommit(w) ==
    /\ req[w].pc = "revoke"
    /\ req[w].rows \subseteq DOMAIN tokens
    /\ tokens' = [t \in DOMAIN tokens |->
                    IF t \in req[w].rows
                    THEN [tokens[t] EXCEPT !.revoked = TRUE]
                    ELSE tokens[t]]
    /\ ended' = ended \cup req[w].held
    /\ Reply(w)
    /\ UNCHANGED <<users, access, used>>

\* A row went with its account: the UPDATE counts too few rows and fails.
LogoutStale(w) ==
    /\ req[w].pc = "revoke"
    /\ ~(req[w].rows \subseteq DOMAIN tokens)
    /\ Reply(w)
    /\ UNCHANGED <<users, tokens, access, used, ended>>

-----------------------------------------------------------------------------
(* PUT /password2 and PUT /forgotpassword2.  Neither touches the tokens.   *)

ChangeRead(w, i, p, new) ==
    /\ get_current_user(i)
    /\ users[i].password = p
    /\ Begin(w, [pc |-> "change", user |-> i, new |-> new])
    /\ UNCHANGED <<users, tokens, access, used, ended>>

ChangeCommit(w) ==
    /\ req[w].pc = "change"
    /\ req[w].user \in DOMAIN users
    /\ users' = [users EXCEPT ![req[w].user].password = req[w].new]
    /\ Reply(w)
    /\ UNCHANGED <<tokens, access, used, ended>>

ForgotRead(w, i, n) ==
    /\ Found(i, n)
    /\ Begin(w, [pc |-> "forgot", user |-> i, was |-> users[i].reset])
    /\ UNCHANGED <<users, tokens, access, used, ended>>

\* The column is written only if the code drawn differs from the one read.
ForgotCommit(w, c) ==
    /\ req[w].pc = "forgot"
    /\ req[w].user \in DOMAIN users
    /\ users' = [users EXCEPT
                   ![req[w].user].reset = IF c = req[w].was THEN @ ELSE c,
                   ![req[w].user].resetLate = FALSE,
                   ![req[w].user].resetBy = {}]
    /\ Reply(w)
    /\ UNCHANGED <<tokens, access, used, ended>>

ResetRead(w, i, n, c, new) ==
    /\ Found(i, n)
    /\ users[i].reset = c
    /\ ~users[i].resetLate
    /\ Begin(w, [pc |-> "reset", user |-> i, new |-> new])
    /\ UNCHANGED <<users, tokens, access, used, ended>>

Bug_ResetCommit(w) ==
    /\ req[w].pc = "reset"
    /\ req[w].user \in DOMAIN users
    /\ users' = [users EXCEPT ![req[w].user].password = req[w].new,
                              ![req[w].user].resetBy = @ \cup {w}]
    /\ Reply(w)
    /\ UNCHANGED <<tokens, access, used, ended>>

ResetCommit(w) ==
    /\ req[w].pc = "reset"
    /\ req[w].user \in DOMAIN users
    /\ users' = [users EXCEPT ![req[w].user].password = req[w].new,
                              ![req[w].user].reset = NoCode,
                              ![req[w].user].resetLate = FALSE,
                              ![req[w].user].resetBy = @ \cup {w}]
    /\ Reply(w)
    /\ UNCHANGED <<tokens, access, used, ended>>

-----------------------------------------------------------------------------
(* DELETE /user2.  A row already gone is no error here.                    *)

DeleteRead(w, i) ==
    /\ get_current_user(i)
    /\ Begin(w, [pc |-> "delete", user |-> i])
    /\ UNCHANGED <<users, tokens, access, used, ended>>

\* The foreign key of refresh_tokens cascades.
DeleteCommit(w) ==
    /\ req[w].pc = "delete"
    /\ users' = [i \in DOMAIN users \ {req[w].user} |-> users[i]]
    /\ tokens' = [t \in DOMAIN tokens \ TokensOf(req[w].user) |-> tokens[t]]
    /\ Reply(w)
    /\ UNCHANGED <<access, used, ended>>

-----------------------------------------------------------------------------
(* Time and failure.                                                       *)

ElapseConfirm(i) ==
    /\ i \in DOMAIN users
    /\ users[i].confirm # NoCode
    /\ users' = [users EXCEPT ![i].confirmLate = TRUE]
    /\ UNCHANGED <<tokens, access, req, used, ended>>

ElapseReset(i) ==
    /\ i \in DOMAIN users
    /\ users[i].reset # NoCode
    /\ users' = [users EXCEPT ![i].resetLate = TRUE]
    /\ UNCHANGED <<tokens, access, req, used, ended>>

ElapseToken(t) ==
    /\ t \in DOMAIN tokens
    /\ tokens' = [tokens EXCEPT ![t].late = TRUE]
    /\ UNCHANGED <<users, access, req, used, ended>>

\* The last of the account's access tokens runs out.
ElapseAccess(i) ==
    /\ access' = access \ {i}
    /\ UNCHANGED <<users, tokens, req, used, ended>>

Abort(w) ==
    /\ req[w].pc # "idle"
    /\ Reply(w)
    /\ UNCHANGED <<users, tokens, access, used, ended>>

-----------------------------------------------------------------------------

Commit(w) ==
    \/ \E i \in Ids, c \in Codes : SignupCommit(w, i, c)
    \/ SignupConflict(w) \/ UpdateStale(w) \/ ConfirmCommit(w)
    \/ LoginCommit(w) \/ (\E t \in Tokens : MintCommit(w, t))
    \/ MintConflict(w) \/ RefreshMint(w) \/ RefreshRefused(w)
    \/ LogoutRead(w) \/ LogoutCommit(w) \/ LogoutStale(w)
    \/ ChangeCommit(w) \/ (\E c \in Codes : ForgotCommit(w, c))
    \/ ResetCommit(w) \/ DeleteCommit(w)

Start(w) ==
    \/ \E n \in Names, p \in Passwords : SignupRead(w, n, p)
    \/ \E t \in Tokens : RefreshRead(w, t)
    \/ \E i \in Ids :
          \/ LogoutBegin(w, i)
          \/ DeleteRead(w, i)
          \/ \E p, q \in Passwords : ChangeRead(w, i, p, q)
          \/ \E n \in Names :
                \/ ForgotRead(w, i, n)
                \/ \E p \in Passwords : LoginRead(w, i, n, p)
                \/ \E c \in Codes : ConfirmRead(w, i, n, c)
                \/ \E c \in Codes, p \in Passwords : ResetRead(w, i, n, c, p)

Next ==
    \/ \E w \in Workers : Start(w) \/ Commit(w) \/ Abort(w)
    \/ \E i \in Ids : ElapseConfirm(i) \/ ElapseReset(i) \/ ElapseAccess(i)
    \/ \E t \in Tokens : ElapseToken(t)

Spec == Init /\ [][Next]_vars

-----------------------------------------------------------------------------
(* Properties.                                                             *)

\* No two accounts have one name, although two sign-ups may both have found
\* it free before either commits (signup, auth.py).
UniqueNames ==
    \A i, j \in DOMAIN users : users[i].name = users[j].name => i = j

\* A refresh token belongs to an account that exists and is confirmed, also
\* when the account is deleted between the two commits of a login
\* (login_password and _mint_token_triple, auth.py).
TokensOfMembers ==
    \A t \in DOMAIN tokens : Confirmed(tokens[t].user)

\* Once a logout has been answered, every token that existed when it arrived
\* is revoked or gone, and no refresh that arrives later is served on one of
\* them (logout and login_refresh, auth.py).
LogoutEndsSessions ==
    /\ \A t \in ended \cap DOMAIN tokens : tokens[t].revoked
    /\ \A w \in Workers : req[w].pc = "refresh" => ~req[w].after

\* No worker is resetting a password with a code that it has used already: a
\* code opens one reset, unless two requests overlap
\* (confirm_password_reset, auth.py).
ResetOnce ==
    \A w \in Workers :
        (req[w].pc = "reset" /\ req[w].user \in DOMAIN users)
            => w \notin users[req[w].user].resetBy

Confirming(i) ==
    {w \in Workers : req[w].pc = "confirm" /\ req[w].user = i}

\* An account whose code ran out with no confirmation under way is never
\* confirmed, and so never logged in to (confirm_signup, auth.py).
LateStaysUnconfirmed ==
    [][\A i \in DOMAIN users \cap DOMAIN users' :
         (users[i].confirmLate /\ Confirming(i) = {})
             => /\ users'[i].status = users[i].status
                /\ users'[i].confirmLate
                /\ Confirming(i)' = {}]_vars

-----------------------------------------------------------------------------
(* What the requests do together is what Sessions allows.                  *)

Standing ==
    [i \in Ids |-> IF i \in DOMAIN users THEN users[i].status
                   ELSE IF i \in used[1] THEN "gone" ELSE "new"]

OpenSessions == {<<t, tokens[t].user>> : t \in {s \in DOMAIN tokens : Usable(s)}}

Abstract == INSTANCE Sessions WITH standing <- Standing, open <- OpenSessions,
                                   drawn <- used[2]

\* Accounts implement Sessions: whatever requests overlap, sessions and access
\* tokens are for confirmed accounts, end for good, and end by their own
\* account's requests or with it.
ImplementsSessions == Abstract!SessionsSpec
=============================================================================
