--------------------------- MODULE AccountsProofs ---------------------------
(***************************************************************************)
(* Theorems about Accounts, for any names, passwords, codes, ids, tokens   *)
(* and workers.                                                            *)
(***************************************************************************)
EXTENDS Accounts, TLAPS

\* A key in a table or carried by a request has been drawn, so no row that
\* is inserted later gets it.
KeysDrawn ==
    /\ DOMAIN users \subseteq used[1]
    /\ DOMAIN tokens \subseteq used[2]
    /\ ended \subseteq used[2]

\* A reset code that is still there has not been used.
CodeUnused ==
    \A i \in DOMAIN users : users[i].reset # NoCode => users[i].resetBy = {}

\* What a request carries: a login or a deletion goes on for a confirmed
\* account or one that is gone; a logout lists tokens of its caller and has every token of the caller that was there when
\* it arrived, if it still is, on its list or revoked.
UserDrawn(w) ==
    req[w].pc \notin {"idle", "signup"} => req[w].user \in used[1]

LoginInv(w) ==
    req[w].pc \in {"login", "mint", "delete"} /\ req[w].user \in DOMAIN users
        => users[req[w].user].status = "confirmed"

LogoutInv(w) ==
    /\ req[w].pc \in {"logout", "revoke"} => req[w].held \subseteq used[2]
    /\ req[w].pc = "logout" =>
          \A t \in req[w].held \cap DOMAIN tokens : tokens[t].user = req[w].user
    /\ req[w].pc = "revoke" =>
          \A t \in req[w].held \cap DOMAIN tokens :
              t \in req[w].rows \/ tokens[t].revoked
    /\ req[w].pc = "revoke" =>
          /\ req[w].rows \subseteq used[2]
          /\ \A t \in req[w].rows \cap DOMAIN tokens : tokens[t].user = req[w].user

RequestInv == \A w \in Workers : UserDrawn(w) /\ LoginInv(w) /\ LogoutInv(w)

Inv == /\ TypeOK /\ UniqueNames /\ TokensOfMembers /\ LogoutEndsSessions /\ ResetOnce
       /\ KeysDrawn /\ CodeUnused /\ RequestInv

-----------------------------------------------------------------------------
(* The steps by what they do to the tables.                                *)

SameTables == UNCHANGED <<users, tokens, access, used, ended>>

\* The steps that write the tables; all others leave them alone.
LEMMA StepKinds ==
  ASSUME [Next]_vars
  PROVE \/ SameTables
        \/ \E w \in Workers, i \in Ids, c \in Codes : SignupCommit(w, i, c)
        \/ \E w \in Workers : ConfirmCommit(w)
        \/ \E w \in Workers, t \in Tokens : MintCommit(w, t)
        \/ \E w \in Workers : RefreshMint(w)
        \/ \E w \in Workers : LogoutCommit(w)
        \/ \E w \in Workers : ChangeCommit(w)
        \/ \E w \in Workers, c \in Codes : ForgotCommit(w, c)
        \/ \E w \in Workers : ResetCommit(w)
        \/ \E w \in Workers : DeleteCommit(w)
        \/ \E i \in Ids : ElapseConfirm(i)
        \/ \E i \in Ids : ElapseReset(i)
        \/ \E i \in Ids : ElapseAccess(i)
        \/ \E t \in Tokens : ElapseToken(t)
<1>1. ASSUME NEW w \in Workers, Start(w) PROVE SameTables
    BY <1>1 DEF Start, SignupRead, RefreshRead, LogoutBegin, DeleteRead, ChangeRead,
                ForgotRead, LoginRead, ConfirmRead, ResetRead, SameTables
<1> QED BY <1>1 DEF Next, Commit, vars, SameTables, SignupConflict, UpdateStale,
                    LoginCommit, MintConflict, RefreshRefused, LogoutRead, LogoutStale,
                    Abort

\* What a request becomes: it stays, ends, begins, or goes on.
Begins(w) ==
    \/ \E n \in Names, p \in Passwords : SignupRead(w, n, p)
    \/ \E t \in Tokens : RefreshRead(w, t)
    \/ \E i \in Ids : LogoutBegin(w, i)
    \/ \E i \in Ids : DeleteRead(w, i)
    \/ \E i \in Ids, p, q \in Passwords : ChangeRead(w, i, p, q)
    \/ \E i \in Ids, n \in Names : ForgotRead(w, i, n)
    \/ \E i \in Ids, n \in Names, p \in Passwords : LoginRead(w, i, n, p)
    \/ \E i \in Ids, n \in Names, c \in Codes : ConfirmRead(w, i, n, c)
    \/ \E i \in Ids, n \in Names, c \in Codes, p \in Passwords : ResetRead(w, i, n, c, p)

\* Every step moves at most one request, in one of those ways.
LEMMA RequestKinds ==
  ASSUME [Next]_vars
  PROVE \/ UNCHANGED req
        \/ \E w \in Workers : Reply(w)
        \/ \E w \in Workers : Begins(w)
        \/ \E w \in Workers : LoginCommit(w)
        \/ \E w \in Workers : LogoutRead(w)
<1>1. ASSUME NEW w \in Workers, Start(w) PROVE Begins(w)
    BY <1>1 DEF Start, Begins
<1> QED BY <1>1 DEF Next, Commit, vars, SignupCommit, SignupConflict, UpdateStale,
          ConfirmCommit, MintCommit, MintConflict, RefreshMint, RefreshRefused,
          LogoutCommit, LogoutStale, ChangeCommit, ForgotCommit, ResetCommit,
          DeleteCommit, Abort, ElapseConfirm, ElapseReset, ElapseAccess, ElapseToken

\* A request that begins finds its worker idle, and changes nothing else.
LEMMA BeginsOne ==
  ASSUME NEW w \in Workers, Begins(w)
  PROVE SameTables /\ \E r : Begin(w, r)
BY DEF Begins, SignupRead, RefreshRead, LogoutBegin, DeleteRead, ChangeRead, ForgotRead,
       LoginRead, ConfirmRead, ResetRead, SameTables

\* The same seen from one worker.
LEMMA StepMoves ==
  ASSUME TypeOK, [Next]_vars, NEW w \in Workers
  PROVE \/ req'[w] = req[w]
        \/ req'[w] = Idle
        \/ Begins(w)
        \/ LoginCommit(w)
        \/ LogoutRead(w)
<1>1. ASSUME NEW x \in Workers, x # w, \E r : req' = [req EXCEPT ![x] = r]
      PROVE req'[w] = req[w]
    BY <1>1 DEF TypeOK
<1>2. ASSUME NEW x \in Workers, Reply(x) PROVE req'[w] = req[w] \/ req'[w] = Idle
    BY <1>2 DEF Reply, TypeOK
<1>3. ASSUME NEW x \in Workers, Begins(x) PROVE Begins(w) \/ req'[w] = req[w]
    BY <1>1, <1>3, BeginsOne DEF Begin
<1>4. ASSUME NEW x \in Workers, LoginCommit(x) PROVE LoginCommit(w) \/ req'[w] = req[w]
    BY <1>1, <1>4 DEF LoginCommit
<1>5. ASSUME NEW x \in Workers, LogoutRead(x) PROVE LogoutRead(w) \/ req'[w] = req[w]
    BY <1>1, <1>5 DEF LogoutRead
<1> QED BY <1>2, <1>3, <1>4, <1>5, RequestKinds

-----------------------------------------------------------------------------
(* Types.                                                                  *)

\* The empty tables satisfy the invariant.
LEMMA InitInv == Init => Inv
<1> SUFFICES ASSUME Init PROVE Inv
    OBVIOUS
<1> USE DEF Init
<1>1. TypeOK
    BY DEF TypeOK, Request
<1>2. UniqueNames /\ TokensOfMembers /\ KeysDrawn /\ CodeUnused
    BY DEF UniqueNames, TokensOfMembers, KeysDrawn, CodeUnused
<1>3. LogoutEndsSessions /\ ResetOnce /\ RequestInv
    BY DEF LogoutEndsSessions, ResetOnce, RequestInv, UserDrawn, LoginInv, LogoutInv, Idle
<1> QED BY <1>1, <1>2, <1>3 DEF Inv

\* The types of what a request carries, by what it is doing.
LEMMA CarriedTypes ==
  ASSUME TypeOK, NEW w \in Workers
  PROVE /\ req[w].pc = "signup" => req[w].name \in Names /\ req[w].password \in Passwords
        /\ req[w].pc \notin {"idle", "signup"} => req[w].user \in Ids
        /\ req[w].pc \in {"change", "reset"} => req[w].new \in Passwords
        /\ req[w].pc \in {"logout", "revoke"} => req[w].held \subseteq Tokens
        /\ req[w].pc = "revoke" => req[w].rows \subseteq Tokens
        /\ req[w].pc \in {"idle", "signup", "confirm", "login", "mint", "delete", "change",
                          "reset", "forgot", "refresh", "logout", "revoke"}
<1>1. req[w] \in Request
    BY DEF TypeOK
<1> QED BY <1>1 DEF Request, Idle

\* An UPDATE of one row leaves well-typed accounts.
LEMMA UserRowTypes ==
  ASSUME TypeOK, [Next]_vars
  PROVE DOMAIN users' \subseteq Ids /\ users' \in [DOMAIN users' -> User]
<1> DEFINE Goal == DOMAIN users' \subseteq Ids /\ users' \in [DOMAIN users' -> User]
<1> USE DEF TypeOK
<1>1. CASE UNCHANGED users
    BY <1>1
<1>2. ASSUME NEW w \in Workers, NEW i \in Ids, NEW c \in Codes, SignupCommit(w, i, c)
      PROVE Goal
  <2>1. req[w].name \in Names /\ req[w].password \in Passwords
      BY <1>2, CarriedTypes DEF SignupCommit
  <2>2. [name |-> req[w].name, password |-> req[w].password, status |-> "unconfirmed",
         confirm |-> c, confirmLate |-> FALSE, reset |-> NoCode, resetLate |-> FALSE,
         resetBy |-> {}] \in User
      BY <2>1 DEF User
  <2> QED BY <1>2, <2>2 DEF SignupCommit
<1>3. ASSUME NEW w \in Workers, ConfirmCommit(w) PROVE Goal
  <2>1. users' \in [DOMAIN users -> User]
      BY <1>3 DEF ConfirmCommit, User
  <2> QED BY <1>3, <2>1 DEF ConfirmCommit
<1>4. ASSUME NEW w \in Workers, ChangeCommit(w) PROVE Goal
  <2>1. req[w].new \in Passwords
      BY <1>4, CarriedTypes DEF ChangeCommit
  <2>2. users' \in [DOMAIN users -> User]
      BY <1>4, <2>1 DEF ChangeCommit, User
  <2> QED BY <1>4, <2>2 DEF ChangeCommit
<1>5. ASSUME NEW w \in Workers, NEW c \in Codes, ForgotCommit(w, c) PROVE Goal
  <2> DEFINE u == req[w].user
             code == IF c = req[w].was THEN users[u].reset ELSE c
  <2>1. /\ u \in DOMAIN users
        /\ users' = [users EXCEPT ![u].reset = code, ![u].resetLate = FALSE,
                                  ![u].resetBy = {}]
      BY <1>5 DEF ForgotCommit
  <2>2. code \in Codes \cup {NoCode}
      BY <2>1 DEF User
  <2> HIDE DEF u, code
  <2>3. users' \in [DOMAIN users -> User]
      BY <2>1, <2>2 DEF User
  <2> QED BY <2>1, <2>3
<1>6. ASSUME NEW w \in Workers, ResetCommit(w) PROVE Goal
  <2>1. req[w].new \in Passwords
      BY <1>6, CarriedTypes DEF ResetCommit
  <2>2. users' \in [DOMAIN users -> User]
      BY <1>6, <2>1 DEF ResetCommit, User
  <2> QED BY <1>6, <2>2 DEF ResetCommit
<1>7. ASSUME NEW w \in Workers, DeleteCommit(w) PROVE Goal
    BY <1>7 DEF DeleteCommit
<1>8. ASSUME NEW i \in Ids, ElapseConfirm(i) PROVE Goal
  <2>1. i \in DOMAIN users /\ users' = [users EXCEPT ![i] = [users[i] EXCEPT !.confirmLate = TRUE]]
      BY <1>8 DEF ElapseConfirm
  <2>2. users[i] \in User
      BY <2>1
  <2>3. \A r \in User : [r EXCEPT !.confirmLate = TRUE] \in User
      BY DEF User
  <2> QED BY <2>1, <2>2, <2>3
<1>9. ASSUME NEW i \in Ids, ElapseReset(i) PROVE Goal
  <2>1. i \in DOMAIN users /\ users' = [users EXCEPT ![i] = [users[i] EXCEPT !.resetLate = TRUE]]
      BY <1>9 DEF ElapseReset
  <2>2. users[i] \in User
      BY <2>1
  <2>3. \A r \in User : [r EXCEPT !.resetLate = TRUE] \in User
      BY DEF User
  <2> QED BY <2>1, <2>2, <2>3
<1> QED BY <1>1, <1>2, <1>3, <1>4, <1>5, <1>6, <1>7, <1>8, <1>9, StepKinds
        DEF SameTables, MintCommit, RefreshMint, LogoutCommit, ElapseAccess, ElapseToken

\* Every step leaves well-typed tokens and histories.
LEMMA TokenTypes ==
  ASSUME TypeOK, [Next]_vars
  PROVE /\ DOMAIN tokens' \subseteq Tokens
        /\ tokens' \in [DOMAIN tokens' -> RefreshToken]
        /\ access' \subseteq Ids
        /\ used' \in (SUBSET Ids) \X (SUBSET Tokens)
        /\ ended' \subseteq Tokens
<1> DEFINE Goal == /\ DOMAIN tokens' \subseteq Tokens
                   /\ tokens' \in [DOMAIN tokens' -> RefreshToken]
                   /\ access' \subseteq Ids
                   /\ used' \in (SUBSET Ids) \X (SUBSET Tokens)
                   /\ ended' \subseteq Tokens
<1> USE DEF TypeOK
<1>1. CASE UNCHANGED <<tokens, access, used, ended>>
    BY <1>1
<1>2. ASSUME NEW w \in Workers, NEW i \in Ids, NEW c \in Codes, SignupCommit(w, i, c)
      PROVE Goal
    BY <1>2 DEF SignupCommit
<1>3. ASSUME NEW w \in Workers, NEW t \in Tokens, MintCommit(w, t) PROVE Goal
  <2>1. req[w].user \in Ids
      BY <1>3, CarriedTypes DEF MintCommit
  <2>2. [user |-> req[w].user, revoked |-> FALSE, late |-> FALSE] \in RefreshToken
      BY <2>1 DEF RefreshToken
  <2> QED BY <1>3, <2>1, <2>2 DEF MintCommit
<1>4. ASSUME NEW w \in Workers, RefreshMint(w) PROVE Goal
    BY <1>4, CarriedTypes DEF RefreshMint
<1>5. ASSUME NEW w \in Workers, LogoutCommit(w) PROVE Goal
  <2>1. req[w].held \subseteq Tokens
      BY <1>5, CarriedTypes DEF LogoutCommit
  <2>2. \A t \in DOMAIN tokens : [tokens[t] EXCEPT !.revoked = TRUE] \in RefreshToken
      BY DEF RefreshToken
  <2> QED BY <1>5, <2>1, <2>2 DEF LogoutCommit
<1>6. ASSUME NEW w \in Workers, DeleteCommit(w) PROVE Goal
    BY <1>6 DEF DeleteCommit
<1>7. ASSUME NEW i \in Ids, ElapseAccess(i) PROVE Goal
    BY <1>7 DEF ElapseAccess
<1>8. ASSUME NEW t \in Tokens, ElapseToken(t) PROVE Goal
  <2>1. tokens' \in [DOMAIN tokens -> RefreshToken]
      BY <1>8 DEF ElapseToken, RefreshToken
  <2> QED BY <1>8, <2>1 DEF ElapseToken
<1> QED BY <1>1, <1>2, <1>3, <1>4, <1>5, <1>6, <1>7, <1>8, StepKinds
        DEF SameTables, ConfirmCommit, ChangeCommit, ForgotCommit, ResetCommit,
            ElapseConfirm, ElapseReset

\* Every step leaves every worker with a well-typed request.
LEMMA RequestTypes ==
  ASSUME TypeOK, [Next]_vars
  PROVE req' \in [Workers -> Request]
<1> SUFFICES ASSUME NEW w \in Workers PROVE req'[w] \in Request
  <2>1. DOMAIN req' = Workers
      BY RequestKinds, BeginsOne DEF TypeOK, Reply, Begin, LoginCommit, LogoutRead
  <2>2. req' = [w \in DOMAIN req' |-> req'[w]]
      BY RequestKinds, BeginsOne DEF TypeOK, Reply, Begin, LoginCommit, LogoutRead
  <2> QED BY <2>1, <2>2
<1> USE DEF TypeOK
<1>1. CASE req'[w] = req[w] \/ req'[w] = Idle
    BY <1>1 DEF Request
<1>2. CASE LoginCommit(w)
  <2>1. req[w] \in [pc : {"confirm", "login", "mint", "delete"}, user : Ids]
      BY <1>2 DEF LoginCommit, Request, Idle
  <2> QED BY <1>2, <2>1 DEF LoginCommit, Request
<1>3. CASE LogoutRead(w)
  <2>1. req[w].user \in Ids /\ req[w].held \subseteq Tokens
      BY <1>3, CarriedTypes DEF LogoutRead
  <2>2. {t \in TokensOf(req[w].user) : ~tokens[t].revoked} \subseteq Tokens
      BY DEF TokensOf
  <2> QED BY <1>3, <2>1, <2>2 DEF LogoutRead, Request
<1>4. CASE Begins(w)
  <2>1. ASSUME NEW n \in Names, NEW p \in Passwords, SignupRead(w, n, p)
        PROVE req'[w] \in Request
      BY <2>1 DEF SignupRead, Begin, Request
  <2>2. ASSUME NEW t \in Tokens, RefreshRead(w, t) PROVE req'[w] \in Request
    <3>1. tokens[t].user \in Ids /\ (t \in ended) \in BOOLEAN
        BY <2>2 DEF RefreshRead, Usable, RefreshToken
    <3> DEFINE late == t \in ended
    <3> HIDE DEF late
    <3>2. [pc |-> "refresh", user |-> tokens[t].user, after |-> late] \in Request
        BY <3>1 DEF Request, late
    <3>3. req' = [req EXCEPT ![w] = [pc |-> "refresh", user |-> tokens[t].user,
                                     after |-> late]]
        BY <2>2 DEF RefreshRead, Begin, late
    <3> QED BY <3>2, <3>3
  <2>3. ASSUME NEW i \in Ids, LogoutBegin(w, i) PROVE req'[w] \in Request
    <3>1. TokensOf(i) \subseteq Tokens
        BY DEF TokensOf
    <3> QED BY <2>3, <3>1 DEF LogoutBegin, Begin, Request
  <2>4. ASSUME NEW i \in Ids, DeleteRead(w, i) PROVE req'[w] \in Request
      BY <2>4 DEF DeleteRead, Begin, Request
  <2>5. ASSUME NEW i \in Ids, NEW p \in Passwords, NEW q \in Passwords,
               ChangeRead(w, i, p, q)
        PROVE req'[w] \in Request
      BY <2>5 DEF ChangeRead, Begin, Request
  <2>6. ASSUME NEW i \in Ids, NEW n \in Names, ForgotRead(w, i, n)
        PROVE req'[w] \in Request
    <3>1. users[i].reset \in Codes \cup {NoCode}
        BY <2>6 DEF ForgotRead, Found, User
    <3> QED BY <2>6, <3>1 DEF ForgotRead, Begin, Request
  <2>7. ASSUME NEW i \in Ids, NEW n \in Names, NEW p \in Passwords, LoginRead(w, i, n, p)
        PROVE req'[w] \in Request
      BY <2>7 DEF LoginRead, Begin, Request
  <2>8. ASSUME NEW i \in Ids, NEW n \in Names, NEW c \in Codes, ConfirmRead(w, i, n, c)
        PROVE req'[w] \in Request
      BY <2>8 DEF ConfirmRead, Begin, Request
  <2>9. ASSUME NEW i \in Ids, NEW n \in Names, NEW c \in Codes, NEW p \in Passwords,
               ResetRead(w, i, n, c, p)
        PROVE req'[w] \in Request
      BY <2>9 DEF ResetRead, Begin, Request
  <2> QED BY <1>4, <2>1, <2>2, <2>3, <2>4, <2>5, <2>6, <2>7, <2>8, <2>9 DEF Begins
<1> QED BY <1>1, <1>2, <1>3, <1>4, StepMoves

-----------------------------------------------------------------------------
(* What a step may do to a row.                                            *)

\* An account keeps its name, stays confirmed, and its reset history goes on
\* with the code it belongs to.
KeptUser(i) ==
    /\ users'[i].name = users[i].name
    /\ users[i].status = "confirmed" => users'[i].status = "confirmed"
    /\ \/ users'[i].reset = users[i].reset /\ users'[i].resetBy = users[i].resetBy
       \/ users'[i].resetBy = {}
       \/ /\ users'[i].reset = NoCode
          /\ \E x \in Workers : /\ req[x].pc = "reset" /\ Reply(x)
                                /\ users'[i].resetBy = users[i].resetBy \cup {x}

\* What KeptUser says holds of every step that leaves the account there.
LEMMA UserStep ==
  ASSUME TypeOK, [Next]_vars, NEW i \in DOMAIN users, i \in DOMAIN users'
  PROVE KeptUser(i)
<1> USE DEF TypeOK
<1>0. users[i] \in User
    OBVIOUS
<1>1. CASE users'[i] = users[i]
    BY <1>1 DEF KeptUser
<1>2. ASSUME NEW w \in Workers, NEW j \in Ids, NEW c \in Codes, SignupCommit(w, j, c)
      PROVE users'[i] = users[i]
    BY <1>2 DEF SignupCommit
<1>3. ASSUME NEW w \in Workers, ConfirmCommit(w) PROVE KeptUser(i)
    BY <1>0, <1>3 DEF ConfirmCommit, KeptUser, User
<1>4. ASSUME NEW w \in Workers, ChangeCommit(w) PROVE KeptUser(i)
    BY <1>0, <1>4 DEF ChangeCommit, KeptUser, User
<1>5. ASSUME NEW w \in Workers, NEW c \in Codes, ForgotCommit(w, c) PROVE KeptUser(i)
  <2> DEFINE code == IF c = req[w].was THEN users[req[w].user].reset ELSE c
  <2>1. /\ req[w].user \in DOMAIN users
        /\ users' = [users EXCEPT ![req[w].user].reset = code,
                                  ![req[w].user].resetLate = FALSE,
                                  ![req[w].user].resetBy = {}]
      BY <1>5 DEF ForgotCommit
  <2> HIDE DEF code
  <2>2. CASE i # req[w].user
      BY <1>1, <2>1, <2>2
  <2>3. CASE i = req[w].user
      BY <1>0, <2>1, <2>3 DEF KeptUser, User
  <2> QED BY <2>2, <2>3
<1>6. ASSUME NEW w \in Workers, ResetCommit(w) PROVE KeptUser(i)
  <2>1. CASE i # req[w].user
      BY <1>1, <1>6, <2>1 DEF ResetCommit
  <2>2. CASE i = req[w].user
    <3>1. /\ users'[i].name = users[i].name /\ users'[i].status = users[i].status
          /\ users'[i].reset = NoCode
          /\ users'[i].resetBy = users[i].resetBy \cup {w}
        BY <1>0, <1>6, <2>2 DEF ResetCommit, User
    <3>2. req[w].pc = "reset" /\ Reply(w)
        BY <1>6 DEF ResetCommit
    <3> QED BY <3>1, <3>2 DEF KeptUser
  <2> QED BY <2>1, <2>2
<1>7. ASSUME NEW w \in Workers, DeleteCommit(w) PROVE users'[i] = users[i]
    BY <1>7 DEF DeleteCommit
<1>8. ASSUME NEW j \in Ids, ElapseConfirm(j) PROVE KeptUser(i)
    BY <1>0, <1>8 DEF ElapseConfirm, KeptUser, User
<1>9. ASSUME NEW j \in Ids, ElapseReset(j) PROVE KeptUser(i)
    BY <1>0, <1>9 DEF ElapseReset, KeptUser, User
<1> QED BY <1>1, <1>2, <1>3, <1>4, <1>5, <1>6, <1>7, <1>8, <1>9, StepKinds
        DEF SameTables, MintCommit, RefreshMint, LogoutCommit, ElapseAccess, ElapseToken

\* A new account has a key nobody has had, a name nobody has, and no code.
LEMMA NewUser ==
  ASSUME TypeOK, [Next]_vars, NEW i \in DOMAIN users', i \notin DOMAIN users
  PROVE /\ i \notin used[1]
        /\ users'[i].reset = NoCode
        /\ NameFree(users'[i].name)
        /\ DOMAIN users' = DOMAIN users \cup {i}
        /\ UNCHANGED tokens
<1>1. ASSUME NEW w \in Workers, NEW j \in Ids, NEW c \in Codes, SignupCommit(w, j, c)
      PROVE /\ i \notin used[1]
            /\ users'[i].reset = NoCode
            /\ NameFree(users'[i].name)
            /\ DOMAIN users' = DOMAIN users \cup {i}
            /\ UNCHANGED tokens
    BY <1>1 DEF SignupCommit
<1>2. CASE DOMAIN users' \subseteq DOMAIN users
    BY <1>2
<1> QED BY <1>1, <1>2, StepKinds
        DEF SameTables, ConfirmCommit, MintCommit, RefreshMint, LogoutCommit, ChangeCommit,
            ForgotCommit, ResetCommit, DeleteCommit, ElapseConfirm, ElapseReset,
            ElapseAccess, ElapseToken

\* A token keeps its account, and one that is revoked stays so.
LEMMA TokenStep ==
  ASSUME TypeOK, [Next]_vars, NEW t \in DOMAIN tokens, t \in DOMAIN tokens'
  PROVE /\ tokens'[t].user = tokens[t].user
        /\ tokens[t].revoked => tokens'[t].revoked
<1> DEFINE Goal == /\ tokens'[t].user = tokens[t].user
                   /\ tokens[t].revoked => tokens'[t].revoked
<1> USE DEF TypeOK
<1>0. tokens[t] \in RefreshToken
    OBVIOUS
<1>1. CASE tokens'[t] = tokens[t]
    BY <1>1
<1>2. ASSUME NEW w \in Workers, NEW s \in Tokens, MintCommit(w, s)
      PROVE tokens'[t] = tokens[t]
    BY <1>2 DEF MintCommit
<1>3. ASSUME NEW w \in Workers, LogoutCommit(w) PROVE Goal
    BY <1>0, <1>3 DEF LogoutCommit, RefreshToken
<1>4. ASSUME NEW w \in Workers, DeleteCommit(w) PROVE tokens'[t] = tokens[t]
    BY <1>4 DEF DeleteCommit
<1>5. ASSUME NEW s \in Tokens, ElapseToken(s) PROVE Goal
    BY <1>0, <1>5 DEF ElapseToken, RefreshToken
<1> QED BY <1>1, <1>2, <1>3, <1>4, <1>5, StepKinds
        DEF SameTables, SignupCommit, ConfirmCommit, RefreshMint, ChangeCommit,
            ForgotCommit, ResetCommit, ElapseConfirm, ElapseReset, ElapseAccess

\* A new token has a jti nobody has had and comes from the second commit of a
\* login.
LEMMA NewToken ==
  ASSUME TypeOK, [Next]_vars, NEW t \in DOMAIN tokens', t \notin DOMAIN tokens
  PROVE /\ t \notin used[2]
        /\ UNCHANGED <<users, ended>>
        /\ \E w \in Workers : /\ req[w].pc = "mint"
                              /\ req[w].user \in DOMAIN users
                              /\ tokens'[t].user = req[w].user
<1>1. ASSUME NEW w \in Workers, NEW s \in Tokens, MintCommit(w, s)
      PROVE /\ t \notin used[2]
            /\ UNCHANGED <<users, ended>>
            /\ req[w].pc = "mint" /\ req[w].user \in DOMAIN users
            /\ tokens'[t].user = req[w].user
    BY <1>1 DEF MintCommit, UserKey
<1>2. CASE DOMAIN tokens' \subseteq DOMAIN tokens
    BY <1>2
<1> QED BY <1>1, <1>2, StepKinds
        DEF SameTables, SignupCommit, ConfirmCommit, RefreshMint, LogoutCommit,
            ChangeCommit, ForgotCommit, ResetCommit, DeleteCommit, ElapseConfirm,
            ElapseReset, ElapseAccess, ElapseToken

\* Keys are drawn once and for all.
LEMMA DrawnStep ==
  ASSUME TypeOK, KeysDrawn, RequestInv, [Next]_vars
  PROVE KeysDrawn' /\ used[1] \subseteq used'[1] /\ used[2] \subseteq used'[2]
<1> DEFINE Goal == KeysDrawn' /\ used[1] \subseteq used'[1] /\ used[2] \subseteq used'[2]
<1> USE DEF TypeOK, KeysDrawn
<1>1. ASSUME NEW w \in Workers, NEW i \in Ids, NEW c \in Codes, SignupCommit(w, i, c)
      PROVE Goal
    BY <1>1 DEF SignupCommit
<1>2. ASSUME NEW w \in Workers, NEW t \in Tokens, MintCommit(w, t) PROVE Goal
    BY <1>2 DEF MintCommit
<1>3. ASSUME NEW w \in Workers, LogoutCommit(w) PROVE Goal
    BY <1>3 DEF LogoutCommit, RequestInv, LogoutInv
<1>4. CASE /\ UNCHANGED <<used, ended>>
           /\ DOMAIN users' \subseteq DOMAIN users /\ DOMAIN tokens' \subseteq DOMAIN tokens
    BY <1>4
<1> QED BY <1>1, <1>2, <1>3, <1>4, StepKinds
        DEF SameTables, ConfirmCommit, RefreshMint, ChangeCommit, ForgotCommit,
            ResetCommit, DeleteCommit, ElapseConfirm, ElapseReset, ElapseAccess, ElapseToken

-----------------------------------------------------------------------------
(* What a request is when it begins.                                       *)

BeginsWell(w) ==
    LET r == req'[w] IN
    /\ r.pc \notin {"idle", "signup"} => r.user \in DOMAIN users
    /\ r.pc \notin {"mint", "revoke"}
    /\ r.pc \in {"login", "delete"} => users[r.user].status = "confirmed"
    /\ r.pc = "logout" => r.held = TokensOf(r.user)
    /\ r.pc = "refresh" => \E t \in Tokens : Usable(t) /\ r.after = (t \in ended)
    /\ r.pc = "reset" => users[r.user].reset # NoCode
    /\ r.pc = "confirm" => ~users[r.user].confirmLate

\* The checks of the handlers before their first write.
LEMMA BeginChecks ==
  ASSUME TypeOK, TokensOfMembers, NEW w \in Workers, Begins(w)
  PROVE BeginsWell(w)
<1> USE DEF TypeOK, Begin, BeginsWell
<1>1. ASSUME NEW n \in Names, NEW p \in Passwords, SignupRead(w, n, p)
      PROVE BeginsWell(w)
    BY <1>1 DEF SignupRead
<1>2. ASSUME NEW t \in Tokens, RefreshRead(w, t) PROVE BeginsWell(w)
  <2>1. tokens[t].user \in DOMAIN users
      BY <1>2 DEF RefreshRead, Usable, TokensOfMembers, Confirmed
  <2> QED BY <1>2, <2>1 DEF RefreshRead
<1>3. ASSUME NEW i \in Ids, LogoutBegin(w, i) PROVE BeginsWell(w)
    BY <1>3 DEF LogoutBegin, get_current_user, Confirmed
<1>4. ASSUME NEW i \in Ids, DeleteRead(w, i) PROVE BeginsWell(w)
    BY <1>4 DEF DeleteRead, get_current_user, Confirmed
<1>5. ASSUME NEW i \in Ids, NEW p \in Passwords, NEW q \in Passwords, ChangeRead(w, i, p, q)
      PROVE BeginsWell(w)
    BY <1>5 DEF ChangeRead, get_current_user, Confirmed
<1>6. ASSUME NEW i \in Ids, NEW n \in Names, ForgotRead(w, i, n) PROVE BeginsWell(w)
    BY <1>6 DEF ForgotRead, Found
<1>7. ASSUME NEW i \in Ids, NEW n \in Names, NEW p \in Passwords, LoginRead(w, i, n, p)
      PROVE BeginsWell(w)
    BY <1>7 DEF LoginRead, Found
<1>8. ASSUME NEW i \in Ids, NEW n \in Names, NEW c \in Codes, ConfirmRead(w, i, n, c)
      PROVE BeginsWell(w)
    BY <1>8 DEF ConfirmRead, Found
<1>9. ASSUME NEW i \in Ids, NEW n \in Names, NEW c \in Codes, NEW p \in Passwords,
             ResetRead(w, i, n, c, p)
      PROVE BeginsWell(w)
    BY <1>9, NoCodeAssumption DEF ResetRead, Found
<1> QED BY <1>1, <1>2, <1>3, <1>4, <1>5, <1>6, <1>7, <1>8, <1>9 DEF Begins

-----------------------------------------------------------------------------
(* The invariant is inductive.                                             *)

\* The unique key decides between two sign-ups that both found a name free.
LEMMA NamesStep ==
  ASSUME TypeOK, UniqueNames, [Next]_vars
  PROVE UniqueNames'
<1> SUFFICES ASSUME NEW i \in DOMAIN users', NEW j \in DOMAIN users',
                    users'[i].name = users'[j].name
             PROVE i = j
    BY DEF UniqueNames
<1>1. CASE i \in DOMAIN users /\ j \in DOMAIN users
    BY <1>1, UserStep DEF KeptUser, UniqueNames
<1>2. ASSUME NEW k \in DOMAIN users', NEW l \in DOMAIN users', k \notin DOMAIN users,
             users'[k].name = users'[l].name
      PROVE k = l
  <2>1. NameFree(users'[k].name) /\ DOMAIN users' = DOMAIN users \cup {k}
      BY <1>2, NewUser
  <2>2. l \in DOMAIN users => users'[l].name = users[l].name
      BY UserStep DEF KeptUser
  <2> QED BY <1>2, <2>1, <2>2 DEF NameFree
<1> QED BY <1>1, <1>2

\* An account that goes takes its tokens along.
LEMMA CascadeStep ==
  ASSUME [Next]_vars, NEW i \in DOMAIN users, i \notin DOMAIN users',
         NEW t \in DOMAIN tokens, tokens[t].user = i
  PROVE t \notin DOMAIN tokens'
<1>1. ASSUME NEW w \in Workers, DeleteCommit(w) PROVE t \notin DOMAIN tokens'
    BY <1>1 DEF DeleteCommit, TokensOf
<1>2. CASE DOMAIN users \subseteq DOMAIN users'
    BY <1>2
<1> QED BY <1>1, <1>2, StepKinds
        DEF SameTables, SignupCommit, ConfirmCommit, MintCommit, RefreshMint,
            LogoutCommit, ChangeCommit, ForgotCommit, ResetCommit, ElapseConfirm,
            ElapseReset, ElapseAccess, ElapseToken

\* The foreign key decides between the second commit of a login and the
\* deletion of the account.
LEMMA MembersStep ==
  ASSUME TypeOK, TokensOfMembers, RequestInv, [Next]_vars
  PROVE TokensOfMembers'
<1> SUFFICES ASSUME NEW t \in DOMAIN tokens'
             PROVE /\ tokens'[t].user \in DOMAIN users'
                   /\ users'[tokens'[t].user].status = "confirmed"
    BY DEF TokensOfMembers, Confirmed
<1>1. CASE t \in DOMAIN tokens
  <2>1. tokens[t].user \in DOMAIN users /\ users[tokens[t].user].status = "confirmed"
      BY <1>1 DEF TokensOfMembers, Confirmed
  <2>2. tokens[t].user \in DOMAIN users'
      BY <1>1, <2>1, CascadeStep
  <2> QED BY <1>1, <2>1, <2>2, UserStep, TokenStep DEF KeptUser
<1>2. CASE t \notin DOMAIN tokens
  <2>1. PICK w \in Workers : /\ req[w].pc = "mint"
                             /\ req[w].user \in DOMAIN users
                             /\ tokens'[t].user = req[w].user
      BY <1>2, NewToken
  <2>2. users' = users
      BY <1>2, NewToken
  <2>3. users[req[w].user].status = "confirmed"
      BY <2>1 DEF RequestInv, LoginInv
  <2> QED BY <2>1, <2>2, <2>3
<1> QED BY <1>1, <1>2

\* Who may have ended a token.
LEMMA EndedStep ==
  ASSUME [Next]_vars, NEW t \in ended', t \notin ended
  PROVE \E w \in Workers : LogoutCommit(w) /\ t \in req[w].held
BY StepKinds
   DEF SameTables, SignupCommit, ConfirmCommit, MintCommit, RefreshMint, LogoutCommit,
       ChangeCommit, ForgotCommit, ResetCommit, DeleteCommit, ElapseConfirm, ElapseReset,
       ElapseAccess, ElapseToken

\* A logout that is answered has revoked what was there when it arrived.
LEMMA LogoutStep ==
  ASSUME TypeOK, TokensOfMembers, LogoutEndsSessions, KeysDrawn, RequestInv, [Next]_vars
  PROVE LogoutEndsSessions'
<1>1. ASSUME NEW t \in ended', t \in DOMAIN tokens' PROVE tokens'[t].revoked
  <2>1. CASE t \in ended
    <3>1. t \in DOMAIN tokens
        BY <1>1, <2>1, NewToken DEF KeysDrawn
    <3> QED BY <1>1, <2>1, <3>1, TokenStep DEF LogoutEndsSessions
  <2>2. CASE t \notin ended
    <3>1. PICK w \in Workers : LogoutCommit(w) /\ t \in req[w].held
        BY <1>1, <2>2, EndedStep
    <3>2. t \in DOMAIN tokens /\ req[w].pc = "revoke"
        BY <1>1, <3>1 DEF LogoutCommit
    <3>3. t \in req[w].rows \/ tokens[t].revoked
        BY <3>1, <3>2 DEF RequestInv, LogoutInv
    <3>4. CASE t \in req[w].rows
        BY <3>1, <3>2, <3>4 DEF LogoutCommit, TypeOK, RefreshToken
    <3>5. CASE tokens[t].revoked
        BY <1>1, <3>2, <3>5, TokenStep
    <3> QED BY <3>3, <3>4, <3>5
  <2> QED BY <2>1, <2>2
<1>2. ASSUME NEW w \in Workers, req'[w].pc = "refresh" PROVE ~req'[w].after
  <2>1. CASE req'[w] = req[w]
      BY <1>2, <2>1 DEF LogoutEndsSessions
  <2>2. CASE Begins(w)
    <3>1. PICK t \in Tokens : Usable(t) /\ req'[w].after = (t \in ended)
        BY <1>2, <2>2, BeginChecks DEF BeginsWell
    <3>2. t \notin ended
        BY <3>1 DEF Usable, LogoutEndsSessions
    <3> QED BY <3>1, <3>2
  <2>3. ~LoginCommit(w) /\ ~LogoutRead(w) /\ req'[w] # Idle
    <3>1. ~LogoutRead(w) /\ req'[w] # Idle
        BY <1>2 DEF LogoutRead, TypeOK, Idle
    <3>2. ASSUME LoginCommit(w) PROVE FALSE
      <4>1. req[w] \in [pc : {"confirm", "login", "mint", "delete"}, user : Ids]
          BY <3>2 DEF LoginCommit, TypeOK, Request, Idle
      <4> QED BY <1>2, <3>2, <4>1 DEF LoginCommit, TypeOK
    <3> QED BY <3>1, <3>2
  <2> QED BY <2>1, <2>2, <2>3, StepMoves
<1> QED BY <1>1, <1>2 DEF LogoutEndsSessions

\* A login goes on with the same account, and has written nothing so far.
LEMMA LoginMove ==
  ASSUME TypeOK, NEW w \in Workers, LoginCommit(w)
  PROVE /\ req[w].pc = "login" /\ req'[w].pc = "mint"
        /\ req'[w].user = req[w].user
        /\ SameTables
<1>1. req[w] \in [pc : {"confirm", "login", "mint", "delete"}, user : Ids]
    BY DEF LoginCommit, TypeOK, Request, Idle
<1> QED BY <1>1 DEF LoginCommit, TypeOK, SameTables

\* A logout that has read its rows lists the caller's tokens that are not
\* revoked.
LEMMA LogoutMove ==
  ASSUME TypeOK, NEW w \in Workers, LogoutRead(w)
  PROVE /\ req[w].pc = "logout" /\ req'[w].pc = "revoke"
        /\ req'[w].user = req[w].user /\ req'[w].held = req[w].held
        /\ req'[w].rows = {t \in TokensOf(req[w].user) : ~tokens[t].revoked}
        /\ SameTables
BY DEF LogoutRead, TypeOK, SameTables

\* Using a code clears it, and issuing one forgets who used the last.
LEMMA CodeStep ==
  ASSUME TypeOK, CodeUnused, [Next]_vars
  PROVE CodeUnused'
<1> SUFFICES ASSUME NEW i \in DOMAIN users', users'[i].reset # NoCode
             PROVE users'[i].resetBy = {}
    BY DEF CodeUnused
<1>1. i \in DOMAIN users
    BY NewUser
<1> QED BY <1>1, UserStep DEF KeptUser, CodeUnused

\* A code opens a second reset only to a request that was already under way.
LEMMA ResetStep ==
  ASSUME TypeOK, TokensOfMembers, ResetOnce, KeysDrawn, CodeUnused, RequestInv, [Next]_vars
  PROVE ResetOnce'
<1> SUFFICES ASSUME NEW w \in Workers, req'[w].pc = "reset", req'[w].user \in DOMAIN users'
             PROVE w \notin users'[req'[w].user].resetBy
    BY DEF ResetOnce
<1> DEFINE i == req'[w].user
<1>1. CASE req'[w] = req[w]
  <2>1. i \in used[1]
      BY <1>1 DEF RequestInv, UserDrawn
  <2>2. i \in DOMAIN users
      BY <2>1, NewUser
  <2>3. w \notin users[i].resetBy
      BY <1>1, <2>2 DEF ResetOnce
  <2>4. \A x \in Workers : Reply(x) => x # w
      BY DEF Reply, TypeOK, Idle
  <2>5. KeptUser(i)
      BY <2>2, UserStep
  <2> QED BY <2>3, <2>4, <2>5 DEF KeptUser
<1>2. CASE Begins(w)
  <2>1. i \in DOMAIN users /\ users[i].reset # NoCode
      BY <1>2, BeginChecks DEF BeginsWell
  <2>2. users' = users
      BY <1>2, BeginsOne DEF SameTables
  <2> QED BY <2>1, <2>2 DEF CodeUnused
<1>3. ~LoginCommit(w) /\ ~LogoutRead(w) /\ req'[w] # Idle
    BY LoginMove, LogoutMove DEF Idle
<1> QED BY <1>1, <1>2, <1>3, StepMoves

\* What a request carries stays true of the tables while others write them.
LEMMA CarriedStep ==
  ASSUME TypeOK, KeysDrawn, RequestInv, [Next]_vars, NEW w \in Workers,
         req'[w] = req[w]
  PROVE UserDrawn(w)' /\ LoginInv(w)' /\ LogoutInv(w)'
<1>1. UserDrawn(w) /\ LoginInv(w) /\ LogoutInv(w)
    BY DEF RequestInv
<1>2. used[1] \subseteq used'[1] /\ used[2] \subseteq used'[2]
    BY DrawnStep
<1>3. UserDrawn(w)'
    BY <1>1, <1>2 DEF UserDrawn
<1>4. LoginInv(w)'
  <2> SUFFICES ASSUME req[w].pc \in {"login", "mint", "delete"}, req[w].user \in DOMAIN users'
               PROVE users'[req[w].user].status = "confirmed"
      BY DEF LoginInv
  <2>1. req[w].user \in used[1]
      BY <1>1 DEF UserDrawn
  <2>2. req[w].user \in DOMAIN users
      BY <2>1, NewUser
  <2> QED BY <1>1, <2>2, UserStep DEF LoginInv, KeptUser
<1>5. LogoutInv(w)'
  <2>1. ASSUME req[w].pc \in {"logout", "revoke"}, NEW t \in req[w].held, t \in DOMAIN tokens'
        PROVE t \in DOMAIN tokens
      BY <1>1, <2>1, NewToken DEF LogoutInv
  <2>2. req[w].pc \in {"logout", "revoke"} => req[w].held \subseteq used'[2]
      BY <1>1, <1>2 DEF LogoutInv
  <2>3. ASSUME req[w].pc = "logout", NEW t \in req[w].held, t \in DOMAIN tokens'
        PROVE tokens'[t].user = req[w].user
      BY <1>1, <2>1, <2>3, TokenStep DEF LogoutInv
  <2>4. ASSUME req[w].pc = "revoke", NEW t \in req[w].held, t \in DOMAIN tokens'
        PROVE t \in req[w].rows \/ tokens'[t].revoked
      BY <1>1, <2>1, <2>4, TokenStep DEF LogoutInv
  <2>5. ASSUME req[w].pc = "revoke"
        PROVE  /\ req[w].rows \subseteq used'[2]
               /\ \A t \in req[w].rows \cap DOMAIN tokens' : tokens'[t].user = req[w].user
    <3>1. req[w].rows \subseteq used[2]
        BY <1>1, <2>5 DEF LogoutInv
    <3>2. ASSUME NEW t \in req[w].rows, t \in DOMAIN tokens'
          PROVE  tokens'[t].user = req[w].user
      <4>1. t \in DOMAIN tokens
          BY <3>1, <3>2, NewToken
      <4> QED BY <1>1, <2>5, <3>2, <4>1, TokenStep DEF LogoutInv
    <3> QED BY <1>2, <3>1, <3>2
  <2> QED BY <2>2, <2>3, <2>4, <2>5 DEF LogoutInv
<1> QED BY <1>3, <1>4, <1>5

\* Every request goes on with what its reads established.
LEMMA RequestStep ==
  ASSUME TypeOK, TokensOfMembers, KeysDrawn, RequestInv, [Next]_vars
  PROVE RequestInv'
<1> SUFFICES ASSUME NEW w \in Workers
             PROVE UserDrawn(w)' /\ LoginInv(w)' /\ LogoutInv(w)'
    BY DEF RequestInv
<1>0. UserDrawn(w) /\ LoginInv(w) /\ LogoutInv(w)
    BY DEF RequestInv
<1>1. CASE req'[w] = req[w]
    BY <1>1, CarriedStep
<1>2. CASE req'[w] = Idle
    BY <1>2 DEF UserDrawn, LoginInv, LogoutInv, Idle
<1>3. CASE Begins(w)
  <2>1. BeginsWell(w)
      BY <1>3, BeginChecks
  <2>2. users' = users /\ tokens' = tokens /\ used' = used
      BY <1>3, BeginsOne DEF SameTables
  <2>3. UserDrawn(w)' /\ LoginInv(w)'
      BY <2>1, <2>2 DEF BeginsWell, UserDrawn, LoginInv, KeysDrawn
  <2>4. LogoutInv(w)'
      BY <2>1, <2>2 DEF BeginsWell, LogoutInv, TokensOf, KeysDrawn
  <2> QED BY <2>3, <2>4
<1>4. CASE LoginCommit(w)
  <2>1. /\ req[w].pc = "login" /\ req'[w].pc = "mint" /\ req'[w].user = req[w].user
        /\ users' = users /\ used' = used
      BY <1>4, LoginMove DEF SameTables
  <2> QED BY <1>0, <2>1 DEF UserDrawn, LoginInv, LogoutInv
<1>5. CASE LogoutRead(w)
  <2>1. /\ req[w].pc = "logout" /\ req'[w].pc = "revoke"
        /\ req'[w].user = req[w].user /\ req'[w].held = req[w].held
        /\ req'[w].rows = {t \in TokensOf(req[w].user) : ~tokens[t].revoked}
        /\ users' = users /\ tokens' = tokens /\ used' = used
      BY <1>5, LogoutMove DEF SameTables
  <2>2. UserDrawn(w)' /\ LoginInv(w)'
      BY <1>0, <2>1 DEF UserDrawn, LoginInv
  <2>3. LogoutInv(w)'
      BY <1>0, <2>1 DEF LogoutInv, TokensOf, KeysDrawn
  <2> QED BY <2>2, <2>3
<1> QED BY <1>1, <1>2, <1>3, <1>4, <1>5, StepMoves

\* Every step preserves the invariant.
LEMMA InvStep == Inv /\ [Next]_vars => Inv'
<1> SUFFICES ASSUME Inv, [Next]_vars PROVE Inv'
    OBVIOUS
<1> USE DEF Inv
<1>1. TypeOK'
    BY UserRowTypes, TokenTypes, RequestTypes DEF TypeOK
<1>2. UniqueNames' /\ TokensOfMembers' /\ LogoutEndsSessions'
    BY NamesStep, MembersStep, LogoutStep
<1>3. KeysDrawn' /\ CodeUnused' /\ RequestInv' /\ ResetOnce'
    BY DrawnStep, CodeStep, RequestStep, ResetStep
<1> QED BY <1>1, <1>2, <1>3

-----------------------------------------------------------------------------
(* The theorems.                                                           *)

\* The invariant holds of every behaviour.
THEOREM InvHolds == Spec => []Inv
BY InitInv, InvStep, PTL DEF Spec

\* Every account, refresh token and request keeps its type.
THEOREM TypeCorrect == Spec => []TypeOK
<1>1. Inv => TypeOK
    BY DEF Inv
<1> QED BY <1>1, InvHolds, PTL

\* No two accounts ever have one name (signup, auth.py).
THEOREM NamesUnique == Spec => []UniqueNames
<1>1. Inv => UniqueNames
    BY DEF Inv
<1> QED BY <1>1, InvHolds, PTL

\* Every refresh token belongs to a confirmed account that is there
\* (login_password and _mint_token_triple, auth.py).
THEOREM TokensBelong == Spec => []TokensOfMembers
<1>1. Inv => TokensOfMembers
    BY DEF Inv
<1> QED BY <1>1, InvHolds, PTL

\* A logout that has been answered ended every token there was when it
\* arrived, for good (logout and login_refresh, auth.py).
THEOREM LogoutEnds == Spec => []LogoutEndsSessions
<1>1. Inv => LogoutEndsSessions
    BY DEF Inv
<1> QED BY <1>1, InvHolds, PTL

\* No worker resets a password with a code it has used already
\* (confirm_password_reset, auth.py).
THEOREM ResetsOnce == Spec => []ResetOnce
<1>1. Inv => ResetOnce
    BY DEF Inv
<1> QED BY <1>1, InvHolds, PTL

\* Only a confirmation under way touches the status and the deadline of a
\* code that has run out.
LEMMA LateStep ==
  ASSUME TypeOK, [Next]_vars, NEW i \in DOMAIN users, i \in DOMAIN users',
         users[i].confirmLate, Confirming(i) = {}
  PROVE users'[i].status = users[i].status /\ users'[i].confirmLate
<1> DEFINE Goal == users'[i].status = users[i].status /\ users'[i].confirmLate
<1> USE DEF TypeOK
<1>0. users[i] \in User
    OBVIOUS
<1>1. CASE users'[i] = users[i]
    BY <1>1
<1>2. ASSUME NEW w \in Workers, NEW j \in Ids, NEW c \in Codes, SignupCommit(w, j, c)
      PROVE users'[i] = users[i]
    BY <1>2 DEF SignupCommit
<1>3. ASSUME NEW w \in Workers, ConfirmCommit(w) PROVE users'[i] = users[i]
  <2>1. req[w].user # i
      BY <1>3 DEF ConfirmCommit, Confirming
  <2> QED BY <1>3, <2>1 DEF ConfirmCommit
<1>4. ASSUME NEW w \in Workers, ChangeCommit(w) PROVE Goal
    BY <1>0, <1>4 DEF ChangeCommit, User
<1>5. ASSUME NEW w \in Workers, NEW c \in Codes, ForgotCommit(w, c) PROVE Goal
  <2> DEFINE code == IF c = req[w].was THEN users[req[w].user].reset ELSE c
  <2>1. /\ req[w].user \in DOMAIN users
        /\ users' = [users EXCEPT ![req[w].user].reset = code,
                                  ![req[w].user].resetLate = FALSE,
                                  ![req[w].user].resetBy = {}]
      BY <1>5 DEF ForgotCommit
  <2> HIDE DEF code
  <2>2. CASE i # req[w].user
      BY <2>1, <2>2
  <2>3. CASE i = req[w].user
      BY <1>0, <2>1, <2>3 DEF User
  <2> QED BY <2>2, <2>3
<1>6. ASSUME NEW w \in Workers, ResetCommit(w) PROVE Goal
    BY <1>0, <1>6 DEF ResetCommit, User
<1>7. ASSUME NEW w \in Workers, DeleteCommit(w) PROVE users'[i] = users[i]
    BY <1>7 DEF DeleteCommit
<1>8. ASSUME NEW j \in Ids, ElapseConfirm(j) PROVE Goal
    BY <1>0, <1>8 DEF ElapseConfirm, User
<1>9. ASSUME NEW j \in Ids, ElapseReset(j) PROVE Goal
    BY <1>0, <1>9 DEF ElapseReset, User
<1> QED BY <1>1, <1>2, <1>3, <1>4, <1>5, <1>6, <1>7, <1>8, <1>9, StepKinds
        DEF SameTables, MintCommit, RefreshMint, LogoutCommit, ElapseAccess, ElapseToken

\* An account whose code ran out with no confirmation under way is never
\* confirmed (confirm_signup, auth.py).
THEOREM LateNeverConfirmed == Spec => LateStaysUnconfirmed
<1> DEFINE Late(i) == users[i].confirmLate /\ Confirming(i) = {}
           Stays(i) == /\ users'[i].status = users[i].status
                       /\ users'[i].confirmLate
                       /\ Confirming(i)' = {}
<1>1. ASSUME Inv, [Next]_vars
      PROVE \A i \in DOMAIN users \cap DOMAIN users' : Late(i) => Stays(i)
  <2> SUFFICES ASSUME NEW i \in DOMAIN users, i \in DOMAIN users', Late(i)
               PROVE Stays(i)
      OBVIOUS
  <2>1. users'[i].status = users[i].status /\ users'[i].confirmLate
      BY <1>1, LateStep DEF Inv
  <2>2. ASSUME NEW w \in Workers, req'[w].pc = "confirm", req'[w].user = i
        PROVE FALSE
    <3>1. CASE req'[w] = req[w]
        BY <2>2, <3>1 DEF Confirming
    <3>2. CASE Begins(w)
        BY <1>1, <2>2, <3>2, BeginChecks DEF BeginsWell, Inv
    <3>3. ~LoginCommit(w) /\ ~LogoutRead(w) /\ req'[w] # Idle
        BY <1>1, <2>2, LoginMove, LogoutMove DEF Idle, Inv
    <3> QED BY <1>1, <3>1, <3>2, <3>3, StepMoves DEF Inv
  <2> QED BY <2>1, <2>2 DEF Confirming
<1>2. Inv /\ [Next]_vars =>
        [\A i \in DOMAIN users \cap DOMAIN users' : Late(i) => Stays(i)]_vars
    BY <1>1
<1> QED BY <1>2, InvHolds, PTL DEF Spec, LateStaysUnconfirmed

-----------------------------------------------------------------------------
(* Refinement: every step is a step of Sessions, or none of its business.  *)

abstractVars == <<Standing, OpenSessions, used[2], access>>

\* The standing of the accounts, and the sessions, depend on these columns
\* only.
LEMMA SameStanding ==
  ASSUME used'[1] = used[1], DOMAIN users' = DOMAIN users,
         \A i \in DOMAIN users : users'[i].status = users[i].status
  PROVE Standing' = Standing
BY DEF Standing

LEMMA SameSessions ==
  ASSUME tokens' = tokens
  PROVE OpenSessions' = OpenSessions
BY DEF OpenSessions, Usable

\* A session is a token that can be used, with its account.
LEMMA SessionIs ==
  ASSUME NEW t, NEW i
  PROVE <<t, i>> \in OpenSessions <=> Usable(t) /\ tokens[t].user = i
BY DEF OpenSessions, Usable

LEMMA SessionPairs ==
  \A s \in OpenSessions : \E t \in DOMAIN tokens : s = <<t, tokens[t].user>> /\ Usable(t)
BY DEF OpenSessions

\* The same in the next state.
LEMMA NextSessions ==
  /\ \A s \in OpenSessions' :
        \E t \in DOMAIN tokens' : s = <<t, tokens'[t].user>> /\ Usable(t)'
  /\ \A t : Usable(t)' => <<t, tokens'[t].user>> \in OpenSessions'
BY DEF OpenSessions, Usable

LEMMA SignUpStep ==
  ASSUME Inv, NEW w \in Workers, NEW i \in Ids, NEW c \in Codes, SignupCommit(w, i, c)
  PROVE Abstract!SignUp(i)
<1>1. i \notin used[1] /\ i \notin DOMAIN users
    BY DEF SignupCommit, Inv, KeysDrawn
<1>2. /\ DOMAIN users' = DOMAIN users \cup {i}
      /\ \A j \in DOMAIN users : users'[j] = users[j]
      /\ users'[i].status = "unconfirmed"
      /\ used'[1] = used[1] \cup {i} /\ used'[2] = used[2]
      /\ access' = access /\ tokens' = tokens
    BY <1>1 DEF SignupCommit
<1>3. Standing[i] = "new"
    BY <1>1 DEF Standing
<1>4. Standing' = [Standing EXCEPT ![i] = "unconfirmed"]
    BY <1>1, <1>2 DEF Standing
<1> QED BY <1>2, <1>3, <1>4, SameSessions DEF Abstract!SignUp, Abstract!Becomes

LEMMA ConfirmStep ==
  ASSUME Inv, NEW w \in Workers, ConfirmCommit(w)
  PROVE Abstract!Confirm(req[w].user) \/ UNCHANGED abstractVars
<1> DEFINE i == req[w].user
<1>0. i \in DOMAIN users /\ users[i] \in User /\ i \in Ids
    BY DEF ConfirmCommit, Inv, TypeOK
<1>1. /\ DOMAIN users' = DOMAIN users
      /\ \A j \in DOMAIN users : j # i => users'[j] = users[j]
      /\ users'[i].status = "confirmed"
      /\ used' = used /\ access' = access /\ tokens' = tokens
    BY <1>0 DEF ConfirmCommit, User
<1>2. OpenSessions' = OpenSessions
    BY <1>1, SameSessions
<1>3. CASE users[i].status = "confirmed"
    BY <1>1, <1>2, <1>3, SameStanding DEF abstractVars
<1>4. CASE users[i].status = "unconfirmed"
  <2>1. Standing[i] = "unconfirmed"
      BY <1>0, <1>4 DEF Standing
  <2>2. Standing' = [Standing EXCEPT ![i] = "confirmed"]
      BY <1>0, <1>1 DEF Standing
  <2> QED BY <1>1, <1>2, <2>1, <2>2 DEF Abstract!Confirm, Abstract!Becomes
<1> QED BY <1>0, <1>3, <1>4 DEF User

LEMMA LogInStep ==
  ASSUME Inv, NEW w \in Workers, NEW t \in Tokens, MintCommit(w, t)
  PROVE Abstract!LogIn(req[w].user, t)
<1> DEFINE i == req[w].user
<1>0. i \in DOMAIN users /\ i \in Ids /\ users[i].status = "confirmed"
    BY DEF MintCommit, UserKey, Inv, TypeOK, RequestInv, LoginInv
<1>1. t \notin used[2] /\ t \notin DOMAIN tokens
    BY DEF MintCommit, Inv, KeysDrawn
<1>2. /\ DOMAIN tokens' = DOMAIN tokens \cup {t}
      /\ \A s \in DOMAIN tokens : tokens'[s] = tokens[s]
      /\ tokens'[t] = [user |-> i, revoked |-> FALSE, late |-> FALSE]
      /\ users' = users /\ used'[1] = used[1] /\ used'[2] = used[2] \cup {t}
      /\ access' = access \cup {i}
    BY <1>1 DEF MintCommit
<1>3. \A s : Usable(s)' <=> Usable(s) \/ s = t
    BY <1>1, <1>2 DEF Usable
<1>4. OpenSessions' = OpenSessions \cup {<<t, i>>}
  <2>1. ASSUME NEW s \in OpenSessions' PROVE s \in OpenSessions \cup {<<t, i>>}
      BY <1>2, <1>3, NextSessions, SessionIs DEF Usable
  <2>2. ASSUME NEW s \in OpenSessions PROVE s \in OpenSessions'
      BY <1>2, <1>3, NextSessions, SessionPairs
  <2>3. <<t, i>> \in OpenSessions'
      BY <1>2, <1>3, NextSessions
  <2> QED BY <2>1, <2>2, <2>3
<1>5. Standing[i] = "confirmed"
    BY <1>0 DEF Standing
<1> QED BY <1>1, <1>2, <1>4, <1>5, SameStanding DEF Abstract!LogIn

LEMMA RenewStep ==
  ASSUME Inv, NEW w \in Workers, RefreshMint(w)
  PROVE req[w].user \in Ids /\ Abstract!Renew(req[w].user)
<1>1. req[w].user \in Ids /\ Standing[req[w].user] = "confirmed"
    BY DEF RefreshMint, Confirmed, Standing, Inv, TypeOK
<1>2. users' = users /\ used' = used /\ tokens' = tokens /\ access' = access \cup {req[w].user}
    BY DEF RefreshMint
<1> QED BY <1>1, <1>2, SameStanding, SameSessions DEF Abstract!Renew

\* Tokens S of account i are no longer usable, and nothing else changes.
LEMMA EndStep ==
  ASSUME NEW i, NEW S, used' = used, users' = users, access' = access,
         DOMAIN tokens' = DOMAIN tokens,
         \A t \in DOMAIN tokens : tokens'[t].user = tokens[t].user,
         \A t \in DOMAIN tokens : Usable(t)' <=> Usable(t) /\ t \notin S,
         \A t \in S \cap DOMAIN tokens : tokens[t].user = i
  PROVE Abstract!EndSessions(i, S)
<1>1. OpenSessions' = OpenSessions \ (S \X {i})
  <2>1. ASSUME NEW s \in OpenSessions' PROVE s \in OpenSessions \ (S \X {i})
    <3>1. PICK t \in DOMAIN tokens : s = <<t, tokens[t].user>> /\ Usable(t)'
        BY NextSessions
    <3> QED BY <3>1, SessionIs
  <2>2. ASSUME NEW s \in OpenSessions \ (S \X {i}) PROVE s \in OpenSessions'
    <3>1. PICK t \in DOMAIN tokens : s = <<t, tokens[t].user>> /\ Usable(t)
        BY SessionPairs
    <3>2. t \notin S
        BY <2>2, <3>1
    <3> QED BY <3>1, <3>2, NextSessions
  <2> QED BY <2>1, <2>2
<1> QED BY <1>1, SameStanding DEF Abstract!EndSessions

LEMMA LogOutStep ==
  ASSUME Inv, NEW w \in Workers, LogoutCommit(w)
  PROVE /\ req[w].user \in Ids /\ req[w].rows \in SUBSET Tokens
        /\ Abstract!EndSessions(req[w].user, req[w].rows)
<1> DEFINE i == req[w].user
           S == req[w].rows
<1>1. i \in Ids /\ S \in SUBSET Tokens
  <2>1. req[w] \in [pc : {"revoke"}, user : Ids, held : SUBSET Tokens, rows : SUBSET Tokens]
      BY DEF LogoutCommit, Inv, TypeOK, Request, Idle
  <2> QED BY <2>1
<1>2. \A t \in S \cap DOMAIN tokens : tokens[t].user = i
    BY DEF LogoutCommit, Inv, RequestInv, LogoutInv
<1>3. used' = used /\ users' = users /\ access' = access /\ DOMAIN tokens' = DOMAIN tokens
    BY DEF LogoutCommit
<1>4. ASSUME NEW t \in DOMAIN tokens
      PROVE  tokens'[t].user = tokens[t].user /\ (Usable(t)' <=> Usable(t) /\ t \notin S)
  <2>1. tokens[t] \in RefreshToken
      BY DEF Inv, TypeOK
  <2> QED BY <2>1 DEF LogoutCommit, RefreshToken, Usable
<1> HIDE DEF i, S
<1>5. Abstract!EndSessions(i, S)
    BY <1>2, <1>3, <1>4, EndStep
<1> QED BY <1>1, <1>5 DEF i, S

LEMMA ExpireStep ==
  ASSUME Inv, NEW t \in Tokens, ElapseToken(t)
  PROVE tokens[t].user \in Ids /\ Abstract!EndSessions(tokens[t].user, {t})
<1> DEFINE i == tokens[t].user
           S == {t}
<1>1. t \in DOMAIN tokens /\ tokens[t] \in RefreshToken
    BY DEF ElapseToken, Inv, TypeOK
<1>2. \A s \in S \cap DOMAIN tokens : tokens[s].user = i
    OBVIOUS
<1>3. used' = used /\ users' = users /\ access' = access /\ DOMAIN tokens' = DOMAIN tokens
    BY DEF ElapseToken
<1>4. ASSUME NEW s \in DOMAIN tokens
      PROVE  tokens'[s].user = tokens[s].user /\ (Usable(s)' <=> Usable(s) /\ s \notin S)
    BY <1>1 DEF ElapseToken, RefreshToken, Usable
<1>5. i \in Ids
    BY <1>1 DEF RefreshToken
<1> HIDE DEF i, S
<1>6. Abstract!EndSessions(i, S)
    BY <1>2, <1>3, <1>4, EndStep
<1> QED BY <1>5, <1>6 DEF i, S

LEMMA LeaveStep ==
  ASSUME Inv, NEW w \in Workers, DeleteCommit(w)
  PROVE req[w].user \in Ids /\ (Abstract!Leave(req[w].user) \/ UNCHANGED abstractVars)
<1> DEFINE i == req[w].user
<1>0. i \in Ids /\ i \in used[1]
  <2>1. req[w] \in [pc : {"confirm", "login", "mint", "delete"}, user : Ids]
      BY DEF DeleteCommit, Inv, TypeOK, Request, Idle
  <2>2. req[w].pc = "delete"
      BY DEF DeleteCommit
  <2> QED BY <2>1, <2>2 DEF Inv, RequestInv, UserDrawn
<1>1. /\ DOMAIN users' = DOMAIN users \ {i}
      /\ \A j \in DOMAIN users' : users'[j] = users[j]
      /\ DOMAIN tokens' = DOMAIN tokens \ TokensOf(i)
      /\ \A t \in DOMAIN tokens' : tokens'[t] = tokens[t]
      /\ used' = used /\ access' = access
    BY DEF DeleteCommit
<1>2. \A t : Usable(t)' <=> Usable(t) /\ tokens[t].user # i
    BY <1>1 DEF Usable, TokensOf
<1>3. OpenSessions' = OpenSessions \ (Tokens \X {i})
  <2>1. ASSUME NEW s \in OpenSessions' PROVE s \in OpenSessions \ (Tokens \X {i})
    <3>1. PICK t \in DOMAIN tokens' : s = <<t, tokens'[t].user>> /\ Usable(t)'
        BY NextSessions
    <3>2. s = <<t, tokens[t].user>> /\ Usable(t) /\ tokens[t].user # i
        BY <1>1, <1>2, <3>1
    <3> QED BY <3>2, SessionIs
  <2>2. ASSUME NEW s \in OpenSessions \ (Tokens \X {i}) PROVE s \in OpenSessions'
    <3>1. PICK t \in DOMAIN tokens : s = <<t, tokens[t].user>> /\ Usable(t)
        BY SessionPairs
    <3>2. t \in Tokens
        BY <3>1 DEF Inv, TypeOK
    <3>3. tokens[t].user # i
        BY <2>2, <3>1, <3>2
    <3>4. Usable(t)' /\ tokens'[t] = tokens[t]
        BY <1>1, <1>2, <3>1, <3>3 DEF TokensOf
    <3> QED BY <3>1, <3>4, NextSessions
  <2> QED BY <2>1, <2>2
<1>4. CASE i \in DOMAIN users
  <2>1. Standing[i] = "confirmed"
      BY <1>0, <1>4 DEF DeleteCommit, Standing, Inv, RequestInv, LoginInv
  <2>2. Standing' = [Standing EXCEPT ![i] = "gone"]
      BY <1>0, <1>1 DEF Standing
  <2> QED BY <1>0, <1>1, <1>3, <2>1, <2>2 DEF Abstract!Leave, Abstract!Becomes
<1>5. CASE i \notin DOMAIN users
  <2>1. Standing' = Standing
      BY <1>1, <1>5, SameStanding
  <2>2. ASSUME NEW s \in OpenSessions PROVE s \notin Tokens \X {i}
    <3>1. PICK t \in DOMAIN tokens : s = <<t, tokens[t].user>>
        BY SessionPairs
    <3>2. tokens[t].user \in DOMAIN users
        BY DEF Inv, TokensOfMembers, Confirmed
    <3> QED BY <1>5, <3>1, <3>2
  <2>3. OpenSessions' = OpenSessions
      BY <1>3, <2>2
  <2> QED BY <1>0, <1>1, <2>1, <2>3 DEF abstractVars
<1> QED BY <1>4, <1>5

\* Passwords, codes and their deadlines are no business of Sessions.
LEMMA SilentStep ==
  ASSUME Inv,
         \/ SameTables
         \/ \E w \in Workers : ChangeCommit(w) \/ ResetCommit(w)
         \/ \E w \in Workers, c \in Codes : ForgotCommit(w, c)
         \/ \E i \in Ids : ElapseConfirm(i) \/ ElapseReset(i)
  PROVE UNCHANGED abstractVars
<1>1. used' = used /\ tokens' = tokens /\ access' = access
    BY DEF SameTables, ChangeCommit, ResetCommit, ForgotCommit, ElapseConfirm, ElapseReset
<1>2. DOMAIN users' = DOMAIN users
    BY DEF SameTables, ChangeCommit, ResetCommit, ForgotCommit, ElapseConfirm, ElapseReset
<1>3. ASSUME NEW i \in DOMAIN users PROVE users'[i].status = users[i].status
  <2>1. users[i] \in User
      BY DEF Inv, TypeOK
  <2>2. CASE SameTables
      BY <2>2 DEF SameTables
  <2>3. ASSUME NEW w \in Workers, ChangeCommit(w) PROVE users'[i].status = users[i].status
      BY <2>1, <2>3 DEF ChangeCommit, User
  <2>4. ASSUME NEW w \in Workers, ResetCommit(w) PROVE users'[i].status = users[i].status
      BY <2>1, <2>4 DEF ResetCommit, User
  <2>5. ASSUME NEW w \in Workers, NEW c \in Codes, ForgotCommit(w, c)
        PROVE  users'[i].status = users[i].status
      BY <2>1, <2>5 DEF ForgotCommit, User
  <2>6. ASSUME NEW j \in Ids, ElapseConfirm(j) PROVE users'[i].status = users[i].status
      BY <2>1, <2>6 DEF ElapseConfirm, User
  <2>7. ASSUME NEW j \in Ids, ElapseReset(j) PROVE users'[i].status = users[i].status
      BY <2>1, <2>7 DEF ElapseReset, User
  <2> QED BY <2>2, <2>3, <2>4, <2>5, <2>6, <2>7
<1> QED BY <1>1, <1>2, <1>3, SameStanding, SameSessions DEF abstractVars

\* Accounts implement Sessions (auth.py): however requests overlap, only
\* confirmed accounts get sessions and access tokens, and what is over, of an
\* account or of a session, does not come back.
THEOREM Refinement == Spec => ImplementsSessions
<1>1. Init => Abstract!SessionsInit
    BY DEF Init, Abstract!SessionsInit, Standing, OpenSessions
<1>2. Inv /\ [Next]_vars
        => [Abstract!SessionsNext]_<<Standing, OpenSessions, used[2], access>>
  <2> SUFFICES ASSUME Inv, [Next]_vars
               PROVE  Abstract!SessionsNext \/ UNCHANGED abstractVars
      BY DEF abstractVars
  <2>1. ASSUME NEW w \in Workers, NEW i \in Ids, NEW c \in Codes, SignupCommit(w, i, c)
        PROVE  Abstract!SessionsNext
      BY <2>1, SignUpStep DEF Abstract!SessionsNext
  <2>2. ASSUME NEW w \in Workers, ConfirmCommit(w)
        PROVE  Abstract!SessionsNext \/ UNCHANGED abstractVars
    <3>1. req[w].user \in Ids
        BY <2>2 DEF ConfirmCommit, Inv, TypeOK
    <3> QED BY <2>2, <3>1, ConfirmStep DEF Abstract!SessionsNext
  <2>3. ASSUME NEW w \in Workers, NEW t \in Tokens, MintCommit(w, t)
        PROVE  Abstract!SessionsNext
    <3>1. req[w].user \in Ids
        BY <2>3 DEF MintCommit, UserKey, Inv, TypeOK
    <3> QED BY <2>3, <3>1, LogInStep DEF Abstract!SessionsNext
  <2>4. ASSUME NEW w \in Workers, RefreshMint(w) PROVE Abstract!SessionsNext
      BY <2>4, RenewStep DEF Abstract!SessionsNext
  <2>5. ASSUME NEW w \in Workers, LogoutCommit(w) PROVE Abstract!SessionsNext
      BY <2>5, LogOutStep DEF Abstract!SessionsNext
  <2>6. ASSUME NEW w \in Workers, DeleteCommit(w)
        PROVE  Abstract!SessionsNext \/ UNCHANGED abstractVars
      BY <2>6, LeaveStep DEF Abstract!SessionsNext
  <2>7. ASSUME NEW i \in Ids, ElapseAccess(i) PROVE Abstract!SessionsNext
    <3>1. Abstract!Lapse(i)
        BY <2>7, SameStanding, SameSessions DEF ElapseAccess, Abstract!Lapse
    <3> QED BY <3>1 DEF Abstract!SessionsNext
  <2>8. ASSUME NEW t \in Tokens, ElapseToken(t) PROVE Abstract!SessionsNext
      BY <2>8, ExpireStep DEF Abstract!SessionsNext
  <2> QED BY <2>1, <2>2, <2>3, <2>4, <2>5, <2>6, <2>7, <2>8, StepKinds, SilentStep
<1> QED BY <1>1, <1>2, InvHolds, PTL
        DEF Spec, ImplementsSessions, Abstract!SessionsSpec
=============================================================================
