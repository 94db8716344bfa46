------------------------------ MODULE Sessions ------------------------------
(***************************************************************************)
(* What the accounts promise: only a confirmed account has sessions and is *)
(* given access tokens; an account is confirmed once and leaves once, for  *)
(* good; a session is opened once, under a token of its own, and does not  *)
(* come back once it is over; what ends the sessions of one account ends   *)
(* none of another.  How requests overlap, and what proves who is calling, *)
(* is left to Accounts.                                                    *)
(***************************************************************************)
CONSTANTS Ids, Tokens

VARIABLES
    standing,  \* of each account: new, unconfirmed, confirmed, gone
    open,      \* the sessions, as pairs <<token, account>>
    drawn,     \* tokens that have been given out
    access     \* accounts with a valid access token

SessionsInit ==
    /\ standing = [i \in Ids |-> "new"]
    /\ open = {} /\ drawn = {} /\ access = {}

\* An account goes from one standing to the next.
Becomes(i, from, to) ==
    standing[i] = from /\ standing' = [standing EXCEPT ![i] = to]

SignUp(i) == Becomes(i, "new", "unconfirmed") /\ UNCHANGED <<open, drawn, access>>

Confirm(i) == Becomes(i, "unconfirmed", "confirmed") /\ UNCHANGED <<open, drawn, access>>

LogIn(i, t) ==
    /\ standing[i] = "confirmed" /\ t \notin drawn
    /\ open' = open \cup {<<t, i>>} /\ drawn' = drawn \cup {t}
    /\ access' = access \cup {i}
    /\ UNCHANGED standing

\* A new access token.
Renew(i) ==
    /\ standing[i] = "confirmed"
    /\ access' = access \cup {i} /\ UNCHANGED <<standing, open, drawn>>

\* Some sessions of one account end: it logs out, or they expire.
EndSessions(i, S) ==
    /\ open' = open \ (S \X {i}) /\ UNCHANGED <<standing, drawn, access>>

\* The last access token of an account expires.
Lapse(i) == access' = access \ {i} /\ UNCHANGED <<standing, open, drawn>>

\* An account is deleted, with its sessions.
Leave(i) ==
    /\ Becomes(i, "confirmed", "gone")
    /\ open' = open \ (Tokens \X {i}) /\ UNCHANGED <<drawn, access>>

SessionsNext ==
    \E i \in Ids :
        \/ SignUp(i) \/ Confirm(i) \/ Renew(i) \/ Lapse(i) \/ Leave(i)
        \/ \E t \in Tokens : LogIn(i, t)
        \/ \E S \in SUBSET Tokens : EndSessions(i, S)

SessionsSpec == SessionsInit /\ [][SessionsNext]_<<standing, open, drawn, access>>
=============================================================================
