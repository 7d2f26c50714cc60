----------------------------- MODULE Directory ------------------------------
(***************************************************************************)
(* What the user directory promises of provider logins: a login is one       *)
(* step.  The first login of an identity makes it an account that nobody     *)
(* else has, every later one gets that account.  Where first logins overlap   *)
(* or are cut short this is lost for good, but not for an identity that has   *)
(* its account: it keeps it, and no other identity is let in.  Accounts       *)
(* implements this with its queries and writes.                              *)
(***************************************************************************)

CONSTANTS
    Logins,      \* logins, each of which is answered at most once
    Identities,  \* provider identities
    Users        \* users that may be made

VARIABLES
    account,  \* [Identities -> the settled account: one user, or none]
    session,  \* [Logins -> the identity and the user it is answered with, or nothing]
    orderly   \* the whole promise still holds

vars == <<account, session, orderly>>

Nothing == {}

Taken(u) == \E i \in Identities : u \in account[i]

Init ==
    /\ account = [i \in Identities |-> Nothing]
    /\ session = [r \in Logins |-> Nothing]
    /\ orderly = TRUE

\* A login finds the account of its identity, or makes it.
Login(r, i, u) ==
    /\ session[r] = Nothing
    /\ \/ u \in account[i]
       \/ account[i] = Nothing /\ ~Taken(u)
    /\ account' = [account EXCEPT ![i] = {u}]
    /\ session' = [session EXCEPT ![r] = {<<i, u>>}]

\* A login fails before it is answered.
Leave(r) ==
    /\ session' = [session EXCEPT ![r] = Nothing]
    /\ UNCHANGED account

Promised ==
    \E r \in Logins : Leave(r) \/ \E i \in Identities, u \in Users : Login(r, i, u)

\* An identity with an account keeps it, and one that gets an account late gets no
\* other identity's.
AccountsStay ==
    /\ account' \in [Identities -> SUBSET Users]
    /\ \A i \in Identities : account[i] # Nothing => account'[i] = account[i]
    /\ \A i, j \in Identities : i # j => account'[i] \cap account'[j] = {}

\* A login is answered with any user but these: another identity's account, and,
\* where its own identity has an account, everything else.
Exclusive(i, u) ==
    \A j \in Identities : account[j] # Nothing => (u \in account[j] <=> i = j)

SessionsAreExclusive ==
    /\ session' \in [Logins -> SUBSET (Identities \X Users)]
    /\ \A r \in Logins :
         \/ session'[r] \in {session[r], Nothing}
         \/ /\ session[r] = Nothing
            /\ \E i \in Identities, u \in Users :
                 session'[r] = {<<i, u>>} /\ Exclusive(i, u)

Next ==
    \/ orderly /\ orderly' /\ Promised
    \/ orderly' = FALSE /\ AccountsStay /\ SessionsAreExclusive

Spec == Init /\ [][Next]_vars

-----------------------------------------------------------------------------
\* An account belongs to one identity, in every history.
OneIdentityPerAccount ==
    \A i, j \in Identities : i # j => account[i] \cap account[j] = {}

\* While the whole promise holds, two logins get one user exactly when they have one
\* identity.
OneAccountPerIdentity ==
    orderly => \A r, s \in Logins : \A p \in session[r], q \in session[s] :
        p[1] = q[1] <=> p[2] = q[2]
=============================================================================
