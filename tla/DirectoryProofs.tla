-------------------------- MODULE DirectoryProofs ---------------------------
(***************************************************************************)
(* What every implementation of Directory has, for any sets of logins,      *)
(* identities and users: accounts and identities correspond one to one.      *)
(***************************************************************************)
EXTENDS Directory, TLAPS

TypeOK ==
    /\ account \in [Identities -> SUBSET Users]
    /\ session \in [Logins -> SUBSET (Identities \X Users)]
    /\ orderly \in BOOLEAN

\* While the promise holds, a login was answered with the account of its identity.
Answered ==
    orderly => \A r \in Logins : \A p \in session[r] : account[p[1]] = {p[2]}

IInv == TypeOK /\ OneIdentityPerAccount /\ Answered

\* A login gets the account of its identity, or one that nobody had.
LEMMA PromisedStep ==
    ASSUME IInv, orderly, orderly', Promised
    PROVE  IInv'
  <1>1. ASSUME NEW r \in Logins, Leave(r)
        PROVE  IInv'
    BY <1>1 DEF Leave, Nothing, IInv, TypeOK, OneIdentityPerAccount, Answered
  <1>2. ASSUME NEW r \in Logins, NEW i \in Identities, NEW u \in Users, Login(r, i, u)
        PROVE  IInv'
    <2>1. \A j \in Identities : account'[j] = IF j = i THEN {u} ELSE account[j]
      BY <1>2 DEF Login, IInv, TypeOK
    <2>2. \A s \in Logins : session'[s] = IF s = r THEN {<<i, u>>} ELSE session[s]
      BY <1>2 DEF Login, IInv, TypeOK
    <2>3. TypeOK'
      BY <1>2 DEF Login, IInv, TypeOK
    <2>4. \A j \in Identities : j # i => u \notin account[j]
      BY <1>2 DEF Login, Taken, IInv, OneIdentityPerAccount
    <2>5. OneIdentityPerAccount'
      BY <2>1, <2>4 DEF IInv, OneIdentityPerAccount
    <2>6. ASSUME NEW s \in Logins, NEW p \in session'[s]
          PROVE  account'[p[1]] = {p[2]}
      <3>1. CASE s = r
        BY <2>1, <2>2, <2>6, <3>1
      <3>2. CASE s # r
        <4>1. /\ p \in session[s] /\ p[1] \in Identities
              /\ account[p[1]] = {p[2]}
          BY <2>2, <2>6, <3>2 DEF IInv, TypeOK, Answered
        <4>2. p[1] = i => p[2] = u
          BY <1>2, <4>1 DEF Login, Nothing
        <4> QED
          BY <2>1, <4>1, <4>2
      <3> QED
        BY <3>1, <3>2
    <2> QED
      BY <2>3, <2>5, <2>6 DEF IInv, Answered
  <1> QED
    BY <1>1, <1>2 DEF Promised

\* The invariant is inductive.
LEMMA Inductive == Spec => []IInv
  <1>1. Init => IInv
    BY DEF Init, Nothing, IInv, TypeOK, OneIdentityPerAccount, Answered
  <1>2. IInv /\ [Next]_vars => IInv'
    <2> SUFFICES ASSUME IInv, [Next]_vars
                 PROVE  IInv'
      OBVIOUS
    <2>1. CASE orderly /\ orderly' /\ Promised
      BY <2>1, PromisedStep
    <2>2. CASE orderly' = FALSE /\ AccountsStay /\ SessionsAreExclusive
      BY <2>2 DEF AccountsStay, SessionsAreExclusive, IInv, TypeOK, OneIdentityPerAccount, Answered
    <2>3. CASE UNCHANGED vars
      BY <2>3 DEF vars, IInv, TypeOK, OneIdentityPerAccount, Answered
    <2> QED
      BY <2>1, <2>2, <2>3 DEF Next
  <1> QED
    BY <1>1, <1>2, PTL DEF Spec

\* No two identities share an account, whatever was cut short or overlapped.
THEOREM AccountsApart == Spec => []OneIdentityPerAccount
  <1>1. IInv => OneIdentityPerAccount
    BY DEF IInv
  <1> QED
    BY Inductive, <1>1, PTL

\* Users and identities of logins correspond one to one while the promise holds.
THEOREM OneAccount == Spec => []OneAccountPerIdentity
  <1>1. IInv => OneAccountPerIdentity
    <2> SUFFICES ASSUME IInv, orderly, NEW r \in Logins, NEW s \in Logins,
                        NEW p \in session[r], NEW q \in session[s]
                 PROVE  p[1] = q[1] <=> p[2] = q[2]
      BY DEF OneAccountPerIdentity
    <2>1. account[p[1]] = {p[2]} /\ account[q[1]] = {q[2]}
      BY DEF IInv, Answered
    <2>2. p[1] \in Identities /\ q[1] \in Identities
      BY DEF IInv, TypeOK
    <2> QED
      BY <2>1, <2>2 DEF IInv, OneIdentityPerAccount
  <1> QED
    BY Inductive, <1>1, PTL
=============================================================================
