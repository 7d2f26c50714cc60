--------------------------- MODULE AccountsProofs ---------------------------
(***************************************************************************)
(* Proofs about Accounts, for any sets of logins and identities.           *)
(*                                                                         *)
(* DirInv says what holds of the collections under every interleaving and   *)
(* every abort; OrderlyInv what holds in addition while first logins have    *)
(* neither overlapped nor been cut short.  IInv, their conjunction with the  *)
(* types, is inductive.                                                     *)
(***************************************************************************)
EXTENDS Accounts, TLAPS

\* A users array holds at most the ProviderInfo its own login saved, and a
\* document exists from the stage that writes it on.
DirInv ==
    /\ \A u \in Logins : /\ providers[u] \subseteq {u}
                         /\ loaded[u] \subseteq {u}
                         /\ providers[u] # {} => u \in infos
    /\ infos \subseteq users
    /\ \A r \in Logins :
         /\ pc[r] \in {"idle", "findInfos"} => found[r] = {}
         /\ pc[r] # "idle" => who[r] \in Identities
         /\ pc[r] \in {"idle", "findInfos", "findUser", "createUser"} => r \notin users
         /\ HalfLinked(r) => r \in users
         /\ pc[r] = "saveInfo" => r \notin infos
         /\ pc[r] \in {"findLink", "saveLink"} => r \in infos /\ providers[r] = {}
         /\ \A x \in found[r] : x \in infos /\ who[x] = who[r]
         /\ Resolved(r) /\ acct[r] # r /\ found[r] # {} => acct[r] \in found[r]

\* While the history is orderly, every user is linked unless its own login is
\* about to link it, an identity has one ProviderInfo, and a first login knows
\* of none.
OrderlyInv ==
    orderly =>
        /\ ~Overlap
        /\ \A u \in users : HalfLinked(u) \/ providers[u] = {u}
        /\ \A x, y \in infos : who[x] = who[y] => x = y
        /\ \A r \in Logins :
             /\ Searching(r) \/ pc[r] \in {"createUser", "saveInfo"} => InfosOf(who[r]) = {}
             /\ Resolved(r) => /\ acct[r] \in infos /\ who[acct[r]] = who[r]
                               /\ providers[acct[r]] = {acct[r]}

IInv == TypeOK /\ DirInv /\ OrderlyInv

-----------------------------------------------------------------------------
(***************************************************************************)
(* Helpers.                                                                *)
(***************************************************************************)

\* A user that carries a non-empty array p is itself the one element of p.
LEMMA MatchIsMember ==
    ASSUME DirInv, NEW p, p # {}, NEW u \in UsersWithProviders(p), users \subseteq Logins
    PROVE  u \in p
  BY DEF DirInv, UsersWithProviders

-----------------------------------------------------------------------------
(***************************************************************************)
(* Types.                                                                  *)
(***************************************************************************)

\* The null check of validate keeps a missing user away from the callback; a new
\* user is in the collection by the time its login links it (DirInv).
LEMMA TypeStep == TypeOK /\ DirInv /\ [Next]_vars => TypeOK'
  <1> SUFFICES ASSUME TypeOK, DirInv, [Next]_vars
               PROVE  TypeOK'
    OBVIOUS
  <1> USE DEF TypeOK, Goto, Stages
  <1>1. ASSUME NEW r \in Logins, LoginStep(r), orderly' = (orderly /\ ~Overlap')
        PROVE  TypeOK'
    <2>0. orderly' \in BOOLEAN
      BY <1>1
    <2>1. ASSUME NEW i \in Identities, Validate(r, i) PROVE TypeOK'
      BY <2>0, <2>1 DEF Validate
    <2>2. CASE FindProviderInfos(r)
      BY <2>0, <2>2 DEF FindProviderInfos, InfosOf
    <2>3. CASE FindExistingUser(r)
      BY <2>0, <2>3 DEF FindExistingUser, UsersWithProviders
    <2>4. CASE FindNoUser(r)
      BY <2>0, <2>4 DEF FindNoUser
    <2>5. CASE CreateUser(r)
      BY <2>0, <2>5 DEF CreateUser
    <2>6. CASE SaveProviderInfo(r)
      BY <2>0, <2>6 DEF SaveProviderInfo
    <2>7. CASE FindUserToLink(r)
      BY <2>0, <2>7 DEF FindUserToLink
    <2>8. CASE SaveLink(r)
      <3>1. r \in users
        BY <2>8 DEF SaveLink, DirInv, HalfLinked
      <3> QED
        BY <2>0, <2>8, <3>1 DEF SaveLink
    <2>9. CASE Callback(r)
      BY <2>0, <2>9 DEF Callback
    <2> QED
      BY <1>1, <2>1, <2>2, <2>3, <2>4, <2>5, <2>6, <2>7, <2>8, <2>9 DEF LoginStep
  <1>2. ASSUME NEW r \in Logins, Abort(r), orderly' = (orderly /\ ~HalfLinked(r))
        PROVE  TypeOK'
    BY <1>2 DEF Abort
  <1>3. CASE UNCHANGED vars
    BY <1>3 DEF vars
  <1> QED
    BY <1>1, <1>2, <1>3 DEF Next

-----------------------------------------------------------------------------
(***************************************************************************)
(* The collections under every interleaving and every abort.               *)
(***************************************************************************)

\* Aborts leave documents behind and take none away; every write of a login is to
\* its own documents.
LEMMA DirStep == TypeOK /\ DirInv /\ [Next]_vars => DirInv'
  <1> SUFFICES ASSUME TypeOK, DirInv, [Next]_vars
               PROVE  DirInv'
    OBVIOUS
  <1> USE DEF TypeOK, DirInv, Goto, Stages, HalfLinked, Resolved
  <1>1. ASSUME NEW r \in Logins, LoginStep(r)
        PROVE  DirInv'
    <2>1. ASSUME NEW i \in Identities, Validate(r, i) PROVE DirInv'
      <3>1. \A x \in infos : x # r
        BY <2>1 DEF Validate
      <3> QED
        BY <2>1, <3>1 DEF Validate
    <2>2. CASE FindProviderInfos(r)
      BY <2>2 DEF FindProviderInfos, InfosOf
    <2>3. CASE FindExistingUser(r)
      <3>1. PICK u \in UsersWithProviders(found[r]) : acct' = [acct EXCEPT ![r] = u]
        BY <2>3 DEF FindExistingUser
      <3>2. found[r] # {} => u \in found[r]
        BY <3>1, MatchIsMember
      <3>3. u \in users
        BY DEF UsersWithProviders
      <3> QED
        BY <2>3, <3>1, <3>2, <3>3 DEF FindExistingUser
    <2>4. CASE FindNoUser(r)
      BY <2>4 DEF FindNoUser
    <2>5. CASE CreateUser(r)
      BY <2>5 DEF CreateUser
    <2>6. CASE SaveProviderInfo(r)
      BY <2>6 DEF SaveProviderInfo
    <2>7. CASE FindUserToLink(r)
      BY <2>7 DEF FindUserToLink
    <2>8. CASE SaveLink(r)
      BY <2>8 DEF SaveLink
    <2>9. CASE Callback(r)
      BY <2>9 DEF Callback
    <2> QED
      BY <1>1, <2>1, <2>2, <2>3, <2>4, <2>5, <2>6, <2>7, <2>8, <2>9 DEF LoginStep
  <1>2. ASSUME NEW r \in Logins, Abort(r)
        PROVE  DirInv'
    BY <1>2 DEF Abort
  <1>3. CASE UNCHANGED vars
    BY <1>3 DEF vars
  <1> QED
    BY <1>1, <1>2, <1>3 DEF Next

-----------------------------------------------------------------------------
(***************************************************************************)
(* Orderly histories.                                                      *)
(***************************************************************************)

\* The part of OrderlyInv that speaks of the state, for histories known orderly.
OrderlyState ==
    /\ \A u \in users : HalfLinked(u) \/ providers[u] = {u}
    /\ \A x, y \in infos : who[x] = who[y] => x = y
    /\ \A r \in Logins :
         /\ Searching(r) \/ pc[r] \in {"createUser", "saveInfo"} => InfosOf(who[r]) = {}
         /\ Resolved(r) => /\ acct[r] \in infos /\ who[acct[r]] = who[r]
                           /\ providers[acct[r]] = {acct[r]}

\* With no other first login about, a search by the empty array finds nothing and
\* a search by a ProviderInfo finds the user that carries it.
LEMMA OrderlyLoginStep ==
    ASSUME TypeOK, DirInv, ~Overlap, OrderlyState,
           NEW r \in Logins, LoginStep(r), ~Overlap'
    PROVE  OrderlyState'
  <1> USE DEF TypeOK, DirInv, OrderlyState, Goto, Stages, HalfLinked, Resolved, Searching
  <1>0. \A s \in Logins : FirstLogin(r) /\ FirstLogin(s) => s = r
    BY DEF Overlap
  <1>1. ASSUME NEW i \in Identities, Validate(r, i) PROVE OrderlyState'
    <2>1. \A x \in users : x # r
      BY <1>1 DEF Validate
    <2>2. \A j : InfosOf(j)' = InfosOf(j)
      BY <1>1, <2>1 DEF Validate, InfosOf
    <2>3. \A s \in Logins : Resolved(s) => s # r /\ acct[s] # r
      BY <1>1, <2>1 DEF Validate
    <2> QED
      BY <1>1, <2>1, <2>2, <2>3 DEF Validate
  <1>2. CASE FindProviderInfos(r)
    <2>1. \A j : InfosOf(j)' = InfosOf(j)
      BY <1>2 DEF FindProviderInfos, InfosOf
    <2> QED
      BY <1>2, <2>1 DEF FindProviderInfos
  <1>3. CASE FindExistingUser(r)
    <2>1. PICK u \in UsersWithProviders(found[r]) : acct' = [acct EXCEPT ![r] = u]
      BY <1>3 DEF FindExistingUser
    <2>2. found[r] # {}
      <3> SUFFICES ASSUME found[r] = {} PROVE FALSE
        OBVIOUS
      <3>1. u \in users /\ providers[u] = {} /\ u # r
        BY <1>3 DEF FindExistingUser, UsersWithProviders
      <3>2. FirstLogin(u) /\ FirstLogin(r)
        BY <1>3, <3>1 DEF FindExistingUser, FirstLogin, Linking
      <3> QED
        BY <1>0, <3>1, <3>2
    <2>3. u \in found[r]
      BY <2>1, <2>2, MatchIsMember
    <2>4. \A j : InfosOf(j)' = InfosOf(j)
      BY <1>3 DEF FindExistingUser, InfosOf
    <2>5. u \in infos /\ who[u] = who[r] /\ providers[u] = {u}
      BY <2>1, <2>3 DEF UsersWithProviders
    <2> QED
      BY <1>3, <2>1, <2>4, <2>5 DEF FindExistingUser
  <1>4. CASE FindNoUser(r)
    <2>1. found[r] = {}
      <3> SUFFICES ASSUME NEW x \in found[r] PROVE FALSE
        OBVIOUS
      <3>1. x \in infos /\ x \in users /\ who[x] = who[r]
        OBVIOUS
      <3>2. found[r] = {x}
        BY <3>1
      <3>3. HalfLinked(x)
        BY <1>4, <3>1, <3>2 DEF FindNoUser, UsersWithProviders
      <3>4. x # r
        BY <1>4, <3>1 DEF FindNoUser
      <3>5. FirstLogin(r)' /\ FirstLogin(x)'
        BY <1>4, <3>3, <3>4 DEF FindNoUser, FirstLogin, Linking
      <3> QED
        BY <3>1, <3>4, <3>5 DEF Overlap
    <2>2. \A j : InfosOf(j)' = InfosOf(j)
      BY <1>4 DEF FindNoUser, InfosOf
    <2> QED
      BY <1>4, <2>1, <2>2 DEF FindNoUser
  <1>5. CASE CreateUser(r)
    <2>1. \A j : InfosOf(j)' = InfosOf(j)
      BY <1>5 DEF CreateUser, InfosOf
    <2> QED
      BY <1>5, <2>1 DEF CreateUser
  <1>6. CASE SaveProviderInfo(r)
    <2>1. \A x \in infos : who[x] # who[r]
      BY <1>6 DEF SaveProviderInfo, InfosOf
    <2>2. \A s \in Logins : Searching(s) \/ pc[s] \in {"createUser", "saveInfo"} => s = r
      BY <1>0, <1>6 DEF SaveProviderInfo, FirstLogin, Linking
    <2> QED
      BY <1>6, <2>1, <2>2 DEF SaveProviderInfo
  <1>7. CASE FindUserToLink(r)
    <2>1. \A j : InfosOf(j)' = InfosOf(j)
      BY <1>7 DEF FindUserToLink, InfosOf
    <2> QED
      BY <1>7, <2>1 DEF FindUserToLink
  <1>8. CASE SaveLink(r)
    <2>1. \A j : InfosOf(j)' = InfosOf(j)
      BY <1>8 DEF SaveLink, InfosOf
    <2> QED
      BY <1>8, <2>1 DEF SaveLink
  <1>9. CASE Callback(r)
    <2>1. \A j : InfosOf(j)' = InfosOf(j)
      BY <1>9 DEF Callback, InfosOf
    <2> QED
      BY <1>9, <2>1 DEF Callback
  <1> QED
    BY <1>1, <1>2, <1>3, <1>4, <1>5, <1>6, <1>7, <1>8, <1>9 DEF LoginStep

\* The history variable says that the lemma above applies, or that it need not.
LEMMA OrderlyStep == TypeOK /\ DirInv /\ OrderlyInv /\ [Next]_vars => OrderlyInv'
  <1> SUFFICES ASSUME TypeOK, DirInv, OrderlyInv, [Next]_vars, orderly'
               PROVE  ~Overlap' /\ OrderlyState'
    BY DEF OrderlyInv, OrderlyState
  <1>1. ASSUME NEW r \in Logins, LoginStep(r), orderly' = (orderly /\ ~Overlap')
        PROVE  ~Overlap' /\ OrderlyState'
    <2>1. ~Overlap' /\ ~Overlap /\ OrderlyState
      BY <1>1 DEF OrderlyInv, OrderlyState, TypeOK
    <2> QED
      BY <1>1, <2>1, OrderlyLoginStep
  <1>2. ASSUME NEW r \in Logins, Abort(r), orderly' = (orderly /\ ~HalfLinked(r))
        PROVE  ~Overlap' /\ OrderlyState'
    <2>1. ~Overlap /\ OrderlyState /\ ~HalfLinked(r)
      BY <1>2 DEF OrderlyInv, OrderlyState, TypeOK
    <2>2. \A j : InfosOf(j)' = InfosOf(j)
      BY <1>2 DEF Abort, InfosOf
    <2>3. \A s \in Logins : FirstLogin(s)' => FirstLogin(s)
      BY <1>2 DEF Abort, Goto, FirstLogin, Searching, Linking, TypeOK
    <2>4. ~Overlap'
      BY <2>1, <2>3 DEF Overlap
    <2>5. OrderlyState'
      BY <1>2, <2>1, <2>2
      DEF Abort, Goto, OrderlyState, HalfLinked, Searching, Resolved, TypeOK, Stages, DirInv
    <2> QED
      BY <2>4, <2>5
  <1>3. CASE UNCHANGED vars
    BY <1>3 DEF vars, OrderlyInv, OrderlyState, Overlap, FirstLogin, Searching, Linking,
                HalfLinked, Resolved, InfosOf
  <1> QED
    BY <1>1, <1>2, <1>3 DEF Next

-----------------------------------------------------------------------------
(***************************************************************************)
(* The theorems.                                                           *)
(***************************************************************************)

\* An empty directory satisfies the invariant.
LEMMA Initially == Init => IInv
  BY DEF Init, IInv, TypeOK, DirInv, OrderlyInv, Overlap, FirstLogin, Searching, Linking,
         HalfLinked, Resolved, InfosOf, Stages

\* The inductive invariant.
LEMMA Inductive == Spec => []IInv
  <1>1. IInv /\ [Next]_vars => IInv'
    BY TypeStep, DirStep, OrderlyStep DEF IInv
  <1> QED
    BY Initially, <1>1, PTL DEF Spec

\* Every variable keeps its type, and a token never names a missing user.
THEOREM AccountsTypeOK == Spec => []TypeOK
  <1>1. IInv => TypeOK
    BY DEF IInv
  <1> QED
    BY Inductive, <1>1, PTL

\* Logins of an identity with a linked account land in that account.
THEOREM KnownLoginsKept == Spec => []KnownLoginsKeepTheirAccount
  <1>1. IInv => KnownLoginsKeepTheirAccount
    BY DEF IInv, DirInv, KnownLoginsKeepTheirAccount
  <1> QED
    BY Inductive, <1>1, PTL

\* In orderly histories accounts and identities correspond one to one.
THEOREM OrderlyOneAccount == Spec => []OneAccountPerIdentity
  <1>1. IInv => OneAccountPerIdentity
    BY DEF IInv, OrderlyInv, OneAccountPerIdentity
  <1> QED
    BY Inductive, <1>1, PTL

-----------------------------------------------------------------------------
(***************************************************************************)
(* What a settled identity is safe from.                                   *)
(***************************************************************************)

\* Only a login on the linking branch writes a ProviderInfo or a users array, and
\* a settled identity has no such login.
LEMMA SettledStep ==
    ASSUME TypeOK, DirInv, [Next]_vars, NEW i \in Identities, Settled(i)
    PROVE  Settled(i)' /\ InfosOf(i)' = InfosOf(i)
  <1> USE DEF TypeOK, DirInv, Goto, Stages, HalfLinked, Linking
  <1>0. PICK u \in users : InfosOf(i) = {u} /\ providers[u] = {u}
    BY DEF Settled
  <1>a. \A r \in Logins : who[r] = i =>
          ~Linking(r) /\ (pc[r] = "findUser" => found[r] = InfosOf(i))
    BY DEF Settled
  <1>u. u \in Logins /\ u \in infos /\ who[u] = i
    BY <1>0 DEF InfosOf
  <1>1. ASSUME NEW r \in Logins, LoginStep(r)
        PROVE  Settled(i)' /\ InfosOf(i)' = InfosOf(i)
    <2>1. ASSUME NEW j \in Identities, Validate(r, j)
          PROVE  Settled(i)' /\ InfosOf(i)' = InfosOf(i)
      <3>1. \A x \in infos : x # r
        BY <2>1 DEF Validate
      <3>2. InfosOf(i)' = InfosOf(i)
        BY <2>1, <3>1 DEF Validate, InfosOf
      <3> QED
        BY <1>0, <1>a, <2>1, <3>2 DEF Validate, Settled
    <2>2. CASE FindProviderInfos(r)
      <3>1. InfosOf(i)' = InfosOf(i)
        BY <2>2 DEF FindProviderInfos, InfosOf
      <3> HIDE DEF DirInv
      <3> QED
        BY <1>0, <1>a, <2>2, <3>1 DEF FindProviderInfos, Settled
    <2>3. CASE FindExistingUser(r)
      <3>1. InfosOf(i)' = InfosOf(i)
        BY <2>3 DEF FindExistingUser, InfosOf
      <3> QED
        BY <1>0, <1>a, <2>3, <3>1 DEF FindExistingUser, Settled
    <2>4. CASE FindNoUser(r)
      <3>1. InfosOf(i)' = InfosOf(i)
        BY <2>4 DEF FindNoUser, InfosOf
      <3>2. who[r] # i
        BY <1>0, <1>a, <2>4 DEF FindNoUser, UsersWithProviders
      <3> QED
        BY <1>0, <1>a, <2>4, <3>1, <3>2 DEF FindNoUser, Settled
    <2>5. CASE CreateUser(r)
      <3>1. InfosOf(i)' = InfosOf(i)
        BY <2>5 DEF CreateUser, InfosOf
      <3> QED
        BY <1>0, <1>a, <2>5, <3>1 DEF CreateUser, Settled
    <2>6. CASE SaveProviderInfo(r)
      <3>1. who[r] # i
        BY <1>a, <2>6 DEF SaveProviderInfo
      <3>2. InfosOf(i)' = InfosOf(i)
        BY <2>6, <3>1 DEF SaveProviderInfo, InfosOf
      <3> QED
        BY <1>0, <1>a, <2>6, <3>1, <3>2 DEF SaveProviderInfo, Settled
    <2>7. CASE FindUserToLink(r)
      <3>1. InfosOf(i)' = InfosOf(i)
        BY <2>7 DEF FindUserToLink, InfosOf
      <3>2. who[r] # i
        BY <1>a, <2>7 DEF FindUserToLink
      <3> QED
        BY <1>0, <1>a, <2>7, <3>1, <3>2 DEF FindUserToLink, Settled
    <2>8. CASE SaveLink(r)
      <3>1. who[r] # i
        BY <1>a, <2>8 DEF SaveLink
      <3>2. InfosOf(i)' = InfosOf(i)
        BY <2>8 DEF SaveLink, InfosOf
      <3>3. u # r
        BY <1>u, <3>1
      <3> QED
        BY <1>0, <1>a, <2>8, <3>1, <3>2, <3>3 DEF SaveLink, Settled
    <2>9. CASE Callback(r)
      <3>1. InfosOf(i)' = InfosOf(i)
        BY <2>9 DEF Callback, InfosOf
      <3> HIDE DEF DirInv
      <3> QED
        BY <1>0, <1>a, <2>9, <3>1 DEF Callback, Settled
    <2> QED
      BY <1>1, <2>1, <2>2, <2>3, <2>4, <2>5, <2>6, <2>7, <2>8, <2>9 DEF LoginStep
  <1>2. ASSUME NEW r \in Logins, Abort(r)
        PROVE  Settled(i)' /\ InfosOf(i)' = InfosOf(i)
    <2>1. InfosOf(i)' = InfosOf(i)
      BY <1>2 DEF Abort, InfosOf
    <2> QED
      BY <1>0, <1>a, <1>2, <2>1 DEF Abort, Settled
  <1>3. CASE UNCHANGED vars
    <2>1. InfosOf(i)' = InfosOf(i)
      BY <1>3 DEF vars, InfosOf
    <2> QED
      BY <1>0, <1>a, <1>3, <2>1 DEF vars, Settled
  <1> QED
    BY <1>1, <1>2, <1>3 DEF Next

\* A user is returned by findOne or by linkProvider: the first matched on an
\* array that names the user, or on none; the second is the login's own.
LEMMA ExclusiveStep ==
    ASSUME TypeOK, DirInv, [Next]_vars,
           NEW r \in Logins, NEW i \in Identities,
           Settled(i), acct[r] = None, acct'[r] # None
    PROVE  acct'[r] \in InfosOf(i) <=> who[r] = i
  <1> USE DEF TypeOK, DirInv, Goto, Stages, HalfLinked, Linking
  <1>0. PICK u \in users : InfosOf(i) = {u} /\ providers[u] = {u}
    BY DEF Settled
  <1>a. \A s \in Logins : who[s] = i =>
          ~Linking(s) /\ (pc[s] = "findUser" => found[s] = InfosOf(i))
    BY DEF Settled
  <1>u. u \in infos /\ who[u] = i
    BY <1>0 DEF InfosOf
  <1>1. PICK s \in Logins : LoginStep(s)
    BY DEF Next, Abort, vars
  <1>2. FindExistingUser(s) \/ SaveLink(s)
    BY <1>1 DEF LoginStep, Validate, FindProviderInfos, FindNoUser, CreateUser,
                SaveProviderInfo, FindUserToLink, Callback
  <1>3. s = r
    BY <1>2 DEF FindExistingUser, SaveLink
  <1>4. CASE FindExistingUser(r)
    <2>1. PICK v \in UsersWithProviders(found[r]) : acct' = [acct EXCEPT ![r] = v]
      BY <1>4 DEF FindExistingUser
    <2>2. acct'[r] = v /\ providers[v] = found[r]
      BY <2>1 DEF UsersWithProviders
    <2>3. found[r] # {} => v \in found[r]
      BY <2>1, MatchIsMember
    <2>4. CASE who[r] = i
      BY <1>0, <1>a, <1>4, <2>2, <2>3, <2>4 DEF FindExistingUser
    <2>5. CASE who[r] # i
      BY <1>0, <1>u, <2>2, <2>3, <2>5
    <2> QED
      BY <2>4, <2>5
  <1>5. CASE SaveLink(r)
    <2>1. acct'[r] = r /\ who[r] # i
      BY <1>5, <1>a DEF SaveLink
    <2> QED
      BY <1>0, <1>u, <2>1
  <1> QED
    BY <1>2, <1>3, <1>4, <1>5

\* A settled identity keeps its ProviderInfo, its user and their link, whatever
\* every other login does.
THEOREM SettledStays == Spec => SettledForever
  <1>1. IInv /\ [Next]_vars =>
          [\A i \in Identities : Settled(i) => Settled(i)' /\ InfosOf(i)' = InfosOf(i)]_vars
    BY SettledStep DEF IInv
  <1> QED
    BY Inductive, <1>1, PTL DEF Spec, SettledForever

\* The user of a settled identity is given to its logins and to no other.
THEOREM SettledExclusive == Spec => SettledAccountIsExclusive
  <1>1. IInv /\ [Next]_vars =>
          [\A r \in Logins, i \in Identities :
             Settled(i) /\ acct[r] = None /\ acct'[r] # None =>
                 (acct'[r] \in InfosOf(i) <=> who[r] = i)]_vars
    BY ExclusiveStep DEF IInv
  <1> QED
    BY Inductive, <1>1, PTL DEF Spec, SettledAccountIsExclusive

-----------------------------------------------------------------------------
(***************************************************************************)
(* The directory.                                                          *)
(***************************************************************************)

\* In an orderly history a user that carries its ProviderInfo settles its identity:
\* nobody else is about to make one, or has missed it in a search.
LEMMA LinkedIsSettled ==
    ASSUME IInv, orderly, NEW u \in Logins, providers[u] = {u}
    PROVE  Settled(who[u]) /\ InfosOf(who[u]) = {u}
  <1>1. u \in infos /\ u \in users
    BY DEF IInv, DirInv
  <1>2. \A x \in infos : who[x] = who[u] => x = u
    BY <1>1 DEF IInv, OrderlyInv
  <1>3. InfosOf(who[u]) = {u}
    BY <1>1, <1>2 DEF InfosOf
  <1>4. ASSUME NEW r \in Logins, who[r] = who[u]
        PROVE  ~Linking(r) /\ (pc[r] = "findUser" => found[r] = {u})
    <2>1. ~Searching(r) /\ pc[r] \notin {"createUser", "saveInfo"}
      BY <1>3, <1>4 DEF IInv, OrderlyInv
    <2>2. pc[r] \notin {"findLink", "saveLink"}
      <3>1. pc[r] \in {"findLink", "saveLink"} => r = u /\ providers[r] = {}
        BY <1>2, <1>4 DEF IInv, DirInv
      <3> QED
        BY <3>1
    <2>3. found[r] \subseteq {u}
      BY <1>2, <1>4 DEF IInv, DirInv
    <2> QED
      BY <2>1, <2>2, <2>3 DEF Linking, Searching
  <1> QED
    BY <1>1, <1>3, <1>4 DEF Settled

\* The users that carry their own ProviderInfo of the identity.
Linked(i) == {u \in Logins : who[u] = i /\ providers[u] = {u}}

\* In an orderly history the account of an identity is whoever carries its ProviderInfo.
LEMMA OrderlyAccount == IInv /\ orderly => \A i \in Identities : AccountOf(i) = Linked(i)
  <1> SUFFICES ASSUME IInv, orderly, NEW i \in Identities
               PROVE  AccountOf(i) = Linked(i)
    OBVIOUS
  <1>1. ASSUME NEW u \in Linked(i)
        PROVE  AccountOf(i) = {u}
    BY <1>1, LinkedIsSettled DEF Linked, AccountOf
  <1>2. ASSUME NEW u \in AccountOf(i)
        PROVE  u \in Linked(i)
    BY <1>2 DEF AccountOf, Settled, InfosOf, Linked, IInv, TypeOK
  <1> QED
    BY <1>1, <1>2

\* A login is answered by its own search or link and by nothing else, and keeps its
\* answer unless it fails.
LEMMA SessionStep ==
    ASSUME TypeOK, DirInv, NEW r \in Logins, LoginStep(r) \/ Abort(r)
    PROVE  /\ \A q \in Logins : q # r => SessionOf(q)' = SessionOf(q)
           /\ \/ SessionOf(r)' = SessionOf(r) /\ LoginStep(r) /\ ~SaveLink(r)
              \/ SessionOf(r)' = {} /\ Abort(r)
              \/ /\ SessionOf(r) = {} /\ acct[r] = None /\ acct'[r] # None
                 /\ who[r] \in Identities /\ acct'[r] \in Logins
                 /\ SessionOf(r)' = {<<who[r], acct'[r]>>}
                 /\ pc'[r] = "callback" /\ who' = who
                 /\ FindExistingUser(r) \/ SaveLink(r)
  <1>1. ASSUME NEW q \in Logins, q # r
        PROVE  SessionOf(q)' = SessionOf(q)
    <2>1. pc'[q] = pc[q] /\ who'[q] = who[q] /\ acct'[q] = acct[q]
      BY <1>1 DEF LoginStep, Validate, FindProviderInfos, FindExistingUser, FindNoUser, CreateUser,
                  SaveProviderInfo, FindUserToLink, SaveLink, Callback, Abort, Goto, TypeOK
    <2> QED
      BY <2>1 DEF SessionOf, Resolved
  <1>2. CASE FindExistingUser(r) \/ SaveLink(r)
    <2>1. /\ pc[r] \notin {"idle", "callback", "done"} /\ pc'[r] = "callback" /\ who' = who
      BY <1>2 DEF FindExistingUser, SaveLink, Goto, TypeOK
    <2>2. acct[r] = None
      BY <2>1 DEF TypeOK
    <2>3. acct'[r] \in Logins
      <3>1. CASE FindExistingUser(r)
        BY <3>1 DEF FindExistingUser, UsersWithProviders, TypeOK
      <3>2. CASE SaveLink(r)
        BY <3>2 DEF SaveLink, TypeOK
      <3> QED
        BY <1>2, <3>1, <3>2
    <2>4. acct'[r] # None /\ who[r] \in Identities
      BY <2>1, <2>3, AccountsAssumption DEF DirInv
    <2> QED
      BY <1>1, <1>2, <2>1, <2>2, <2>3, <2>4 DEF SessionOf, Resolved
  <1>3. CASE \/ FindProviderInfos(r) \/ FindNoUser(r) \/ CreateUser(r) \/ SaveProviderInfo(r)
             \/ FindUserToLink(r) \/ \E i \in Identities : Validate(r, i)
    <2>1. /\ pc'[r] \notin {"callback", "done"} /\ pc[r] \notin {"callback", "done", "saveLink"}
      BY <1>3 DEF FindProviderInfos, FindNoUser, CreateUser, SaveProviderInfo, FindUserToLink,
                  Validate, Goto, TypeOK
    <2>2. LoginStep(r) /\ ~SaveLink(r)
      BY <1>3, <2>1 DEF LoginStep, SaveLink
    <2> QED
      BY <1>1, <2>1, <2>2 DEF SessionOf, Resolved
  <1>4. CASE Callback(r)
    <2>1. /\ pc[r] = "callback" /\ pc'[r] = "done" /\ who' = who /\ acct' = acct
      BY <1>4 DEF Callback, Goto, TypeOK
    <2>2. LoginStep(r) /\ ~SaveLink(r)
      BY <1>4, <2>1 DEF LoginStep, SaveLink
    <2> QED
      BY <1>1, <2>1, <2>2 DEF SessionOf, Resolved
  <1>5. CASE Abort(r)
    BY <1>1, <1>5 DEF Abort, Goto, SessionOf, Resolved, TypeOK
  <1> QED
    BY <1>2, <1>3, <1>4, <1>5 DEF LoginStep

\* Only linking gives an identity its account while the history is orderly.
\* In an orderly history the account of an identity is whoever carries its ProviderInfo.
LEMMA OrderlyAccountsStay ==
    ASSUME IInv, IInv', orderly, orderly', NEW r \in Logins,
           Abort(r) \/ (LoginStep(r) /\ ~SaveLink(r))
    PROVE  [i \in Identities |-> AccountOf(i)]' = [i \in Identities |-> AccountOf(i)]
  <1>1. providers' = providers
    BY DEF Abort, LoginStep, Validate, FindProviderInfos, FindExistingUser, FindNoUser, CreateUser,
           SaveProviderInfo, FindUserToLink, Callback
  <1>2. \A u \in Logins : providers[u] = {u} => who'[u] = who[u]
    <2>1. ASSUME NEW i \in Identities, Validate(r, i), NEW u \in Logins, providers[u] = {u}
          PROVE  who'[u] = who[u]
      <3>1. u \in users /\ r \notin users
        BY <2>1 DEF IInv, DirInv, Validate
      <3> QED
        BY <2>1, <3>1 DEF Validate, IInv, TypeOK
    <2>2. who' = who \/ \E i \in Identities : Validate(r, i)
      BY DEF Abort, LoginStep, FindProviderInfos, FindExistingUser, FindNoUser, CreateUser,
             SaveProviderInfo, FindUserToLink, Callback
    <2> QED
      BY <2>1, <2>2
  <1>3. \A i \in Identities : Linked(i)' = Linked(i)
    BY <1>1, <1>2 DEF Linked
  <1>4. (\A i \in Identities : AccountOf(i) = Linked(i))'
    BY OrderlyAccount, PTL
  <1>5. \A i \in Identities : AccountOf(i)' = AccountOf(i)
    BY <1>3, <1>4, OrderlyAccount
  <1> QED
    BY <1>5

\* In an orderly history a login is answered in one step of the directory: with the
\* account its search found, or by the link that makes one.
LEMMA OrderlyDirectoryStep ==
    ASSUME IInv, IInv', orderly, orderly', NEW r \in Logins, LoginStep(r) \/ Abort(r)
    PROVE  [Dir!Next]_(Dir!vars)
  <1> DEFINE account == [i \in Identities |-> AccountOf(i)]
             session == [q \in Logins |-> SessionOf(q)]
  <1>0. TypeOK /\ DirInv
    BY DEF IInv
  <1>1. \A q \in Logins : q # r => SessionOf(q)' = SessionOf(q)
    BY <1>0, SessionStep
  <1>2. (\A i \in Identities : AccountOf(i) = Linked(i))'
    BY OrderlyAccount, PTL
  <1>3. CASE SessionOf(r)' = SessionOf(r) /\ LoginStep(r) /\ ~SaveLink(r)
    <2>1. account' = account
      BY <1>3, OrderlyAccountsStay
    <2>2. session' = session
      BY <1>1, <1>3
    <2>3. orderly' = orderly
      BY <1>0 DEF TypeOK
    <2> QED
      BY <2>1, <2>2, <2>3 DEF Dir!vars
  <1>4. CASE SessionOf(r)' = {} /\ Abort(r)
    <2>1. account' = account
      BY <1>4, OrderlyAccountsStay
    <2>2. session' = [session EXCEPT ![r] = {}]
      BY <1>1, <1>4
    <2>3. Dir!Leave(r)
      BY <2>1, <2>2 DEF Dir!Leave, Dir!Nothing
    <2> QED
      BY <2>3 DEF Dir!Next, Dir!Promised
  <1>5. ASSUME SessionOf(r) = {}, who[r] \in Identities, who' = who, acct'[r] \in Logins,
               SessionOf(r)' = {<<who[r], acct'[r]>>}, pc'[r] = "callback",
               FindExistingUser(r) \/ SaveLink(r)
        PROVE  Dir!Next
    <2> DEFINE i == who[r]
               u == acct'[r]
    <2>1. session' = [session EXCEPT ![r] = {<<i, u>>}]
      BY <1>1, <1>5
    <2>2. u \in infos' /\ who'[u] = i /\ providers'[u] = {u}
      BY <1>5 DEF IInv, OrderlyInv, Resolved
    <2>3. CASE FindExistingUser(r)
      <3>1. ~SaveLink(r) /\ LoginStep(r) /\ providers' = providers
        BY <2>3 DEF FindExistingUser, SaveLink, LoginStep
      <3>2. AccountOf(i) = {u}
        BY <1>5, <2>2, <3>1, LinkedIsSettled DEF AccountOf
      <3>3. account' = account
        BY <3>1, OrderlyAccountsStay
      <3>4. account' = [account EXCEPT ![i] = {u}]
        BY <3>2, <3>3
      <3>5. Dir!Login(r, i, u)
        BY <1>5, <2>1, <3>2, <3>4 DEF Dir!Login, Dir!Nothing
      <3> QED
        BY <1>5, <3>5 DEF Dir!Next, Dir!Promised
    <2>4. CASE SaveLink(r)
      <3>1. u = r /\ Linking(r) /\ providers' = [providers EXCEPT ![r] = providers'[r]]
        BY <1>0, <2>4 DEF SaveLink, Linking, TypeOK
      <3>2. AccountOf(i) = {}
        BY <1>0, <1>5, <3>1 DEF AccountOf, Settled
      <3>3. \A j \in Identities : r \in AccountOf(j) => j = i
        BY <1>5 DEF AccountOf, InfosOf
      <3>4. \A j \in Identities : Linked(j)' = IF j = i THEN {r} ELSE Linked(j)
        <4>1. Linked(i) = {}
          BY <1>5, <3>2, OrderlyAccount
        <4> QED
          BY <1>0, <1>5, <2>2, <3>1, <4>1 DEF Linked, TypeOK
      <3>5. \A j \in Identities : AccountOf(j)' = IF j = i THEN {r} ELSE AccountOf(j)
        BY <1>2, <3>4, OrderlyAccount
      <3>6. account' = [account EXCEPT ![i] = {u}]
        BY <3>1, <3>5
      <3>7. Dir!Login(r, i, u)
        BY <1>5, <2>1, <3>1, <3>2, <3>3, <3>6 DEF Dir!Login, Dir!Nothing, Dir!Taken
      <3> QED
        BY <1>5, <3>7 DEF Dir!Next, Dir!Promised
    <2> QED
      BY <1>5, <2>3, <2>4
  <1> QED
    BY <1>0, <1>3, <1>4, <1>5, SessionStep

\* In every history a settled identity keeps its account for itself.
LEMMA DisorderlyDirectoryStep ==
    ASSUME IInv, IInv', ~orderly', NEW r \in Logins, LoginStep(r) \/ Abort(r), Next
    PROVE  Dir!Next
  <1> DEFINE account == [i \in Identities |-> AccountOf(i)]
             session == [q \in Logins |-> SessionOf(q)]
  <1>0. TypeOK /\ DirInv
    BY DEF IInv
  <1>1. Dir!AccountsStay
    <2>1. (\A i \in Identities : AccountOf(i) \subseteq InfosOf(i) /\ InfosOf(i) \subseteq Logins)'
      BY DEF AccountOf, InfosOf, IInv, TypeOK
    <2>2. account' \in [Identities -> SUBSET Logins]
      BY <2>1
    <2>3. ASSUME NEW i \in Identities, account[i] # {}
          PROVE  account'[i] = account[i]
      <3>1. Settled(i)
        BY <2>3 DEF AccountOf
      <3>2. Settled(i)' /\ InfosOf(i)' = InfosOf(i)
        BY <1>0, <3>1, SettledStep
      <3> QED
        BY <3>1, <3>2 DEF AccountOf
    <2>4. ASSUME NEW i \in Identities, NEW j \in Identities, i # j
          PROVE  account'[i] \cap account'[j] = {}
      <3>1. InfosOf(i)' \cap InfosOf(j)' = {}
        BY <2>4 DEF InfosOf
      <3> QED
        BY <2>1, <3>1
    <2> QED
      BY <2>2, <2>3, <2>4 DEF Dir!AccountsStay, Dir!Nothing
  <1>2. Dir!SessionsAreExclusive
    <2>1. ASSUME NEW q \in Logins, SessionOf(q)' \in {SessionOf(q), {}}
          PROVE  session'[q] \in {session[q], {}}
      BY <2>1
    <2>2. ASSUME SessionOf(r) = {}, acct[r] = None, acct'[r] # None,
                 who[r] \in Identities, acct'[r] \in Logins,
                 SessionOf(r)' = {<<who[r], acct'[r]>>}
          PROVE  /\ session[r] = {}
                 /\ \E i \in Identities, u \in Logins :
                      session'[r] = {<<i, u>>} /\ Dir!Exclusive(i, u)
      <3>1. Dir!Exclusive(who[r], acct'[r])
        <4> SUFFICES ASSUME NEW j \in Identities, account[j] # {}
                     PROVE  acct'[r] \in account[j] <=> who[r] = j
          BY DEF Dir!Exclusive, Dir!Nothing
        <4>1. Settled(j) /\ account[j] = InfosOf(j)
          BY DEF AccountOf
        <4> QED
          BY <1>0, <2>2, <4>1, ExclusiveStep
      <3> QED
        BY <2>2, <3>1
    <2>3. \A q \in Logins : q # r => SessionOf(q)' = SessionOf(q)
      BY <1>0, SessionStep
    <2>4. session' \in [Logins -> SUBSET (Identities \X Logins)]
      BY DEF SessionOf, Resolved, IInv, TypeOK, DirInv
    <2> QED
      BY <1>0, <2>1, <2>2, <2>3, <2>4, SessionStep DEF Dir!SessionsAreExclusive, Dir!Nothing
  <1>3. orderly' = FALSE
    BY DEF IInv, TypeOK
  <1> QED
    BY <1>1, <1>2, <1>3 DEF Dir!Next

\* A login is one step of the directory in an orderly history, although it takes up
\* to five awaits between which other logins run; and whatever happens, a settled
\* identity keeps its account, and keeps everyone else out of it.
THEOREM DirectoryImplemented == Spec => ImplementsDirectory
  <1>1. Init => Dir!Init
    <2> SUFFICES ASSUME Init
                 PROVE  Dir!Init
      OBVIOUS
    <2>1. \A i \in Identities : AccountOf(i) = {}
      BY DEF Init, AccountOf, Settled
    <2>2. \A r \in Logins : SessionOf(r) = {}
      BY DEF Init, SessionOf, Resolved
    <2> QED
      BY <2>1, <2>2 DEF Dir!Init, Dir!Nothing, Init
  <1>2. IInv /\ IInv' /\ [Next]_vars => [Dir!Next]_(Dir!vars)
    <2> SUFFICES ASSUME IInv, IInv', [Next]_vars
                 PROVE  [Dir!Next]_(Dir!vars)
      OBVIOUS
    <2>1. CASE UNCHANGED vars
      BY <2>1 DEF vars, Dir!vars, AccountOf, SessionOf, Settled, Resolved, InfosOf, Linking
    <2>2. ASSUME NEW r \in Logins, LoginStep(r) \/ Abort(r), orderly' => orderly, Next
          PROVE  [Dir!Next]_(Dir!vars)
      BY <2>2, OrderlyDirectoryStep, DisorderlyDirectoryStep
    <2> QED
      BY <2>1, <2>2 DEF Next
  <1> QED
    BY <1>1, <1>2, Inductive, PTL DEF Spec, ImplementsDirectory, Dir!Spec

\* The two comments that overlapping first logins break hold in orderly histories:
\* an answered login's account is linked to its identity, and the identity leads to
\* a user again.
THEOREM OrderlyLoginsAreLinked ==
    Spec => [](orderly => LinkedIdentityIsFound /\ LoginEndsInLinkedAccount)
  <1>1. IInv => (orderly => LinkedIdentityIsFound /\ LoginEndsInLinkedAccount)
    <2> SUFFICES ASSUME IInv, orderly, NEW r \in Logins, Resolved(r)
                 PROVE  /\ UsersWithProviders(InfosOf(who[r])) # {}
                        /\ \E x \in providers[acct[r]] : who[x] = who[r]
      BY DEF LinkedIdentityIsFound, LoginEndsInLinkedAccount, Resolved
    <2>1. acct[r] \in Logins /\ who[acct[r]] = who[r] /\ providers[acct[r]] = {acct[r]}
      BY DEF IInv, OrderlyInv, TypeOK
    <2>2. Settled(who[r])
      BY <2>1, LinkedIsSettled
    <2> QED
      BY <2>1, <2>2 DEF Settled, UsersWithProviders
  <1> QED
    BY <1>1, Inductive, PTL
=============================================================================
