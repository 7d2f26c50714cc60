------------------------------ MODULE Accounts ------------------------------
(***************************************************************************)
(* Provider logins and the user directory: what GoogleStrategy.validate and *)
(* GithubStrategy.validate do to the Mongo collections "users" and          *)
(* "providerinfos" through UserService, with any number of login callbacks  *)
(* in flight.  Every await on Mongo is a step of its own, so other logins   *)
(* run between a query and the write that was decided on it.                *)
(*                                                                         *)
(* A login creates at most one user and at most one ProviderInfo: both are  *)
(* named by the login that created them, which makes ids fresh as Mongo's   *)
(* are.  An identity stands for a pair (provider, profile id): the key that *)
(* findUserByProviderId searches the ProviderInfo collection with.          *)
(***************************************************************************)
EXTENDS Naturals, FiniteSets

CONSTANTS
    Logins,      \* login callbacks, and the users and ProviderInfos they create
    Identities,  \* provider identities: (provider, profile id)
    None         \* no identity yet, no user

ASSUME AccountsAssumption == None \notin Logins /\ None \notin Identities

VARIABLES
    pc,         \* [Logins -> Stages]: the await a login stands at
    who,        \* the identity the provider reported to a login
    found,      \* the array p of findUserByProviderId
    loaded,     \* the providers array linkProvider has read
    acct,       \* the user that validate returned, and the JWT names
    users,      \* the users collection
    infos,      \* the ProviderInfo collection
    providers,  \* the providers array of each user
    orderly     \* history: first logins ran one at a time, none was cut short

vars == <<pc, who, found, loaded, acct, users, infos, providers, orderly>>

Stages == {"idle", "findInfos", "findUser", "createUser", "saveInfo",
           "findLink", "saveLink", "callback", "done", "failed"}

-----------------------------------------------------------------------------
(***************************************************************************)
(* State predicates.                                                       *)
(***************************************************************************)

\* The ProviderInfo documents that match an identity's id and provider name.
InfosOf(i) == {x \in infos : who[x] = i}

\* A slip: the array is searched with $all, so the empty array matches everyone.
UsersHavingProviders(p) == {u \in users : p \subseteq providers[u]}

\* The users whose providers array equals p.  For the empty array this is
\* every user that has no provider linked.
UsersWithProviders(p) == {u \in users : providers[u] = p}

\* The login has seen no ProviderInfo of its identity and is about to search
\* for a user by the empty array.
Searching(r) == pc[r] = "findUser" /\ found[r] = {}

\* The login is on the branch of validate that makes a user and links it.
Linking(r) == pc[r] \in {"createUser", "saveInfo", "findLink", "saveLink"}

FirstLogin(r) == Searching(r) \/ Linking(r)

Overlap == \E r, s \in Logins : r # s /\ FirstLogin(r) /\ FirstLogin(s)

\* The user document exists and does not carry its ProviderInfo yet.
HalfLinked(r) == pc[r] \in {"saveInfo", "findLink", "saveLink"}

-----------------------------------------------------------------------------
Init ==
    /\ pc = [r \in Logins |-> "idle"]
    /\ who = [r \in Logins |-> None]
    /\ found = [r \in Logins |-> {}]
    /\ loaded = [r \in Logins |-> {}]
    /\ acct = [r \in Logins |-> None]
    /\ users = {}
    /\ infos = {}
    /\ providers = [r \in Logins |-> {}]
    /\ orderly = TRUE

Goto(r, stage) == pc' = [pc EXCEPT ![r] = stage]

\* The provider redirects the browser to the callback route, the guard runs the
\* strategy and passport calls validate with the profile of identity i.
Validate(r, i) ==
    /\ pc[r] = "idle"
    /\ who' = [who EXCEPT ![r] = i]
    /\ Goto(r, "findInfos")
    /\ UNCHANGED <<found, loaded, acct, users, infos, providers>>

\* A slip: the ProviderInfos are not searched by the profile id.
FindAnyProviderInfos(r) ==
    /\ pc[r] = "findInfos"
    /\ found' = [found EXCEPT ![r] = infos]
    /\ Goto(r, "findUser")
    /\ UNCHANGED <<who, loaded, acct, users, infos, providers>>

\* findUserByProviderId, first query: the ProviderInfos of the identity.
FindProviderInfos(r) ==
    /\ pc[r] = "findInfos"
    /\ found' = [found EXCEPT ![r] = InfosOf(who[r])]
    /\ Goto(r, "findUser")
    /\ UNCHANGED <<who, loaded, acct, users, infos, providers>>

\* A slip: validate does not check that findOne returned a user.
FindUserUnchecked(r) ==
    /\ pc[r] = "findUser"
    /\ \E u \in UsersWithProviders(found[r]) \cup {None} : acct' = [acct EXCEPT ![r] = u]
    /\ Goto(r, "callback")
    /\ UNCHANGED <<who, found, loaded, users, infos, providers>>

\* findUserByProviderId, second query, with a match: findOne returns one of the
\* users whose array equals p, and validate returns it.
FindExistingUser(r) ==
    /\ pc[r] = "findUser"
    /\ \E u \in UsersWithProviders(found[r]) : acct' = [acct EXCEPT ![r] = u]
    /\ Goto(r, "callback")
    /\ UNCHANGED <<who, found, loaded, users, infos, providers>>

\* A slip: validate makes a user whether or not one was found.
FindNoUserUnguarded(r) ==
    /\ pc[r] = "findUser"
    /\ Goto(r, "createUser")
    /\ UNCHANGED <<who, found, loaded, acct, users, infos, providers>>

\* findUserByProviderId, second query, without a match: validate turns to the
\* branch that makes a user.
FindNoUser(r) ==
    /\ pc[r] = "findUser"
    /\ UsersWithProviders(found[r]) = {}
    /\ Goto(r, "createUser")
    /\ UNCHANGED <<who, found, loaded, acct, users, infos, providers>>

\* createUser: a user document with an empty providers array.
CreateUser(r) ==
    /\ pc[r] = "createUser"
    /\ users' = users \cup {r}
    /\ Goto(r, "saveInfo")
    /\ UNCHANGED <<who, found, loaded, acct, infos, providers>>

\* linkProvider: the ProviderInfo is saved before the user is touched.
SaveProviderInfo(r) ==
    /\ pc[r] = "saveInfo"
    /\ infos' = infos \cup {r}
    /\ Goto(r, "findLink")
    /\ UNCHANGED <<who, found, loaded, acct, users, providers>>

\* linkProvider: findById.  The user was created by this very login and nothing
\* deletes users, so the early return for a missing user cannot be taken.
FindUserToLink(r) ==
    /\ pc[r] = "findLink"
    /\ loaded' = [loaded EXCEPT ![r] = providers[r]]
    /\ Goto(r, "saveLink")
    /\ UNCHANGED <<who, found, acct, users, infos, providers>>

\* A slip: linkProvider changes the array and does not save the user.
SaveLinkUnsaved(r) ==
    /\ pc[r] = "saveLink"
    /\ acct' = [acct EXCEPT ![r] = r]
    /\ Goto(r, "callback")
    /\ UNCHANGED <<who, found, loaded, users, infos, providers>>

\* linkProvider: the array read plus the new ProviderInfo is written back, and
\* validate returns the new user.
SaveLink(r) ==
    /\ pc[r] = "saveLink"
    /\ providers' = [providers EXCEPT ![r] = loaded[r] \cup {r}]
    /\ acct' = [acct EXCEPT ![r] = r]
    /\ Goto(r, "callback")
    /\ UNCHANGED <<who, found, loaded, users, infos>>

\* The callback handler signs a token for the user and sets the cookie.
Callback(r) ==
    /\ pc[r] = "callback"
    /\ Goto(r, "done")
    /\ UNCHANGED <<who, found, loaded, acct, users, infos, providers>>

\* A Mongo call of the login rejects, or the process goes down: validate throws
\* or is lost, the browser gets an error, and what was written stays.
Abort(r) ==
    /\ pc[r] \notin {"idle", "done", "failed"}
    /\ Goto(r, "failed")
    /\ acct' = [acct EXCEPT ![r] = None]
    /\ UNCHANGED <<who, found, loaded, users, infos, providers>>

LoginStep(r) ==
    \/ \E i \in Identities : Validate(r, i)
    \/ FindProviderInfos(r)
    \/ FindExistingUser(r)
    \/ FindNoUser(r)
    \/ CreateUser(r)
    \/ SaveProviderInfo(r)
    \/ FindUserToLink(r)
    \/ SaveLink(r)
    \/ Callback(r)

\* The history variable is lowered by a step after which two first logins
\* overlap, and by an abort that leaves a user half linked.
Next ==
    \E r \in Logins :
        \/ LoginStep(r) /\ orderly' = (orderly /\ ~Overlap')
        \/ Abort(r) /\ orderly' = (orderly /\ ~HalfLinked(r))

Spec == Init /\ [][Next]_vars

-----------------------------------------------------------------------------
(***************************************************************************)
(* Properties.                                                             *)
(***************************************************************************)

\* Every variable has its type, a token names an existing user, and only a login
\* that has resolved its user carries one: validate never returns a missing user
\* to the callback (the null check on currentUser in both strategies).
TypeOK ==
    /\ pc \in [Logins -> Stages]
    /\ who \in [Logins -> Identities \cup {None}]
    /\ found \in [Logins -> SUBSET Logins]
    /\ loaded \in [Logins -> SUBSET Logins]
    /\ acct \in [Logins -> Logins \cup {None}]
    /\ users \subseteq Logins
    /\ infos \subseteq Logins
    /\ providers \in [Logins -> SUBSET Logins]
    /\ orderly \in BOOLEAN
    /\ \A r \in Logins :
         IF pc[r] \in {"callback", "done"} THEN acct[r] \in users
                                           ELSE acct[r] = None

Resolved(r) == pc[r] \in {"callback", "done"}

\* A login that found ProviderInfos of its identity and then a user carrying
\* them gets a user made for that identity, whatever the other logins and the
\* aborts did meanwhile: only the search by an empty array can go wrong.
KnownLoginsKeepTheirAccount ==
    \A r \in Logins :
        Resolved(r) /\ acct[r] # r /\ found[r] # {} => who[acct[r]] = who[r]

\* The directory's promise, for the histories in which it can be kept: if first
\* logins never overlapped and none was cut short after createUser, two logins
\* share an account exactly when they share an identity.
OneAccountPerIdentity ==
    orderly => \A r, s \in Logins :
        Resolved(r) /\ Resolved(s) => (acct[r] = acct[s] <=> who[r] = who[s])

\* The identity has one ProviderInfo, one user carries exactly that, and no
\* login of the identity is past a search that missed it.
Settled(i) ==
    /\ \E u \in users : InfosOf(i) = {u} /\ providers[u] = {u}
    /\ \A r \in Logins : who[r] = i =>
         /\ ~Linking(r)
         /\ pc[r] = "findUser" => found[r] = InfosOf(i)

\* Once an identity is settled it stays so with the same user, whatever happens
\* to the logins of every other identity, overlapping and aborts included.
SettledForever ==
    [][\A i \in Identities :
         Settled(i) => Settled(i)' /\ InfosOf(i)' = InfosOf(i)]_vars

\* A login that resolves while its identity is settled gets the identity's own
\* user, and a login of any other identity never does.
SettledAccountIsExclusive ==
    [][\A r \in Logins, i \in Identities :
         Settled(i) /\ acct[r] = None /\ acct'[r] # None =>
             (acct'[r] \in InfosOf(i) <=> who[r] = i)]_vars

\* The account of an identity, and what a login is answered with.
AccountOf(i) == IF Settled(i) THEN InfosOf(i) ELSE {}
SessionOf(r) == IF Resolved(r) THEN {<<who[r], acct[r]>>} ELSE {}

Dir == INSTANCE Directory WITH
         Users <- Logins,
         account <- [i \in Identities |-> AccountOf(i)],
         session <- [r \in Logins |-> SessionOf(r)]

\* While the history is orderly the two queries and three writes of a login amount
\* to one step: it finds the account of its identity or makes it, whatever other
\* logins do between its awaits.  Afterwards settled identities keep this much:
\* their account, and nobody else in it.
ImplementsDirectory == Dir!Spec

\* What "link them" (github.strategy.ts, google.strategy.ts) asks of the branch
\* that makes a user: once such a login is answered and no other login of the
\* identity is linking, the identity leads to a user again.
LinkedIdentityIsFound ==
    \A r \in Logins :
        /\ pc[r] = "done" /\ acct[r] = r
        /\ \A s \in Logins : who[s] = who[r] => ~Linking(s)
        => UsersWithProviders(InfosOf(who[r])) # {}

\* What the names of the two branches say of a login: a user that findUserByProviderId
\* returns, which nothing links afterwards, carries that provider id already, and a
\* user that is made is linked to it ("link them").
LoginEndsInLinkedAccount ==
    \A r \in Logins : Resolved(r) => \E x \in providers[acct[r]] : who[x] = who[r]
=============================================================================
