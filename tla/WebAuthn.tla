------------------------------ MODULE WebAuthn ------------------------------
(***************************************************************************)
(* Security keys: WebAuthnController with the challenge it keeps in Redis,  *)
(* the key documents it keeps in Mongo and the users that carry them.       *)
(*                                                                         *)
(* A user has one challenge in Redis, for registering and for giving a key.  *)
(* A verification reads it, checks the client's response against it, writes  *)
(* and deletes it, with awaits in between; a request occupies a slot until   *)
(* it is answered.  A check that fails before the challenge was accepted     *)
(* changes nothing and is no step.  Redis takes the commands of the process  *)
(* in the order it sends them, over one connection, so a SET that is not     *)
(* awaited is in effect before any later GET unless it fails.                *)
(*                                                                         *)
(* The client is honest: it answers options once, and may send the answer    *)
(* any number of times.  A credential is named by the challenge it was       *)
(* created for.  Its owner is logged in throughout.                          *)
(***************************************************************************)
EXTENDS Naturals

CONSTANTS
    Users,       \* user documents
    Slots,       \* requests in flight at a time
    Challenges,  \* what the options draw at random, each once
    Docs,        \* the _ids of key documents, each used once
    Counts,      \* the signature counters of an authenticator
    None         \* no challenge, no credential, no document, no user

ASSUME WebAuthnAssumption ==
    /\ Counts \subseteq Nat /\ 0 \in Counts
    /\ None \notin Users /\ None \notin Challenges /\ None \notin Docs

RegisterStages == {"saveKey", "findUser", "saveUser", "delRegistered"}
GiveStages == {"findKey", "saveCounter", "delGiven"}
Stages == {"idle", "getChallenge", "sign"} \cup RegisterStages \cup GiveStages

VARIABLES
    challenge,  \* [Users -> the user's challenge in Redis, or None]
    keys,       \* [Users -> the documents user.authenticators refers to]
    cred,       \* [Docs -> credentialID of a saved document, or None]
    counter,    \* [Docs -> its counter]
    passed,     \* [Users -> BOOLEAN]: a JWT was issued with is2FAuthenticated
    job,        \* [Slots -> what the request waits for and what it has read]
    offer,      \* client: [Challenges -> the options that carried it]
    response,   \* client: [Challenges -> the credential and counter it was answered with]
    accepted,   \* history: challenges a verification was let through with
    repeated,   \* history: those that let more than one through
    crossed,    \* history: those let through while another of the user was past its check
    cut,        \* history: those whose verification ended before it deleted a challenge
    standing    \* history: [Users -> the options the user may count on, or None]

redis == <<challenge, standing>>
documents == <<keys, cred, counter>>
client == <<offer, response>>
history == <<accepted, repeated, crossed, cut>>
vars == <<redis, documents, client, history, passed, job>>

-----------------------------------------------------------------------------
\* A request at that stage, before it has read anything.
Request(stage, u, c) ==
    [stage |-> stage, user |-> u, challenge |-> c, doc |-> None,
     had |-> {}, seen |-> 0, verified |-> FALSE]

Free == Request("idle", None, None)

NoOffer == [kind |-> "none", user |-> None]
NoResponse == [cred |-> None, count |-> 0]

Init ==
    /\ challenge = [u \in Users |-> None]
    /\ keys = [u \in Users |-> {}]
    /\ cred = [a \in Docs |-> None]
    /\ counter = [a \in Docs |-> 0]
    /\ passed = [u \in Users |-> FALSE]
    /\ job = [r \in Slots |-> Free]
    /\ offer = [c \in Challenges |-> NoOffer]
    /\ response = [c \in Challenges |-> NoResponse]
    /\ accepted = {} /\ repeated = {} /\ crossed = {} /\ cut = {}
    /\ standing = [u \in Users |-> None]

At(r, stage) == job[r].stage = stage

Finish(r) == job' = [job EXCEPT ![r] = Free]

\* The request of slot r is past the check of the user's challenge and has not
\* deleted a challenge yet.
Past(r, u) == job[r].user = u /\ job[r].stage \in RegisterStages \cup GiveStages

\* The response to challenge c was made, of that kind.
Answered(c, kind) == offer[c].kind = kind /\ response[c] # NoResponse

-----------------------------------------------------------------------------
(***************************************************************************)
(* Options, and what the client makes of them.                             *)
(***************************************************************************)

\* A fresh challenge goes into options of that kind.
Offer(u, c, kind) ==
    /\ offer[c] = NoOffer
    /\ offer' = [offer EXCEPT ![c] = [kind |-> kind, user |-> u]]

\* A slip: the challenge is set only where there is none (NX instead of EX).
SetChallengeIfNone(u, c) ==
    /\ challenge' = [challenge EXCEPT ![u] = IF @ = None THEN c ELSE @]
    /\ standing' = [standing EXCEPT ![u] =
                      IF \E r \in Slots : Past(r, u) THEN None ELSE c]

\* SET replaces whatever challenge the user had, of either kind.  The user may
\* count on it unless a verification is about to delete what it finds.
SetChallenge(u, c) ==
    /\ challenge' = [challenge EXCEPT ![u] = c]
    /\ standing' = [standing EXCEPT ![u] =
                      IF \E r \in Slots : Past(r, u) THEN None ELSE c]

\* generateRegistration: the SET is not awaited.
GenerateRegistration(u, c) ==
    /\ Offer(u, c, "create")
    /\ SetChallenge(u, c)
    /\ UNCHANGED <<documents, passed, job, response, history>>

\* generateAuthentication awaits it.
GenerateAuthentication(u, c) ==
    /\ Offer(u, c, "get")
    /\ SetChallenge(u, c)
    /\ UNCHANGED <<documents, passed, job, response, history>>

Respond(c, k, n) == response' = [response EXCEPT ![c] = [cred |-> k, count |-> n]]

\* The client creates a credential.
Create(c, n) ==
    /\ offer[c].kind = "create" /\ response[c] = NoResponse
    /\ Respond(c, c, n)
    /\ UNCHANGED <<redis, documents, passed, job, offer, history>>

\* An authenticator counts its signatures with a credential, or never does.
Newer(n, m) == n > m \/ (n = 0 /\ m = 0)

\* The client signs with a credential it created for the user, which need not be
\* registered: options that list no key leave the choice to the client.
Sign(c, k, n) ==
    /\ offer[c].kind = "get" /\ response[c] = NoResponse
    /\ Answered(k, "create") /\ offer[k].user = offer[c].user
    /\ \A d \in Challenges : response[d].cred = k => Newer(n, response[d].count)
    /\ Respond(c, k, n)
    /\ UNCHANGED <<redis, documents, passed, job, offer, history>>

-----------------------------------------------------------------------------
(***************************************************************************)
(* Acceptance and the end of a verification.                               *)
(***************************************************************************)

\* A slip: Redis has some challenge for the user, and it is not compared.
ChallengeExists(u, c) == challenge[u] # None

\* The response is to the challenge that Redis has for the user.
ChallengeMatches(u, c) == challenge[u] = c

\* A verification of user u is let through with challenge c: it crosses those of
\* the user that are past their check.
Accept(u, c) ==
    LET others == {job[r].challenge : r \in {q \in Slots : Past(q, u)}}
    IN /\ accepted' = accepted \cup {c}
       /\ repeated' = repeated \cup (accepted \cap {c})
       /\ crossed' = crossed \cup others \cup (IF others = {} THEN {} ELSE {c})
       /\ UNCHANGED cut

\* The request is over with the challenge it was let through with still there.
CutShort(R) ==
    cut' = cut \cup {job[r].challenge : r \in {q \in R : \E u \in Users : Past(q, u)}}

\* A slip: the answer is sent without deleting the challenge.
DelSkipped(u, c) == UNCHANGED redis

\* DEL takes whatever challenge the user has by now.
Del(u, c) ==
    /\ challenge' = [challenge EXCEPT ![u] = None]
    /\ standing' = [standing EXCEPT ![u] = IF @ = c THEN None ELSE @]

-----------------------------------------------------------------------------
(***************************************************************************)
(* Registering a key.                                                      *)
(***************************************************************************)

\* A slip: the Redis key does not name the user.
VerifyRegistrationOfAny(r, u, c) ==
    /\ At(r, "idle")
    /\ Answered(c, "create") /\ \E v \in Users : challenge[v] = c
    /\ job' = [job EXCEPT ![r] = Request("saveKey", u, c)]
    /\ Accept(u, c)
    /\ UNCHANGED <<redis, documents, passed, client>>

\* verifyRegistration, up to authenticator.save().
VerifyRegistration(r, u, c) ==
    /\ At(r, "idle")
    /\ Answered(c, "create") /\ ChallengeMatches(u, c)
    /\ job' = [job EXCEPT ![r] = Request("saveKey", u, c)]
    /\ Accept(u, c)
    /\ UNCHANGED <<redis, documents, passed, client>>

\* A slip: the document is passed on without being saved.
SaveAuthenticatorNot(r, a) ==
    /\ At(r, "saveKey")
    /\ cred[a] = None
    /\ job' = [job EXCEPT ![r].stage = "findUser", ![r].doc = a]
    /\ UNCHANGED <<redis, documents, passed, client, history>>

\* The key document is saved; nobody carries it yet.
SaveAuthenticator(r, a) ==
    /\ At(r, "saveKey")
    /\ cred[a] = None
    /\ cred' = [cred EXCEPT ![a] = response[job[r].challenge].cred]
    /\ counter' = [counter EXCEPT ![a] = response[job[r].challenge].count]
    /\ job' = [job EXCEPT ![r].stage = "findUser", ![r].doc = a]
    /\ UNCHANGED <<redis, keys, passed, client, history>>

\* saveNewAuthenticator loads the user.
FindUser(r) ==
    /\ At(r, "findUser")
    /\ job' = [job EXCEPT ![r].stage = "saveUser", ![r].had = keys[job[r].user]]
    /\ UNCHANGED <<redis, documents, passed, client, history>>

\* A slip: the array is written without Mongoose's version check.
UserUnchecked(r) == TRUE

\* Mongoose writes an array back only to the version it was loaded from.
UserUnchanged(r) == job[r].had = keys[job[r].user]

\* saveNewAuthenticator writes the array, or fails with a VersionError that ends
\* the request.
SaveNewAuthenticator(r) ==
    /\ At(r, "saveUser")
    /\ \/ /\ UserUnchanged(r)
          /\ keys' = [keys EXCEPT ![job[r].user] = job[r].had \cup {job[r].doc}]
          /\ job' = [job EXCEPT ![r] = Request("delRegistered", job[r].user, job[r].challenge)]
          /\ UNCHANGED cut
       \/ /\ ~UserUnchanged(r)
          /\ Finish(r) /\ CutShort({r})
          /\ UNCHANGED keys
    /\ UNCHANGED <<redis, cred, counter, passed, client, accepted, repeated, crossed>>

\* The challenge is deleted and the registration answered.
Registered(r) ==
    /\ At(r, "delRegistered")
    /\ Del(job[r].user, job[r].challenge)
    /\ Finish(r)
    /\ UNCHANGED <<documents, passed, client, history>>

-----------------------------------------------------------------------------
(***************************************************************************)
(* Giving a key.                                                           *)
(***************************************************************************)

\* A slip: the key is looked for among all key documents.
OwnKeyOfAnyone(u, a, k) == cred[a] = k

\* user.authenticators.find: the first document of the credential, here any.
OwnKey(u, a, k) == a \in keys[u] /\ cred[a] = k

\* verifyAuthentication loads the user with its key documents, the counters as
\* they are now.  A request whose credential is not among them fails without an
\* effect.
GetUser(r, u, c, a) ==
    /\ At(r, "idle")
    /\ Answered(c, "get") /\ offer[c].user = u
    /\ OwnKey(u, a, response[c].cred)
    /\ job' = [job EXCEPT ![r] =
                 [stage |-> "getChallenge", user |-> u, challenge |-> c, doc |-> a,
                  had |-> {}, seen |-> counter[a], verified |-> FALSE]]
    /\ UNCHANGED <<redis, documents, passed, client, history>>

\* The challenge is read; a response to another one is refused.
GetChallenge(r) ==
    /\ At(r, "getChallenge")
    /\ \/ /\ ChallengeMatches(job[r].user, job[r].challenge)
          /\ Accept(job[r].user, job[r].challenge)
          /\ job' = [job EXCEPT ![r].stage = "findKey"]
       \/ /\ ~ChallengeMatches(job[r].user, job[r].challenge)
          /\ Finish(r)
          /\ UNCHANGED history
    /\ UNCHANGED <<redis, documents, passed, client>>

\* verifyAuthenticationResponse: the counter is newer, unless neither side counts.
CounterPasses(n, stored) == n > stored \/ (n = 0 /\ stored = 0)

\* A slip: the check uses the document that findById has just loaded.
CounterRefusedFresh(r) ==
    At(r, "findKey") /\ ~CounterPasses(response[job[r].challenge].count, counter[job[r].doc])

\* The library refuses the response for its counter.  It compares with the counter
\* the user's copy had when the request loaded the user.
CounterRefused(r) ==
    At(r, "findKey") /\ ~CounterPasses(response[job[r].challenge].count, job[r].seen)

\* findById loads the document again.  The check of the counter comes before that of
\* the signature, which is right or wrong.
FindAuthenticator(r) ==
    /\ At(r, "findKey")
    /\ \/ /\ ~CounterRefused(r)
          /\ \E verified \in BOOLEAN :
                job' = [job EXCEPT ![r].stage = "saveCounter", ![r].seen = counter[job[r].doc],
                                   ![r].verified = verified]
          /\ UNCHANGED cut
       \/ /\ CounterRefused(r)
          /\ Finish(r) /\ CutShort({r})
    /\ UNCHANGED <<redis, documents, passed, client, accepted, repeated, crossed>>

\* The counter is dealt with; what the signature said goes into the token.
AwaitDel(r) ==
    job' = [job EXCEPT ![r] = [Request("delGiven", job[r].user, job[r].challenge) EXCEPT
                                 !.verified = job[r].verified]]

\* A slip: a wrong signature sets the counter back.
SaveCounterAnyway(r) ==
    /\ At(r, "saveCounter")
    /\ counter' = [counter EXCEPT ![job[r].doc] =
                     IF job[r].verified THEN response[job[r].challenge].count ELSE 0]
    /\ AwaitDel(r)
    /\ UNCHANGED <<redis, keys, cred, passed, client, history>>

\* save() writes the counter if the signature was right and the loaded document
\* has another one; user.save() finds nothing to write.
SaveCounter(r) ==
    LET n == response[job[r].challenge].count
    IN /\ At(r, "saveCounter")
       /\ counter' = IF job[r].verified /\ n # job[r].seen
                     THEN [counter EXCEPT ![job[r].doc] = n] ELSE counter
       /\ AwaitDel(r)
       /\ UNCHANGED <<redis, keys, cred, passed, client, history>>

\* The challenge is deleted, whether the signature was right or not.
Given(r) ==
    /\ At(r, "delGiven")
    /\ Del(job[r].user, job[r].challenge)
    /\ job' = [job EXCEPT ![r] = [Request("sign", job[r].user, None) EXCEPT
                                     !.verified = job[r].verified]]
    /\ UNCHANGED <<documents, passed, client, history>>

\* The token says whether the signature was right.
IssueToken(r) ==
    /\ At(r, "sign")
    /\ passed' = [passed EXCEPT ![job[r].user] = @ \/ job[r].verified]
    /\ Finish(r)
    /\ UNCHANGED <<redis, documents, client, history>>

-----------------------------------------------------------------------------
(***************************************************************************)
(* Failures.                                                               *)
(***************************************************************************)

\* Redis drops a challenge after 600 seconds, whatever is in flight.
Expire(u) ==
    /\ challenge[u] # None
    /\ challenge' = [challenge EXCEPT ![u] = None]
    /\ standing' = [standing EXCEPT ![u] = None]
    /\ UNCHANGED <<documents, passed, client, history, job>>

\* Mongo, Redis or the connection fails the request.
Abort(r) ==
    /\ ~At(r, "idle")
    /\ Finish(r) /\ CutShort({r})
    /\ UNCHANGED <<redis, documents, passed, client, accepted, repeated, crossed>>

\* The process goes down with the requests in flight.
Down ==
    /\ job' = [r \in Slots |-> Free]
    /\ CutShort(Slots)
    /\ UNCHANGED <<documents, passed, accepted, repeated, crossed>>

Crash ==
    /\ \E r \in Slots : ~At(r, "idle")
    /\ Down
    /\ UNCHANGED <<redis, client>>

\* The SET that generateRegistration does not await is refused after the options
\* were answered: nothing handles the rejection, and the process goes down.
RejectedSet(u, c) ==
    /\ Offer(u, c, "create")
    /\ Down
    /\ standing' = [standing EXCEPT ![u] = None]
    /\ UNCHANGED <<challenge, response>>

-----------------------------------------------------------------------------
RequestStep(r) ==
    \/ \E u \in Users, c \in Challenges :
         \/ VerifyRegistration(r, u, c)
         \/ \E a \in Docs : GetUser(r, u, c, a)
    \/ \E a \in Docs : SaveAuthenticator(r, a)
    \/ FindUser(r) \/ SaveNewAuthenticator(r) \/ Registered(r)
    \/ GetChallenge(r) \/ FindAuthenticator(r) \/ SaveCounter(r) \/ Given(r) \/ IssueToken(r)
    \/ Abort(r)

ClientStep(c) == \E n \in Counts : Create(c, n) \/ \E k \in Challenges : Sign(c, k, n)

OptionsStep(u, c) ==
    GenerateRegistration(u, c) \/ GenerateAuthentication(u, c) \/ RejectedSet(u, c)

Next ==
    \/ \E r \in Slots : RequestStep(r)
    \/ \E c \in Challenges : ClientStep(c) \/ \E u \in Users : OptionsStep(u, c)
    \/ \E u \in Users : Expire(u)
    \/ Crash

Spec == Init /\ [][Next]_vars

-----------------------------------------------------------------------------
(***************************************************************************)
(* Properties.                                                             *)
(***************************************************************************)

Jobs == [stage : Stages, user : Users \cup {None}, challenge : Challenges \cup {None},
         doc : Docs \cup {None}, had : SUBSET Docs, seen : Counts, verified : BOOLEAN]

\* A request has the user, the challenge and the saved document its stage works on.
HasItsItems(j) ==
    /\ j.stage # "idle" => j.user \in Users
    /\ j.stage \notin {"idle", "sign"} => j.challenge \in Challenges
    /\ j.stage \in {"findUser", "saveUser", "getChallenge", "findKey", "saveCounter"} =>
         j.doc \in Docs /\ cred[j.doc] # None

\* Every variable has its type, and a request has what it works on:
\* authenticatorDocument is never null where its counter is written.
TypeOK ==
    /\ challenge \in [Users -> Challenges \cup {None}]
    /\ keys \in [Users -> SUBSET Docs]
    /\ cred \in [Docs -> Challenges \cup {None}]
    /\ counter \in [Docs -> Counts]
    /\ passed \in [Users -> BOOLEAN]
    /\ job \in [Slots -> Jobs]
    /\ \A r \in Slots : HasItsItems(job[r])
    /\ offer \in [Challenges -> [kind : {"none", "create", "get"}, user : Users \cup {None}]]
    /\ response \in [Challenges -> [cred : Challenges \cup {None}, count : Counts]]
    /\ accepted \subseteq Challenges /\ repeated \subseteq Challenges
    /\ crossed \subseteq Challenges /\ cut \subseteq Challenges
    /\ standing \in [Users -> Challenges \cup {None}]

\* A key of a user is a saved document, of a credential created for one of that
\* user's registrations: no key is shared, none is missing its document.
KeysAreOwn ==
    \A u \in Users : \A a \in keys[u] :
        cred[a] # None /\ offer[cred[a]] = [kind |-> "create", user |-> u]

\* No registration takes a key from a user, though each writes the whole array
\* it has read (saveNewAuthenticator).
KeysStay == [][\A u \in Users : keys[u] \subseteq keys'[u]]_vars

\* The options the user got last can still be answered: their challenge is in
\* Redis until it expires or is used, unless a verification of an earlier one was
\* past its check when they were made, and deletes what it finds.
OptionsStand == \A u \in Users : standing[u] # None => challenge[u] = standing[u]

\* A challenge that has let a verification through lets no other through once that
\* one is answered: it is in Redis again only while one is on its way, or after
\* one was cut short.
AcceptedIsUsedUp ==
    \A u \in Users : challenge[u] \in accepted =>
        \/ challenge[u] \in cut
        \/ \E r \in Slots : Past(r, u) /\ job[r].challenge = challenge[u]

\* A credential has a second document only if a verification of its registration
\* crossed another of the user, whatever that one's challenge, or was cut short.
OneDocPerCredential ==
    \A a, b \in Docs : a # b /\ cred[a] # None /\ cred[a] = cred[b] =>
        cred[a] \in crossed \cup cut

\* The responses of a credential are let through in the order it signed them: one
\* challenge at a time sees to that, whatever becomes of the stored counters.
AcceptedInOrder ==
    [][\A r \in Slots : At(r, "getChallenge") /\ At(r, "findKey")' =>
         \A d \in accepted \ {job[r].challenge} :
            response[d].cred = response[job[r].challenge].cred =>
                Newer(response[job[r].challenge].count, response[d].count)]_vars

\* An honest response is refused for its counter only when that very response has
\* been let through more than once: neither counters saved meanwhile or in the other
\* order nor documents of one credential with different counters lock a user out.
CounterRefusesOnlyRepeats ==
    \A r \in Slots : CounterRefused(r) => job[r].challenge \in repeated

\* A stored counter goes back only when a verification writes it that crossed
\* another of its user.
CounterGoesBackOnlyCrossed ==
    [][\A a \in Docs : counter'[a] < counter[a] =>
         \E r \in Slots : job[r].doc = a /\ job[r].challenge \in crossed]_vars

\* The promise of the second factor, for users who prove it with security keys.
SF == INSTANCE SecondFactor WITH
        enrolled <- {},
        keyed <- {u \in Users : keys[u] # {}},
        enabled <- {},
        passed <- {u \in Users : passed[u]}

\* Every step is one of SecondFactor or changes nothing of it: a token says that
\* the second factor was given only for a user with a registered key.
ImplementsSecondFactor == SF!Spec
=============================================================================
