--------------------------- MODULE WebAuthnProofs ---------------------------
(***************************************************************************)
(* Proofs about WebAuthn, for any sets of users, slots, challenges,         *)
(* documents and counts.                                                    *)
(*                                                                         *)
(* What keeps the responses of a credential in order is the challenge, not   *)
(* the counter: a response is let through only while its challenge is the    *)
(* user's, and a response made later is to a later challenge (OrderInv).     *)
(* What keeps a challenge from being used twice is that the verification it  *)
(* let through deletes it, or was cut short, or is still past its check when *)
(* the other comes (AcceptedIsUsedUp with CrossInv).                         *)
(***************************************************************************)
EXTENDS WebAuthn, TLAPS

\* Who got which options, and what the client made of them.
ClientInv ==
    /\ \A c \in Challenges :
         /\ offer[c].kind # "none" => offer[c].user \in Users
         /\ response[c] # NoResponse =>
              /\ response[c].cred \in Challenges
              /\ Answered(response[c].cred, "create")
              /\ offer[response[c].cred].user = offer[c].user
              /\ offer[c].kind \in {"create", "get"}
              /\ offer[c].kind = "create" => response[c].cred = c
    /\ \A u \in Users : challenge[u] # None =>
         offer[challenge[u]].user = u /\ offer[challenge[u]].kind # "none"

\* A request works on a response of its user and kind, let through or not, and on
\* a document of the response's credential.
JobFacts(j) ==
    /\ j.stage \in RegisterStages => Answered(j.challenge, "create") /\ j.challenge \in accepted
    /\ j.stage \in GiveStages \cup {"getChallenge"} => Answered(j.challenge, "get")
    /\ j.stage \in GiveStages => j.challenge \in accepted
    /\ j.stage \notin {"idle", "sign"} => offer[j.challenge].user = j.user
    /\ j.stage \in {"findUser", "saveUser", "getChallenge", "findKey", "saveCounter"} =>
         cred[j.doc] = response[j.challenge].cred
    /\ j.stage \in GiveStages \cup {"getChallenge", "sign"} => keys[j.user] # {}

JobInv ==
    /\ \A c \in accepted : response[c] # NoResponse
    /\ \A r \in Slots : JobFacts(job[r])

\* Documents are of credentials that were registered, with a counter that some
\* response of the credential had that was let through.
DocInv ==
    /\ \A a \in Docs : cred[a] # None =>
         /\ Answered(cred[a], "create") /\ cred[a] \in accepted
         /\ \E d \in accepted : response[d].cred = cred[a] /\ response[d].count = counter[a]
    /\ \A a \in Docs : cred[a] = None => counter[a] = 0

\* A verification past its check deletes the options the user counts on only if
\* it was let through with them.
StandInv ==
    \A r \in Slots, u \in Users :
        Past(r, u) /\ standing[u] # None => job[r].challenge = standing[u]

\* Two verifications of a user that are past their checks have crossed.
CrossInv ==
    \A r, q \in Slots, u \in Users :
        r # q /\ Past(r, u) /\ Past(q, u) => job[r].challenge \in crossed

\* A registration that is about to save a document for a credential that has one
\* was let through with a challenge used before.
SaveInv ==
    \A r \in Slots, b \in Docs :
        At(r, "saveKey") /\ cred[b] = job[r].challenge => job[r].challenge \in crossed \cup cut

\* The response to the user's challenge, once made, is newer than those of its
\* credential that were let through before.
OrderInv ==
    \A u \in Users : challenge[u] # None =>
        \A d \in accepted \ {challenge[u]} :
            response[challenge[u]] # NoResponse
                /\ response[d].cred = response[challenge[u]].cred =>
              Newer(response[challenge[u]].count, response[d].count)

\* So is the response of a verification past its check, unless it crossed another.
GiveInv ==
    \A r \in Slots : job[r].stage \in {"findKey", "saveCounter"} =>
        \A d \in accepted \ {job[r].challenge} :
            response[d].cred = response[job[r].challenge].cred =>
                \/ Newer(response[job[r].challenge].count, response[d].count)
                \/ job[r].challenge \in crossed

\* The counter a request has seen was that of a response let through.
SeenInv ==
    \A r \in Slots : At(r, "getChallenge") =>
        \E d \in accepted :
            /\ response[d].cred = response[job[r].challenge].cred
            /\ response[d].count = job[r].seen

IInv ==
    /\ TypeOK /\ ClientInv /\ JobInv /\ DocInv /\ KeysAreOwn
    /\ OptionsStand /\ StandInv
    /\ CrossInv /\ AcceptedIsUsedUp /\ SaveInv /\ OneDocPerCredential
    /\ OrderInv /\ GiveInv /\ SeenInv /\ CounterRefusesOnlyRepeats

-----------------------------------------------------------------------------
(***************************************************************************)
(* What the steps do to the jobs.                                          *)
(***************************************************************************)

Rec(s, u, c, a, h, n, v) ==
    [stage |-> s, user |-> u, challenge |-> c, doc |-> a, had |-> h, seen |-> n, verified |-> v]

\* Slot r has job j from now on, and the others keep theirs.
Put(r, j) ==
    /\ job' = [q \in Slots |-> job'[q]]
    /\ job'[r] = j
    /\ \A q \in Slots : q # r => job'[q] = job[q]

\* The usual form of a step of one slot is such a change.
LEMMA PutFromExcept ==
    ASSUME TypeOK, NEW r \in Slots, NEW j, job' = [job EXCEPT ![r] = j]
    PROVE  Put(r, j)
  BY DEF Put, TypeOK

\* A request that is over leaves an idle slot.
LEMMA FinishPuts ==
    ASSUME TypeOK, NEW r \in Slots, Finish(r)
    PROVE  Put(r, Rec("idle", None, None, None, {}, 0, FALSE))
  BY PutFromExcept DEF Finish, Free, Request, Rec

\* The jobs after each step of a request that goes on.
LEMMA RegisterPuts ==
    ASSUME TypeOK, NEW r \in Slots
    PROVE  /\ \A u, c : VerifyRegistration(r, u, c) =>
                Put(r, Rec("saveKey", u, c, None, {}, 0, FALSE))
           /\ \A a : SaveAuthenticator(r, a) =>
                Put(r, Rec("findUser", job[r].user, job[r].challenge, a,
                           job[r].had, job[r].seen, job[r].verified))
           /\ FindUser(r) =>
                Put(r, Rec("saveUser", job[r].user, job[r].challenge, job[r].doc,
                           keys[job[r].user], job[r].seen, job[r].verified))
           /\ SaveNewAuthenticator(r) =>
                \/ /\ UserUnchanged(r)
                   /\ keys' = [keys EXCEPT ![job[r].user] = job[r].had \cup {job[r].doc}]
                   /\ cut' = cut
                   /\ Put(r, Rec("delRegistered", job[r].user, job[r].challenge,
                                 None, {}, 0, FALSE))
                \/ Finish(r) /\ CutShort({r}) /\ keys' = keys
  <1>0. job \in [Slots -> Jobs] /\ job[r] \in Jobs
    BY DEF TypeOK
  <1>1. ASSUME NEW u, NEW c, VerifyRegistration(r, u, c)
        PROVE  Put(r, Rec("saveKey", u, c, None, {}, 0, FALSE))
    BY <1>1, PutFromExcept DEF VerifyRegistration, Request, Rec
  <1>2. ASSUME NEW a, SaveAuthenticator(r, a)
        PROVE  Put(r, Rec("findUser", job[r].user, job[r].challenge, a,
                          job[r].had, job[r].seen, job[r].verified))
    BY <1>0, <1>2 DEF SaveAuthenticator, Put, Jobs, Rec
  <1>3. ASSUME FindUser(r)
        PROVE  Put(r, Rec("saveUser", job[r].user, job[r].challenge, job[r].doc,
                          keys[job[r].user], job[r].seen, job[r].verified))
    BY <1>0, <1>3 DEF FindUser, Put, Jobs, Rec
  <1>4. ASSUME SaveNewAuthenticator(r)
        PROVE  \/ /\ UserUnchanged(r)
                  /\ keys' = [keys EXCEPT ![job[r].user] = job[r].had \cup {job[r].doc}]
                  /\ cut' = cut
                  /\ Put(r, Rec("delRegistered", job[r].user, job[r].challenge,
                                None, {}, 0, FALSE))
               \/ Finish(r) /\ CutShort({r}) /\ keys' = keys
    BY <1>4, PutFromExcept DEF SaveNewAuthenticator, Request, Rec
  <1> QED
    BY <1>1, <1>2, <1>3, <1>4

\* What each step of giving a key does to its slot.
LEMMA GivePuts ==
    ASSUME TypeOK, NEW r \in Slots
    PROVE  /\ \A u, c, a : GetUser(r, u, c, a) =>
                Put(r, Rec("getChallenge", u, c, a, {}, counter[a], FALSE))
           /\ GetChallenge(r) =>
                \/ /\ ChallengeMatches(job[r].user, job[r].challenge)
                   /\ Accept(job[r].user, job[r].challenge)
                   /\ Put(r, Rec("findKey", job[r].user, job[r].challenge, job[r].doc,
                                 job[r].had, job[r].seen, job[r].verified))
                \/ Finish(r) /\ UNCHANGED history
           /\ FindAuthenticator(r) =>
                \/ \E verified \in BOOLEAN :
                     /\ cut' = cut
                     /\ Put(r, Rec("saveCounter", job[r].user, job[r].challenge, job[r].doc,
                                   job[r].had, counter[job[r].doc], verified))
                \/ Finish(r) /\ CutShort({r})
           /\ SaveCounter(r) =>
                Put(r, Rec("delGiven", job[r].user, job[r].challenge, None,
                           {}, 0, job[r].verified))
           /\ Given(r) =>
                Put(r, Rec("sign", job[r].user, None, None, {}, 0, job[r].verified))
  <1>0. job \in [Slots -> Jobs] /\ job[r] \in Jobs
    BY DEF TypeOK
  <1>1. ASSUME NEW u, NEW c, NEW a, GetUser(r, u, c, a)
        PROVE  Put(r, Rec("getChallenge", u, c, a, {}, counter[a], FALSE))
    BY <1>1, PutFromExcept DEF GetUser, Rec
  <1>2. ASSUME GetChallenge(r)
        PROVE  \/ /\ ChallengeMatches(job[r].user, job[r].challenge)
                  /\ Accept(job[r].user, job[r].challenge)
                  /\ Put(r, Rec("findKey", job[r].user, job[r].challenge, job[r].doc,
                                job[r].had, job[r].seen, job[r].verified))
               \/ Finish(r) /\ UNCHANGED history
    BY <1>0, <1>2 DEF GetChallenge, Put, Jobs, Rec
  <1>3. ASSUME FindAuthenticator(r)
        PROVE  \/ \E verified \in BOOLEAN :
                    /\ cut' = cut
                    /\ Put(r, Rec("saveCounter", job[r].user, job[r].challenge, job[r].doc,
                                  job[r].had, counter[job[r].doc], verified))
               \/ Finish(r) /\ CutShort({r})
    <2>1. ASSUME NEW v \in BOOLEAN,
                 job' = [job EXCEPT ![r].stage = "saveCounter",
                                    ![r].seen = counter[job[r].doc], ![r].verified = v]
          PROVE  Put(r, Rec("saveCounter", job[r].user, job[r].challenge, job[r].doc,
                            job[r].had, counter[job[r].doc], v))
      BY <1>0, <2>1 DEF Put, Jobs, Rec
    <2> QED
      BY <1>3, <2>1 DEF FindAuthenticator
  <1>4. ASSUME SaveCounter(r)
        PROVE  Put(r, Rec("delGiven", job[r].user, job[r].challenge, None,
                          {}, 0, job[r].verified))
    <2>1. [Request("delGiven", job[r].user, job[r].challenge) EXCEPT !.verified = job[r].verified]
            = Rec("delGiven", job[r].user, job[r].challenge, None, {}, 0, job[r].verified)
      BY DEF Request, Rec
    <2> QED
      BY <1>4, <2>1, PutFromExcept DEF SaveCounter, AwaitDel
  <1>5. ASSUME Given(r)
        PROVE  Put(r, Rec("sign", job[r].user, None, None, {}, 0, job[r].verified))
    <2>1. [Request("sign", job[r].user, None) EXCEPT !.verified = job[r].verified]
            = Rec("sign", job[r].user, None, None, {}, 0, job[r].verified)
      BY DEF Request, Rec
    <2> QED
      BY <1>5, <2>1, PutFromExcept DEF Given
  <1> QED
    BY <1>1, <1>2, <1>3, <1>4, <1>5

-----------------------------------------------------------------------------
(***************************************************************************)
(* Types.                                                                  *)
(***************************************************************************)

\* The part of TypeOK that is not about jobs.
StoreOK ==
    /\ challenge \in [Users -> Challenges \cup {None}]
    /\ keys \in [Users -> SUBSET Docs]
    /\ cred \in [Docs -> Challenges \cup {None}]
    /\ counter \in [Docs -> Counts]
    /\ passed \in [Users -> BOOLEAN]
    /\ offer \in [Challenges -> [kind : {"none", "create", "get"}, user : Users \cup {None}]]
    /\ response \in [Challenges -> [cred : Challenges \cup {None}, count : Counts]]
    /\ accepted \subseteq Challenges /\ repeated \subseteq Challenges
    /\ crossed \subseteq Challenges /\ cut \subseteq Challenges
    /\ standing \in [Users -> Challenges \cup {None}]

\* A fitting job in one slot, while no document is unsaved, keeps the jobs fitting.
LEMMA PutType ==
    ASSUME TypeOK, NEW r \in Slots, NEW j \in Jobs, Put(r, j),
           HasItsItems(j)', \A a \in Docs : cred[a] # None => cred'[a] # None
    PROVE  /\ job' \in [Slots -> Jobs]
           /\ \A q \in Slots : HasItsItems(job[q])'
  <1>1. job' \in [Slots -> Jobs]
    <2>1. \A q \in Slots : job'[q] \in Jobs
      BY DEF Put, TypeOK
    <2> QED
      BY <2>1 DEF Put
  <1>2. ASSUME NEW q \in Slots, q # r
        PROVE  HasItsItems(job[q])'
    <2>1. job'[q] = job[q] /\ HasItsItems(job[q])
      BY <1>2 DEF Put, TypeOK
    <2> QED
      BY <2>1 DEF HasItsItems
  <1>3. HasItsItems(job[r])'
    BY DEF Put, HasItsItems
  <1> QED
    BY <1>1, <1>2, <1>3

\* A verification past its check has a user and a challenge.
LEMMA PastHas ==
    ASSUME TypeOK, NEW r \in Slots, NEW u, Past(r, u)
    PROVE  u \in Users /\ job[r].user = u /\ job[r].challenge \in Challenges
  BY DEF TypeOK, HasItsItems, Past, RegisterStages, GiveStages

\* The history of a verification that is let through stays within the challenges.
LEMMA AcceptType ==
    ASSUME TypeOK, NEW u \in Users, NEW c \in Challenges, Accept(u, c)
    PROVE  /\ accepted' \subseteq Challenges /\ repeated' \subseteq Challenges
           /\ crossed' \subseteq Challenges /\ cut' \subseteq Challenges
  <1>1. {job[r].challenge : r \in {q \in Slots : Past(q, u)}} \subseteq Challenges
    BY PastHas
  <1> QED
    BY <1>1 DEF Accept, TypeOK

\* So does that of one that is cut short.
LEMMA CutType ==
    ASSUME TypeOK, NEW R \in SUBSET Slots, CutShort(R)
    PROVE  cut' \subseteq Challenges
  <1>1. {job[r].challenge : r \in {q \in R : \E u \in Users : Past(q, u)}} \subseteq Challenges
    BY PastHas
  <1> QED
    BY <1>1 DEF CutShort, TypeOK

\* A free slot fits everywhere.
LEMMA FreeType ==
    ASSUME TypeOK, NEW r \in Slots, Finish(r),
           \A a \in Docs : cred[a] # None => cred'[a] # None
    PROVE  job' \in [Slots -> Jobs] /\ \A q \in Slots : HasItsItems(job[q])'
  <1> DEFINE j == Rec("idle", None, None, None, {}, 0, FALSE)
  <1>1. j \in Jobs /\ HasItsItems(j)'
    BY WebAuthnAssumption DEF Jobs, Stages, HasItsItems, Rec
  <1> HIDE DEF j
  <1> QED
    BY <1>1, FinishPuts, PutType DEF j

\* Every step keeps the types, a document where one is written included.
LEMMA TypeStep == TypeOK /\ ClientInv /\ JobInv /\ KeysAreOwn /\ [Next]_vars => TypeOK'
  <1> SUFFICES ASSUME TypeOK, ClientInv, JobInv, KeysAreOwn, [Next]_vars
               PROVE  TypeOK'
    OBVIOUS
  <1> USE DEF redis, documents, client, history
  <1>0. StoreOK
    BY DEF TypeOK, StoreOK
  <1>a. ASSUME StoreOK', job' \in [Slots -> Jobs], \A q \in Slots : HasItsItems(job[q])'
        PROVE  TypeOK'
    BY <1>a DEF TypeOK, StoreOK
  <1>b. ASSUME StoreOK', UNCHANGED <<job, cred>>
        PROVE  TypeOK'
    BY <1>a, <1>b DEF TypeOK, HasItsItems
  <1>1. ASSUME NEW r \in Slots, RequestStep(r)
        PROVE  TypeOK'
    <2>0. job[r] \in Jobs /\ HasItsItems(job[r])
      BY DEF TypeOK
    <2>a. ASSUME NEW j \in Jobs, Put(r, j), HasItsItems(j)', StoreOK',
                 \A a \in Docs : cred[a] # None => cred'[a] # None
          PROVE  TypeOK'
      BY <1>a, <2>a, PutType
    <2>b. ASSUME Finish(r), StoreOK', UNCHANGED cred
          PROVE  TypeOK'
      BY <1>a, <2>b, FreeType
    <2>1. ASSUME NEW u \in Users, NEW c \in Challenges, VerifyRegistration(r, u, c)
          PROVE  TypeOK'
      <3>1. StoreOK' /\ cred' = cred
        BY <1>0, <2>1, AcceptType DEF VerifyRegistration, StoreOK
      <3>2. PICK j : j = Rec("saveKey", u, c, None, {}, 0, FALSE)
        OBVIOUS
      <3>3. j \in Jobs /\ HasItsItems(j)'
        BY <3>2, WebAuthnAssumption DEF Jobs, Stages, RegisterStages, HasItsItems, Rec
      <3> QED
        BY <2>a, <2>1, <3>1, <3>2, <3>3, RegisterPuts
    <2>2. ASSUME NEW u \in Users, NEW c \in Challenges, NEW a \in Docs, GetUser(r, u, c, a)
          PROVE  TypeOK'
      <3>1. StoreOK' /\ cred' = cred /\ cred[a] # None
        BY <1>0, <2>2 DEF GetUser, OwnKey, KeysAreOwn, StoreOK
      <3>2. PICK j : j = Rec("getChallenge", u, c, a, {}, counter[a], FALSE)
        OBVIOUS
      <3>3. j \in Jobs /\ HasItsItems(j)'
        BY <1>0, <3>1, <3>2 DEF Jobs, Stages, HasItsItems, Rec, StoreOK
      <3> QED
        BY <2>a, <2>2, <3>1, <3>2, <3>3, GivePuts
    <2>3. ASSUME NEW a \in Docs, SaveAuthenticator(r, a)
          PROVE  TypeOK'
      <3>1. job[r].user \in Users /\ job[r].challenge \in Challenges
        BY <2>0, <2>3 DEF SaveAuthenticator, At, HasItsItems
      <3>2. StoreOK'
        BY <1>0, <2>3, <3>1 DEF SaveAuthenticator, StoreOK
      <3>a. response[job[r].challenge].cred # None
        BY <2>3, <3>1, WebAuthnAssumption
        DEF SaveAuthenticator, At, JobInv, JobFacts, ClientInv, RegisterStages, Answered
      <3>3. cred'[a] # None /\ \A b \in Docs : cred[b] # None => cred'[b] # None
        BY <1>0, <2>3, <3>a DEF SaveAuthenticator, StoreOK
      <3>4. PICK j : j = Rec("findUser", job[r].user, job[r].challenge, a,
                             job[r].had, job[r].seen, job[r].verified)
        OBVIOUS
      <3>5. j \in Jobs /\ HasItsItems(j)'
        BY <2>0, <3>1, <3>3, <3>4 DEF Jobs, Stages, RegisterStages, HasItsItems, Rec
      <3> QED
        BY <2>a, <2>3, <3>2, <3>3, <3>4, <3>5, RegisterPuts
    <2>4. CASE FindUser(r)
      <3>1. StoreOK' /\ cred' = cred
        BY <1>0, <2>4 DEF FindUser, StoreOK
      <3>2. PICK j : j = Rec("saveUser", job[r].user, job[r].challenge, job[r].doc,
                             keys[job[r].user], job[r].seen, job[r].verified)
        OBVIOUS
      <3>3. j \in Jobs /\ HasItsItems(j)'
        BY <1>0, <2>0, <2>4, <3>1, <3>2
        DEF FindUser, At, StoreOK, Jobs, Stages, RegisterStages, HasItsItems, Rec
      <3> QED
        BY <2>a, <2>4, <3>1, <3>2, <3>3, RegisterPuts
    <2>5. CASE SaveNewAuthenticator(r)
      <3>1. job[r].user \in Users /\ job[r].challenge \in Challenges /\ job[r].doc \in Docs
        BY <2>0, <2>5 DEF SaveNewAuthenticator, At, HasItsItems
      <3>2. cred' = cred /\ UNCHANGED <<redis, counter, passed, client, accepted, repeated, crossed>>
        BY <2>5 DEF SaveNewAuthenticator
      <3>3. ASSUME keys' = [keys EXCEPT ![job[r].user] = job[r].had \cup {job[r].doc}],
                   cut' = cut,
                   Put(r, Rec("delRegistered", job[r].user, job[r].challenge, None, {}, 0, FALSE))
            PROVE  TypeOK'
        <4>1. job[r].had \in SUBSET Docs
          BY <2>0 DEF Jobs
        <4>2. StoreOK'
          BY <1>0, <3>1, <3>2, <3>3, <4>1 DEF StoreOK
        <4>3. PICK j : j = Rec("delRegistered", job[r].user, job[r].challenge, None, {}, 0, FALSE)
          OBVIOUS
        <4>4. j \in Jobs /\ HasItsItems(j)'
          BY <3>1, <4>3, WebAuthnAssumption DEF Jobs, Stages, RegisterStages, HasItsItems, Rec
        <4> QED
          BY <2>a, <3>2, <3>3, <4>2, <4>3, <4>4
      <3>4. ASSUME Finish(r), CutShort({r}), keys' = keys
            PROVE  TypeOK'
        <4>1. cut' \subseteq Challenges
          BY <3>4, CutType
        <4>2. StoreOK'
          BY <1>0, <3>2, <3>4, <4>1 DEF StoreOK
        <4> QED
          BY <2>b, <3>2, <3>4, <4>2
      <3> QED
        BY <2>5, <3>3, <3>4, RegisterPuts
    <2>6. CASE Registered(r)
      <3>1. StoreOK' /\ cred' = cred /\ Finish(r)
        BY <1>0, <2>6 DEF Registered, Del, StoreOK
      <3> QED
        BY <2>b, <3>1
    <2>7. CASE GetChallenge(r)
      <3>1. job[r].user \in Users /\ job[r].challenge \in Challenges
        BY <2>0, <2>7 DEF GetChallenge, At, HasItsItems
      <3>2. cred' = cred /\ UNCHANGED <<redis, documents, passed, client>>
        BY <2>7 DEF GetChallenge
      <3>3. ASSUME Accept(job[r].user, job[r].challenge),
                   Put(r, Rec("findKey", job[r].user, job[r].challenge, job[r].doc,
                              job[r].had, job[r].seen, job[r].verified))
            PROVE  TypeOK'
        <4>1. StoreOK'
          BY <1>0, <3>1, <3>2, <3>3, AcceptType DEF StoreOK
        <4>2. PICK j : j = Rec("findKey", job[r].user, job[r].challenge, job[r].doc,
                               job[r].had, job[r].seen, job[r].verified)
          OBVIOUS
        <4>3. j \in Jobs /\ HasItsItems(j)'
          BY <2>0, <2>7, <3>2, <4>2
          DEF GetChallenge, At, Jobs, Stages, GiveStages, HasItsItems, Rec
        <4> QED
          BY <2>a, <3>2, <3>3, <4>1, <4>2, <4>3
      <3>4. ASSUME Finish(r), UNCHANGED history
            PROVE  TypeOK'
        <4>1. StoreOK'
          BY <1>0, <3>2, <3>4 DEF StoreOK
        <4> QED
          BY <2>b, <3>2, <3>4, <4>1
      <3> QED
        BY <2>7, <3>3, <3>4, GivePuts
    <2>8. CASE FindAuthenticator(r)
      <3>1. job[r].user \in Users /\ job[r].challenge \in Challenges /\ job[r].doc \in Docs
        BY <2>0, <2>8 DEF FindAuthenticator, At, HasItsItems
      <3>2. cred' = cred /\ UNCHANGED <<redis, documents, passed, client, accepted, repeated, crossed>>
        BY <2>8 DEF FindAuthenticator
      <3>3. ASSUME NEW v \in BOOLEAN, cut' = cut,
                   Put(r, Rec("saveCounter", job[r].user, job[r].challenge, job[r].doc,
                              job[r].had, counter[job[r].doc], v))
            PROVE  TypeOK'
        <4>1. StoreOK'
          BY <1>0, <3>2, <3>3 DEF StoreOK
        <4>2. PICK j : j = Rec("saveCounter", job[r].user, job[r].challenge, job[r].doc,
                               job[r].had, counter[job[r].doc], v)
          OBVIOUS
        <4>3. j \in Jobs /\ HasItsItems(j)'
          BY <1>0, <2>0, <2>8, <3>1, <3>2, <4>2
          DEF FindAuthenticator, At, StoreOK, Jobs, Stages, GiveStages, HasItsItems, Rec
        <4> QED
          BY <2>a, <3>2, <3>3, <4>1, <4>2, <4>3
      <3>4. ASSUME Finish(r), CutShort({r})
            PROVE  TypeOK'
        <4>1. cut' \subseteq Challenges
          BY <3>4, CutType
        <4>2. StoreOK'
          BY <1>0, <3>2, <4>1 DEF StoreOK
        <4> QED
          BY <2>b, <3>2, <3>4, <4>2
      <3> QED
        BY <2>8, <3>3, <3>4, GivePuts
    <2>9. CASE SaveCounter(r)
      <3>1. job[r].user \in Users /\ job[r].challenge \in Challenges /\ job[r].doc \in Docs
        BY <2>0, <2>9 DEF SaveCounter, At, HasItsItems
      <3>2. StoreOK' /\ cred' = cred
        BY <1>0, <2>9, <3>1 DEF SaveCounter, StoreOK
      <3>3. PICK j : j = Rec("delGiven", job[r].user, job[r].challenge, None,
                             {}, 0, job[r].verified)
        OBVIOUS
      <3>4. j \in Jobs /\ HasItsItems(j)'
        BY <2>0, <3>1, <3>3, WebAuthnAssumption DEF Jobs, Stages, GiveStages, HasItsItems, Rec
      <3> QED
        BY <2>a, <2>9, <3>2, <3>3, <3>4, GivePuts
    <2>10. CASE Given(r)
      <3>1. job[r].user \in Users
        BY <2>0, <2>10 DEF Given, At, HasItsItems
      <3>2. StoreOK' /\ cred' = cred
        BY <1>0, <2>10 DEF Given, Del, StoreOK
      <3>3. PICK j : j = Rec("sign", job[r].user, None, None, {}, 0, job[r].verified)
        OBVIOUS
      <3>4. j \in Jobs /\ HasItsItems(j)'
        BY <2>0, <3>1, <3>3, WebAuthnAssumption DEF Jobs, Stages, HasItsItems, Rec
      <3> QED
        BY <2>a, <2>10, <3>2, <3>3, <3>4, GivePuts
    <2>11. CASE IssueToken(r)
      <3>1. passed' \in [Users -> BOOLEAN]
        BY <1>0, <2>0, <2>11, Zenon DEF IssueToken, StoreOK
      <3>2. StoreOK' /\ cred' = cred /\ Finish(r)
        BY <1>0, <2>11, <3>1 DEF IssueToken, StoreOK
      <3> QED
        BY <2>b, <3>2
    <2>12. CASE Abort(r)
      <3>1. cut' \subseteq Challenges
        BY <2>12, CutType DEF Abort
      <3>2. StoreOK' /\ cred' = cred /\ Finish(r)
        BY <1>0, <2>12, <3>1 DEF Abort, StoreOK
      <3> QED
        BY <2>b, <3>2
    <2> QED
      BY <1>1, <2>1, <2>2, <2>3, <2>4, <2>5, <2>6, <2>7, <2>8, <2>9, <2>10, <2>11, <2>12
      DEF RequestStep
  <1>2. ASSUME NEW c \in Challenges, ClientStep(c)
        PROVE  TypeOK'
    <2>1. PICK k \in Challenges, n \in Counts : Respond(c, k, n)
      BY <1>2 DEF ClientStep, Create, Sign
    <2>2. UNCHANGED <<redis, documents, passed, job, offer, history>>
      BY <1>2 DEF ClientStep, Create, Sign
    <2>3. StoreOK'
      BY <1>0, <2>1, <2>2 DEF Respond, StoreOK
    <2> QED
      BY <1>b, <2>2, <2>3
  <1>3. ASSUME Down, StoreOK', UNCHANGED cred
        PROVE  TypeOK'
    <2>1. \A q \in Slots : job'[q] = Rec("idle", None, None, None, {}, 0, FALSE)
      BY <1>3 DEF Down, Free, Request, Rec
    <2>2. PICK j : j = Rec("idle", None, None, None, {}, 0, FALSE)
      OBVIOUS
    <2>3. j \in Jobs /\ HasItsItems(j)'
      BY <2>2, WebAuthnAssumption DEF Jobs, Stages, HasItsItems, Rec
    <2>4. job' \in [Slots -> Jobs]
      BY <1>3, <2>1, <2>2, <2>3 DEF Down
    <2>5. \A q \in Slots : HasItsItems(job[q])'
      BY <2>1, <2>2, <2>3 DEF HasItsItems
    <2> QED
      BY <1>a, <1>3, <2>4, <2>5
  <1>4. ASSUME NEW u \in Users, NEW c \in Challenges, OptionsStep(u, c)
        PROVE  TypeOK'
    <2>1. CASE GenerateRegistration(u, c) \/ GenerateAuthentication(u, c)
      <3>1. SetChallenge(u, c) /\ \E kind \in {"create", "get"} : Offer(u, c, kind)
        BY <2>1 DEF GenerateRegistration, GenerateAuthentication
      <3>2. challenge' \in [Users -> Challenges \cup {None}]
        BY <1>0, <3>1 DEF SetChallenge, StoreOK
      <3>3. (IF \E r \in Slots : Past(r, u) THEN None ELSE c) \in Challenges \cup {None}
        OBVIOUS
      <3>4. standing' \in [Users -> Challenges \cup {None}]
        BY <1>0, <3>1, <3>3 DEF SetChallenge, StoreOK
      <3>5. offer' \in [Challenges -> [kind : {"none", "create", "get"}, user : Users \cup {None}]]
        BY <1>0, <3>1 DEF Offer, StoreOK
      <3>6. UNCHANGED <<documents, passed, job, response, history>>
        BY <2>1 DEF GenerateRegistration, GenerateAuthentication
      <3>7. StoreOK' /\ UNCHANGED <<job, cred>>
        BY <1>0, <3>2, <3>4, <3>5, <3>6 DEF StoreOK
      <3> QED
        BY <1>b, <3>7
    <2>2. CASE RejectedSet(u, c)
      <3>1. cut' \subseteq Challenges
        BY <2>2, CutType DEF RejectedSet, Down
      <3>2. StoreOK' /\ UNCHANGED cred
        BY <1>0, <2>2, <3>1 DEF RejectedSet, Down, Offer, StoreOK
      <3> QED
        BY <1>3, <2>2, <3>2 DEF RejectedSet
    <2> QED
      BY <1>4, <2>1, <2>2 DEF OptionsStep
  <1>5. ASSUME NEW u \in Users, Expire(u)
        PROVE  TypeOK'
    <2>1. StoreOK' /\ UNCHANGED <<job, cred>>
      BY <1>0, <1>5 DEF Expire, StoreOK
    <2> QED
      BY <1>b, <2>1
  <1>6. CASE Crash
    <2>1. cut' \subseteq Challenges
      BY <1>6, CutType DEF Crash, Down
    <2>2. StoreOK' /\ UNCHANGED cred
      BY <1>0, <1>6, <2>1 DEF Crash, Down, StoreOK
    <2> QED
      BY <1>3, <1>6, <2>2 DEF Crash
  <1>7. CASE UNCHANGED vars
    <2>1. StoreOK' /\ UNCHANGED <<job, cred>>
      BY <1>0, <1>7 DEF vars, StoreOK
    <2> QED
      BY <1>b, <2>1
  <1> QED
    BY <1>1, <1>2, <1>4, <1>5, <1>6, <1>7 DEF Next

-----------------------------------------------------------------------------
(***************************************************************************)
(* What no step takes back.                                                *)
(***************************************************************************)

\* Options, responses, saved documents and keys stay, and so does the history.
Grown ==
    /\ \A c \in Challenges : offer[c] # NoOffer => offer'[c] = offer[c]
    /\ \A c \in Challenges : response[c] # NoResponse => response'[c] = response[c]
    /\ \A a \in Docs : cred[a] # None => cred'[a] = cred[a]
    /\ \A u \in Users : keys[u] \subseteq keys'[u]
    /\ accepted \subseteq accepted' /\ repeated \subseteq repeated'
    /\ crossed \subseteq crossed' /\ cut \subseteq cut'

\* In the steps of a request the client does nothing, and a challenge is at most
\* deleted.
LEMMA RequestGrows ==
    ASSUME TypeOK, NEW r \in Slots, RequestStep(r)
    PROVE  /\ Grown /\ UNCHANGED client
           /\ \A u \in Users : challenge'[u] = challenge[u] \/ challenge'[u] = None
  <1> USE DEF redis, documents, client, history, Grown
  <1>1. ASSUME NEW u \in Users, NEW c \in Challenges, VerifyRegistration(r, u, c)
        PROVE  Grown /\ UNCHANGED client /\ challenge' = challenge
    BY <1>1 DEF VerifyRegistration, Accept
  <1>2. ASSUME NEW u \in Users, NEW c \in Challenges, NEW a \in Docs, GetUser(r, u, c, a)
        PROVE  Grown /\ UNCHANGED client /\ challenge' = challenge
    BY <1>2 DEF GetUser
  <1>3. ASSUME NEW a \in Docs, SaveAuthenticator(r, a)
        PROVE  Grown /\ UNCHANGED client /\ challenge' = challenge
    BY <1>3 DEF SaveAuthenticator, TypeOK
  <1>4. CASE FindUser(r)
    BY <1>4 DEF FindUser
  <1>5. CASE SaveNewAuthenticator(r)
    <2>1. \A u \in Users : keys[u] \subseteq keys'[u]
      BY <1>5 DEF SaveNewAuthenticator, UserUnchanged, TypeOK
    <2> QED
      BY <1>5, <2>1 DEF SaveNewAuthenticator, CutShort
  <1>6. CASE Registered(r) \/ Given(r)
    BY <1>6 DEF Registered, Given, Del, TypeOK
  <1>7. CASE GetChallenge(r)
    BY <1>7 DEF GetChallenge, Accept
  <1>8. CASE FindAuthenticator(r)
    BY <1>8 DEF FindAuthenticator, CutShort
  <1>9. CASE SaveCounter(r)
    BY <1>9 DEF SaveCounter
  <1>10. CASE IssueToken(r)
    BY <1>10 DEF IssueToken
  <1>11. CASE Abort(r)
    BY <1>11 DEF Abort, CutShort
  <1> QED
    BY <1>1, <1>2, <1>3, <1>4, <1>5, <1>6, <1>7, <1>8, <1>9, <1>10, <1>11 DEF RequestStep

\* No step takes back what has been offered, answered or let through.
LEMMA Growth ==
    ASSUME TypeOK, [Next]_vars
    PROVE  Grown
  <1> USE DEF redis, documents, client, history, Grown
  <1>1. ASSUME NEW r \in Slots, RequestStep(r)
        PROVE  Grown
    BY <1>1, RequestGrows
  <1>2. ASSUME NEW c \in Challenges, ClientStep(c)
        PROVE  Grown
    <2>1. PICK k \in Challenges, n \in Counts :
            response[c] = NoResponse /\ Respond(c, k, n)
      BY <1>2 DEF ClientStep, Create, Sign
    <2>2. UNCHANGED <<redis, documents, passed, job, offer, history>>
      BY <1>2 DEF ClientStep, Create, Sign
    <2>3. \A d \in Challenges : response[d] # NoResponse => response'[d] = response[d]
      BY <2>1 DEF Respond, TypeOK
    <2> QED
      BY <2>2, <2>3
  <1>3. ASSUME NEW u \in Users, NEW c \in Challenges, OptionsStep(u, c)
        PROVE  Grown
    <2>1. \A d \in Challenges : offer[d] # NoOffer => offer'[d] = offer[d]
      BY <1>3
      DEF OptionsStep, GenerateRegistration, GenerateAuthentication, RejectedSet, Offer, TypeOK
    <2>2. UNCHANGED <<documents, response, accepted, repeated, crossed>> /\ cut \subseteq cut'
      BY <1>3
      DEF OptionsStep, GenerateRegistration, GenerateAuthentication, RejectedSet, Down, CutShort
    <2> QED
      BY <2>1, <2>2
  <1>4. ASSUME NEW u \in Users, Expire(u)
        PROVE  Grown
    BY <1>4 DEF Expire
  <1>5. CASE Crash
    BY <1>5 DEF Crash, Down, CutShort
  <1>6. CASE UNCHANGED vars
    BY <1>6 DEF vars
  <1> QED
    BY <1>1, <1>2, <1>3, <1>4, <1>5, <1>6 DEF Next

-----------------------------------------------------------------------------
(***************************************************************************)
(* Options and responses.                                                  *)
(***************************************************************************)

\* Steps that leave the client alone, and at most drop a challenge, keep ClientInv.
LEMMA ClientKept ==
    ASSUME TypeOK, ClientInv, UNCHANGED client,
           \A u \in Users : challenge'[u] = challenge[u] \/ challenge'[u] = None
    PROVE  ClientInv'
  BY DEF ClientInv, Answered, client

\* Fresh options keep what is known of the older ones.
LEMMA OfferKeeps ==
    ASSUME TypeOK, ClientInv, NEW u \in Users, NEW c \in Challenges,
           NEW kind \in {"create", "get"}, Offer(u, c, kind), UNCHANGED response,
           \A v \in Users : challenge'[v] = challenge[v] \/ (v = u /\ challenge'[v] = c)
    PROVE  ClientInv'
  <1>1. offer[c].kind = "none" /\ offer'[c].kind = kind /\ offer'[c].user = u
    BY DEF Offer, NoOffer, TypeOK
  <1>2. \A d \in Challenges : d # c => offer'[d] = offer[d]
    BY DEF Offer, TypeOK
  <1>3. response[c] = NoResponse
    BY <1>1 DEF ClientInv
  <1>4. ASSUME NEW d \in Challenges, response[d] # NoResponse
        PROVE  d # c /\ response[d].cred # c
    BY <1>1, <1>3, <1>4 DEF ClientInv, Answered
  <1>5. \A v \in Users : challenge[v] # None => challenge[v] # c
    BY <1>1 DEF ClientInv
  <1>6. \A v \in Users : challenge[v] # None => challenge[v] \in Challenges
    BY DEF TypeOK
  <1>7. \A d \in Challenges :
          /\ offer'[d].kind # "none" => offer'[d].user \in Users
          /\ response'[d] # NoResponse =>
               /\ response'[d].cred \in Challenges
               /\ Answered(response[d].cred, "create")'
               /\ offer'[response'[d].cred].user = offer'[d].user
               /\ offer'[d].kind \in {"create", "get"}
               /\ offer'[d].kind = "create" => response'[d].cred = d
    BY <1>1, <1>2, <1>4 DEF ClientInv, Answered
  <1>8. \A v \in Users : challenge'[v] # None =>
          offer'[challenge'[v]].user = v /\ offer'[challenge'[v]].kind # "none"
    BY <1>1, <1>2, <1>5, <1>6 DEF ClientInv
  <1> QED
    BY <1>7, <1>8 DEF ClientInv

\* Every step keeps what is known of options and responses.
LEMMA ClientInvStep == TypeOK /\ ClientInv /\ [Next]_vars => ClientInv'
  <1> SUFFICES ASSUME TypeOK, ClientInv, [Next]_vars
               PROVE  ClientInv'
    OBVIOUS
  <1>1. ASSUME NEW r \in Slots, RequestStep(r)
        PROVE  ClientInv'
    BY <1>1, RequestGrows, ClientKept
  <1>2. ASSUME NEW c \in Challenges, ClientStep(c)
        PROVE  ClientInv'
    <2>1. UNCHANGED <<challenge, offer>>
      BY <1>2 DEF ClientStep, Create, Sign, redis
    <2>2. PICK k \in Challenges, n \in Counts :
            /\ response[c] = NoResponse /\ Respond(c, k, n)
            /\ \/ offer[c].kind = "create" /\ k = c
               \/ offer[c].kind = "get" /\ Answered(k, "create") /\ offer[k].user = offer[c].user
      BY <1>2 DEF ClientStep, Create, Sign
    <2>3. /\ response'[c].cred = k /\ response'[c] # NoResponse
          /\ \A d \in Challenges : d # c => response'[d] = response[d]
      BY <2>2, WebAuthnAssumption DEF Respond, NoResponse, TypeOK
    <2>4. \A d \in Challenges : Answered(d, "create") => Answered(d, "create")'
      BY <2>1, <2>2, <2>3 DEF Answered
    <2>5. \A d \in Challenges :
            response'[d] # NoResponse =>
               /\ response'[d].cred \in Challenges
               /\ Answered(response[d].cred, "create")'
               /\ offer'[response'[d].cred].user = offer'[d].user
               /\ offer'[d].kind \in {"create", "get"}
               /\ offer'[d].kind = "create" => response'[d].cred = d
      <3>1. ASSUME NEW d \in Challenges, d # c, response'[d] # NoResponse
            PROVE  /\ response'[d].cred \in Challenges
                   /\ Answered(response[d].cred, "create")'
                   /\ offer'[response'[d].cred].user = offer'[d].user
                   /\ offer'[d].kind \in {"create", "get"}
                   /\ offer'[d].kind = "create" => response'[d].cred = d
        BY <2>1, <2>3, <2>4, <3>1 DEF ClientInv, Answered
      <3>2. /\ response'[c].cred \in Challenges
            /\ Answered(response[c].cred, "create")'
            /\ offer'[response'[c].cred].user = offer'[c].user
            /\ offer'[c].kind \in {"create", "get"}
            /\ offer'[c].kind = "create" => response'[c].cred = c
        BY <2>1, <2>2, <2>3, <2>4 DEF Answered
      <3> QED
        BY <3>1, <3>2
    <2> QED
      BY <2>1, <2>5 DEF ClientInv
  <1>3. ASSUME NEW u \in Users, NEW c \in Challenges, OptionsStep(u, c)
        PROVE  ClientInv'
    <2>1. CASE GenerateRegistration(u, c) \/ GenerateAuthentication(u, c)
      <3>1. PICK kind \in {"create", "get"} : Offer(u, c, kind)
        BY <2>1 DEF GenerateRegistration, GenerateAuthentication
      <3>2. UNCHANGED response
        BY <2>1 DEF GenerateRegistration, GenerateAuthentication
      <3>3. \A v \in Users : challenge'[v] = challenge[v] \/ (v = u /\ challenge'[v] = c)
        BY <2>1 DEF GenerateRegistration, GenerateAuthentication, SetChallenge, TypeOK
      <3> QED
        BY <3>1, <3>2, <3>3, OfferKeeps
    <2>2. CASE RejectedSet(u, c)
      BY <2>2, OfferKeeps DEF RejectedSet
    <2> QED
      BY <1>3, <2>1, <2>2 DEF OptionsStep
  <1>4. ASSUME NEW u \in Users, Expire(u)
        PROVE  ClientInv'
    BY <1>4, ClientKept DEF Expire, TypeOK
  <1>5. CASE Crash
    BY <1>5, ClientKept DEF Crash, redis
  <1>6. CASE UNCHANGED vars
    BY <1>6, ClientKept DEF vars, redis
  <1> QED
    BY <1>1, <1>2, <1>3, <1>4, <1>5, <1>6 DEF Next

-----------------------------------------------------------------------------
(***************************************************************************)
(* Requests.                                                               *)
(***************************************************************************)

\* A response that was made stays made.
LEMMA AnsweredKept ==
    ASSUME TypeOK, Grown, NEW c \in Challenges, NEW kind \in {"create", "get"}, Answered(c, kind)
    PROVE  Answered(c, kind)' /\ offer'[c] = offer[c] /\ response'[c] = response[c]
  <1>1. offer[c] # NoOffer
    BY DEF Answered, NoOffer
  <1> QED
    BY <1>1 DEF Grown, Answered

\* What is known of a request stays so while its job does.
LEMMA FactsKept ==
    ASSUME TypeOK, Grown, NEW j \in Jobs, HasItsItems(j), JobFacts(j)
    PROVE  JobFacts(j)'
  <1>0. j.stage \in Stages
    BY DEF Jobs
  <1>1. CASE j.stage \in RegisterStages \cup GiveStages \cup {"getChallenge"}
    <2>1. j.challenge \in Challenges /\ j.user \in Users
      BY <1>1 DEF HasItsItems, RegisterStages, GiveStages
    <2>2. /\ offer'[j.challenge] = offer[j.challenge]
          /\ response'[j.challenge] = response[j.challenge]
          /\ j.stage \in RegisterStages => Answered(j.challenge, "create")'
          /\ j.stage \in GiveStages \cup {"getChallenge"} => Answered(j.challenge, "get")'
      BY <1>1, <2>1, AnsweredKept DEF JobFacts
    <2>3. j.stage \in {"findUser", "saveUser", "getChallenge", "findKey", "saveCounter"} =>
            cred'[j.doc] = cred[j.doc]
      BY DEF HasItsItems, Grown
    <2>4. keys[j.user] \subseteq keys'[j.user]
      BY <2>1 DEF Grown
    <2> QED
      BY <1>1, <2>1, <2>2, <2>3, <2>4 DEF JobFacts, Grown, RegisterStages, GiveStages
  <1>2. CASE j.stage = "sign"
    <2>1. j.user \in Users /\ keys[j.user] \subseteq keys'[j.user]
      BY <1>2 DEF HasItsItems, Grown
    <2> QED
      BY <1>2, <2>1 DEF JobFacts, RegisterStages, GiveStages
  <1>3. CASE j.stage = "idle"
    BY <1>3 DEF JobFacts, RegisterStages, GiveStages
  <1> QED
    BY <1>0, <1>1, <1>2, <1>3 DEF Stages

\* A step that puts one job of which the facts hold keeps those of all jobs.
LEMMA JobPut ==
    ASSUME TypeOK, JobInv, Grown, NEW r \in Slots, NEW j, Put(r, j), JobFacts(j)',
           accepted' = accepted
             \/ \E c \in Challenges : accepted' = accepted \cup {c} /\ response'[c] # NoResponse
    PROVE  JobInv'
  <1>1. \A c \in accepted' : response'[c] # NoResponse
    BY DEF JobInv, Grown, TypeOK
  <1>2. ASSUME NEW q \in Slots, q # r
        PROVE  JobFacts(job[q])'
    <2>1. PICK k : k = job[q]
      OBVIOUS
    <2>2. k \in Jobs /\ HasItsItems(k) /\ JobFacts(k) /\ job'[q] = k
      BY <1>2, <2>1 DEF TypeOK, JobInv, Put
    <2>3. JobFacts(k)'
      BY <2>2, FactsKept
    <2> QED
      BY <2>2, <2>3 DEF JobFacts
  <1>3. JobFacts(job[r])'
    BY DEF Put, JobFacts
  <1> QED
    BY <1>1, <1>2, <1>3 DEF JobInv

\* Nothing is known of a free slot.
LEMMA FreeFacts ==
    ASSUME TypeOK, JobInv, Grown, NEW r \in Slots, Finish(r), accepted' = accepted
    PROVE  JobInv'
  <1>1. PICK j : j = Rec("idle", None, None, None, {}, 0, FALSE)
    OBVIOUS
  <1>2. JobFacts(j)'
    BY <1>1 DEF JobFacts, RegisterStages, GiveStages, Rec
  <1> QED
    BY <1>1, <1>2, JobPut, FinishPuts

\* Every step keeps what is known of the requests in flight.
LEMMA JobInvStep == TypeOK /\ ClientInv /\ JobInv /\ KeysAreOwn /\ [Next]_vars => JobInv'
  <1> SUFFICES ASSUME TypeOK, ClientInv, JobInv, KeysAreOwn, [Next]_vars
               PROVE  JobInv'
    OBVIOUS
  <1>0. Grown
    BY Growth
  <1> USE DEF redis, documents, client, history
  <1>a. ASSUME UNCHANGED job, accepted' = accepted
        PROVE  JobInv'
    <2>1. ASSUME NEW q \in Slots
          PROVE  JobFacts(job[q])'
      <3>1. PICK k : k = job[q]
        OBVIOUS
      <3>2. k \in Jobs /\ HasItsItems(k) /\ JobFacts(k) /\ job'[q] = k
        BY <1>a, <3>1 DEF TypeOK, JobInv
      <3>3. JobFacts(k)'
        BY <1>0, <3>2, FactsKept
      <3> QED
        BY <3>2, <3>3 DEF JobFacts
    <2> QED
      BY <1>0, <1>a, <2>1 DEF JobInv, Grown, TypeOK
  <1>b. ASSUME Down, accepted' = accepted
        PROVE  JobInv'
    <2>1. \A q \in Slots : job'[q].stage = "idle"
      BY <1>b DEF Down, Free, Request
    <2>2. \A q \in Slots : JobFacts(job[q])'
      BY <2>1 DEF JobFacts, RegisterStages, GiveStages
    <2> QED
      BY <1>0, <1>b, <2>2 DEF JobInv, Grown, TypeOK
  <1>1. ASSUME NEW r \in Slots, RequestStep(r)
        PROVE  JobInv'
    <2>0. /\ job[r] \in Jobs /\ HasItsItems(job[r]) /\ JobFacts(job[r])
          /\ UNCHANGED <<offer, response>>
      BY <1>1, RequestGrows DEF TypeOK, JobInv
    <2>1. ASSUME NEW u \in Users, NEW c \in Challenges, VerifyRegistration(r, u, c)
          PROVE  JobInv'
      <3>1. PICK j : j = Rec("saveKey", u, c, None, {}, 0, FALSE)
        OBVIOUS
      <3>2. /\ accepted' = accepted \cup {c} /\ response'[c] # NoResponse
            /\ Answered(c, "create")' /\ offer'[c].user = u
        BY <2>0, <2>1, WebAuthnAssumption
        DEF VerifyRegistration, Accept, Answered, ChallengeMatches, ClientInv
      <3>3. JobFacts(j)'
        BY <3>1, <3>2 DEF JobFacts, RegisterStages, GiveStages, Rec
      <3> QED
        BY <1>0, <2>1, <3>1, <3>2, <3>3, JobPut, RegisterPuts
    <2>2. ASSUME NEW u \in Users, NEW c \in Challenges, NEW a \in Docs, GetUser(r, u, c, a)
          PROVE  JobInv'
      <3>1. PICK j : j = Rec("getChallenge", u, c, a, {}, counter[a], FALSE)
        OBVIOUS
      <3>2. /\ Answered(c, "get")' /\ offer'[c].user = u /\ cred'[a] = response'[c].cred
            /\ keys'[u] # {}
        BY <2>0, <2>2 DEF GetUser, Answered, OwnKey
      <3>3. JobFacts(j)'
        BY <3>1, <3>2 DEF JobFacts, RegisterStages, GiveStages, Rec
      <3> QED
        BY <1>0, <2>2, <3>1, <3>3, JobPut, GivePuts DEF GetUser
    <2>3. ASSUME NEW a \in Docs, SaveAuthenticator(r, a)
          PROVE  JobInv'
      <3>1. PICK j : j = Rec("findUser", job[r].user, job[r].challenge, a,
                             job[r].had, job[r].seen, job[r].verified)
        OBVIOUS
      <3>2. /\ job[r].stage = "saveKey" /\ cred'[a] = response'[job[r].challenge].cred
            /\ accepted' = accepted
        BY <2>0, <2>3 DEF SaveAuthenticator, At, TypeOK
      <3>3. JobFacts(j)'
        BY <2>0, <3>1, <3>2 DEF JobFacts, Answered, RegisterStages, GiveStages, Rec
      <3> QED
        BY <1>0, <2>3, <3>1, <3>2, <3>3, JobPut, RegisterPuts
    <2>4. CASE FindUser(r)
      <3>1. PICK j : j = Rec("saveUser", job[r].user, job[r].challenge, job[r].doc,
                             keys[job[r].user], job[r].seen, job[r].verified)
        OBVIOUS
      <3>2. job[r].stage = "findUser" /\ cred' = cred /\ accepted' = accepted
        BY <2>4 DEF FindUser, At
      <3>3. JobFacts(j)'
        BY <2>0, <3>1, <3>2 DEF JobFacts, Answered, RegisterStages, GiveStages, Rec
      <3> QED
        BY <1>0, <2>4, <3>1, <3>2, <3>3, JobPut, RegisterPuts
    <2>5. CASE SaveNewAuthenticator(r)
      <3>1. PICK j : j = Rec("delRegistered", job[r].user, job[r].challenge, None, {}, 0, FALSE)
        OBVIOUS
      <3>2. job[r].stage = "saveUser" /\ accepted' = accepted
        BY <2>5 DEF SaveNewAuthenticator, At
      <3>3. JobFacts(j)'
        BY <2>0, <3>1, <3>2 DEF JobFacts, Answered, RegisterStages, GiveStages, Rec
      <3> QED
        BY <1>0, <2>5, <3>1, <3>2, <3>3, JobPut, FreeFacts, RegisterPuts
    <2>6. CASE Registered(r) \/ IssueToken(r) \/ Abort(r)
      BY <1>0, <2>6, FreeFacts DEF Registered, IssueToken, Abort
    <2>7. CASE GetChallenge(r)
      <3>1. PICK j : j = Rec("findKey", job[r].user, job[r].challenge, job[r].doc,
                             job[r].had, job[r].seen, job[r].verified)
        OBVIOUS
      <3>2. job[r].stage = "getChallenge" /\ UNCHANGED <<cred, keys>>
        BY <2>7 DEF GetChallenge, At
      <3>3. ASSUME Accept(job[r].user, job[r].challenge), Put(r, j)
            PROVE  JobInv'
        <4>1. /\ accepted' = accepted \cup {job[r].challenge}
              /\ job[r].challenge \in Challenges /\ response'[job[r].challenge] # NoResponse
          BY <2>0, <3>2, <3>3 DEF Accept, HasItsItems, JobFacts, Answered
        <4>2. JobFacts(j)'
          BY <2>0, <3>1, <3>2, <4>1 DEF JobFacts, Answered, RegisterStages, GiveStages, Rec
        <4> QED
          BY <1>0, <3>3, <4>1, <4>2, JobPut
      <3> QED
        BY <1>0, <2>7, <3>1, <3>3, FreeFacts, GivePuts
    <2>8. CASE FindAuthenticator(r)
      <3>1. job[r].stage = "findKey" /\ UNCHANGED <<cred, keys, accepted>>
        BY <2>8 DEF FindAuthenticator, At
      <3>2. ASSUME NEW v \in BOOLEAN,
                   Put(r, Rec("saveCounter", job[r].user, job[r].challenge, job[r].doc,
                              job[r].had, counter[job[r].doc], v))
            PROVE  JobInv'
        <4>1. PICK j : j = Rec("saveCounter", job[r].user, job[r].challenge, job[r].doc,
                               job[r].had, counter[job[r].doc], v)
          OBVIOUS
        <4>2. JobFacts(j)'
          BY <2>0, <3>1, <4>1 DEF JobFacts, Answered, RegisterStages, GiveStages, Rec
        <4> QED
          BY <1>0, <3>1, <3>2, <4>1, <4>2, JobPut
      <3> QED
        BY <1>0, <2>8, <3>1, <3>2, FreeFacts, GivePuts
    <2>9. CASE SaveCounter(r)
      <3>1. PICK j : j = Rec("delGiven", job[r].user, job[r].challenge, None,
                             {}, 0, job[r].verified)
        OBVIOUS
      <3>2. job[r].stage = "saveCounter" /\ UNCHANGED <<cred, keys, accepted>>
        BY <2>9 DEF SaveCounter, At
      <3>3. JobFacts(j)'
        BY <2>0, <3>1, <3>2 DEF JobFacts, Answered, RegisterStages, GiveStages, Rec
      <3> QED
        BY <1>0, <2>9, <3>1, <3>2, <3>3, JobPut, GivePuts
    <2>10. CASE Given(r)
      <3>1. PICK j : j = Rec("sign", job[r].user, None, None, {}, 0, job[r].verified)
        OBVIOUS
      <3>2. job[r].stage = "delGiven" /\ UNCHANGED <<keys, accepted>>
        BY <2>10 DEF Given, At
      <3>3. JobFacts(j)'
        BY <2>0, <3>1, <3>2 DEF JobFacts, RegisterStages, GiveStages, Rec
      <3> QED
        BY <1>0, <2>10, <3>1, <3>2, <3>3, JobPut, GivePuts
    <2> QED
      BY <1>1, <2>1, <2>2, <2>3, <2>4, <2>5, <2>6, <2>7, <2>8, <2>9, <2>10 DEF RequestStep
  <1>2. ASSUME NEW c \in Challenges, ClientStep(c)
        PROVE  JobInv'
    BY <1>a, <1>2 DEF ClientStep, Create, Sign
  <1>3. ASSUME NEW u \in Users, NEW c \in Challenges, OptionsStep(u, c)
        PROVE  JobInv'
    <2>1. CASE RejectedSet(u, c)
      BY <1>b, <2>1 DEF RejectedSet, Down
    <2> QED
      BY <1>a, <1>3, <2>1 DEF OptionsStep, GenerateRegistration, GenerateAuthentication
  <1>4. ASSUME NEW u \in Users, Expire(u)
        PROVE  JobInv'
    BY <1>a, <1>4 DEF Expire
  <1>5. CASE Crash
    BY <1>b, <1>5 DEF Crash, Down
  <1>6. CASE UNCHANGED vars
    BY <1>a, <1>6 DEF vars
  <1> QED
    BY <1>1, <1>2, <1>3, <1>4, <1>5, <1>6 DEF Next

-----------------------------------------------------------------------------
(***************************************************************************)
(* The steps as the challenge and the verifications past their check see    *)
(* them: one is let through, one deletes the challenge, options set a new    *)
(* one, or some end and challenges fade.                                   *)
(***************************************************************************)

LetThrough(r, u, c) ==
    /\ challenge[u] = c /\ Accept(u, c)
    /\ \A v \in Users : ~Past(r, v)
    /\ Past(r, u)' /\ job'[r].challenge = c
    /\ \A q \in Slots : q # r => job'[q] = job[q]
    /\ UNCHANGED <<redis, documents, client>>

Deletes(r, u) ==
    /\ Past(r, u) /\ Del(u, job[r].challenge)
    /\ \A v \in Users : ~Past(r, v)'
    /\ \A q \in Slots : q # r => job'[q] = job[q]
    /\ UNCHANGED <<documents, client, history>>

Sets(u, c) ==
    /\ SetChallenge(u, c)
    /\ response[c] = NoResponse /\ c \notin accepted
    /\ UNCHANGED <<job, documents, response, history>>

\* No verification is let through, and those that end are cut short.
Kept ==
    /\ UNCHANGED <<accepted, repeated, crossed>>
    /\ \A q \in Slots, u \in Users :
         /\ Past(q, u)' => Past(q, u) /\ job'[q].challenge = job[q].challenge
         /\ Past(q, u) /\ ~Past(q, u)' => job[q].challenge \in cut'

Faded ==
    \A u \in Users :
        \/ challenge'[u] = challenge[u] /\ standing'[u] \in {standing[u], None}
        \/ challenge'[u] = None /\ standing'[u] = None

\* A slot that gets a job past its check only if it had one, of the same user and
\* challenge, or is cut short.
LEMMA PutKept ==
    ASSUME TypeOK, NEW r \in Slots, NEW j, Put(r, j), UNCHANGED <<accepted, repeated, crossed>>,
           j.stage \in RegisterStages \cup GiveStages =>
              /\ job[r].stage \in RegisterStages \cup GiveStages
              /\ j.user = job[r].user /\ j.challenge = job[r].challenge,
           \/ j.stage \in RegisterStages \cup GiveStages
           \/ job[r].stage \notin RegisterStages \cup GiveStages
           \/ job[r].challenge \in cut'
    PROVE  Kept
  <1>1. ASSUME NEW q \in Slots, NEW u \in Users
        PROVE  /\ Past(q, u)' => Past(q, u) /\ job'[q].challenge = job[q].challenge
               /\ Past(q, u) /\ ~Past(q, u)' => job[q].challenge \in cut'
    <2>1. CASE q = r
      BY <2>1 DEF Put, Past
    <2>2. CASE q # r
      BY <2>2 DEF Put, Past
    <2> QED
      BY <2>1, <2>2
  <1> QED
    BY <1>1 DEF Kept

\* A request that is over takes nothing past its check away but what is cut short.
LEMMA FinishKept ==
    ASSUME TypeOK, NEW r \in Slots, Finish(r), UNCHANGED <<accepted, repeated, crossed>>,
           job[r].stage \in RegisterStages \cup GiveStages => job[r].challenge \in cut'
    PROVE  Kept
  <1>1. PICK j : j = Rec("idle", None, None, None, {}, 0, FALSE)
    OBVIOUS
  <1>2. j.stage \notin RegisterStages \cup GiveStages
    BY <1>1 DEF Rec, RegisterStages, GiveStages
  <1> QED
    BY <1>1, <1>2, FinishPuts, PutKept

\* A request past its check is so for a user.
LEMMA StagePast ==
    ASSUME TypeOK, NEW r \in Slots, job[r].stage \in RegisterStages \cup GiveStages
    PROVE  job[r].user \in Users /\ Past(r, job[r].user)
  BY DEF TypeOK, HasItsItems, Past, RegisterStages, GiveStages

\* A failure notes the challenge of each request past its check.
LEMMA CutShortHas ==
    ASSUME TypeOK, NEW R \in SUBSET Slots, CutShort(R), NEW r \in R,
           job[r].stage \in RegisterStages \cup GiveStages
    PROVE  job[r].challenge \in cut'
  BY StagePast DEF CutShort

\* So does a process that goes down.
LEMMA DownKept ==
    ASSUME TypeOK, Down
    PROVE  Kept
  <1>1. \A q \in Slots, u \in Users : ~Past(q, u)'
    BY DEF Down, Free, Request, Past, RegisterStages, GiveStages
  <1>2. \A q \in Slots, u \in Users : Past(q, u) => job[q].challenge \in cut'
    BY DEF Down, CutShort
  <1> QED
    BY <1>1, <1>2 DEF Down, Kept

\* A step lets a challenge through, deletes one, sets one, or none of these.
LEMMA Effects ==
    ASSUME TypeOK, ClientInv, JobInv, [Next]_vars
    PROVE  \/ \E r \in Slots, u \in Users, c \in Challenges : LetThrough(r, u, c)
           \/ \E r \in Slots, u \in Users : Deletes(r, u)
           \/ \E u \in Users, c \in Challenges : Sets(u, c)
           \/ Kept /\ Faded
  <1> USE DEF redis, documents, client, history
  <1> DEFINE Goal ==
           \/ \E r \in Slots, u \in Users, c \in Challenges : LetThrough(r, u, c)
           \/ \E r \in Slots, u \in Users : Deletes(r, u)
           \/ \E u \in Users, c \in Challenges : Sets(u, c)
           \/ Kept /\ Faded
  <1>a. ASSUME UNCHANGED redis
        PROVE  Faded
    BY <1>a DEF Faded
  <1>b. ASSUME UNCHANGED <<job, accepted, repeated, crossed>>
        PROVE  Kept
    BY <1>b DEF Kept, Past
  <1>1. ASSUME NEW r \in Slots, RequestStep(r)
        PROVE  Goal
    <2>0. job[r] \in Jobs /\ HasItsItems(job[r]) /\ JobFacts(job[r])
      BY DEF TypeOK, JobInv
    <2>1. ASSUME NEW u \in Users, NEW c \in Challenges, VerifyRegistration(r, u, c)
          PROVE  LetThrough(r, u, c)
      <3>1. Put(r, Rec("saveKey", u, c, None, {}, 0, FALSE))
        BY <2>1, RegisterPuts
      <3>2. Past(r, u)' /\ job'[r].challenge = c
        BY <3>1 DEF Put, Rec, Past, RegisterStages
      <3>3. \A v \in Users : ~Past(r, v)
        BY <2>1 DEF VerifyRegistration, At, Past, RegisterStages, GiveStages
      <3> QED
        BY <2>1, <3>1, <3>2, <3>3 DEF VerifyRegistration, ChallengeMatches, LetThrough, Put
    <2>2. ASSUME NEW u \in Users, NEW c \in Challenges, NEW a \in Docs, GetUser(r, u, c, a)
          PROVE  Kept /\ Faded
      <3>1. PICK j : j = Rec("getChallenge", u, c, a, {}, counter[a], FALSE)
        OBVIOUS
      <3>2. Put(r, j)
        BY <2>2, <3>1, GivePuts
      <3> QED
        BY <2>2, <3>1, <3>2, <1>a, PutKept
        DEF GetUser, At, Rec, RegisterStages, GiveStages
    <2>3. ASSUME NEW a \in Docs, SaveAuthenticator(r, a)
          PROVE  Kept /\ Faded
      <3>1. PICK j : j = Rec("findUser", job[r].user, job[r].challenge, a,
                             job[r].had, job[r].seen, job[r].verified)
        OBVIOUS
      <3>2. Put(r, j)
        BY <2>3, <3>1, RegisterPuts
      <3> QED
        BY <2>3, <3>1, <3>2, <1>a, PutKept DEF SaveAuthenticator, At, Rec, RegisterStages
    <2>4. CASE FindUser(r)
      <3>1. PICK j : j = Rec("saveUser", job[r].user, job[r].challenge, job[r].doc,
                             keys[job[r].user], job[r].seen, job[r].verified)
        OBVIOUS
      <3>2. Put(r, j)
        BY <2>4, <3>1, RegisterPuts
      <3> QED
        BY <2>4, <3>1, <3>2, <1>a, PutKept DEF FindUser, At, Rec, RegisterStages
    <2>5. CASE SaveNewAuthenticator(r)
      <3>1. PICK j : j = Rec("delRegistered", job[r].user, job[r].challenge, None, {}, 0, FALSE)
        OBVIOUS
      <3>2. job[r].stage = "saveUser" /\ UNCHANGED <<redis, accepted, repeated, crossed>>
        BY <2>5 DEF SaveNewAuthenticator, At
      <3>3. Put(r, j) \/ (Finish(r) /\ CutShort({r}))
        BY <2>5, <3>1, RegisterPuts
      <3>4. CASE Put(r, j)
        BY <3>1, <3>2, <3>4, <1>a, PutKept DEF Rec, RegisterStages
      <3>5. CASE Finish(r) /\ CutShort({r})
        BY <3>2, <3>5, <1>a, FinishKept, CutShortHas
      <3> QED
        BY <3>3, <3>4, <3>5
    <2>6. CASE Registered(r) \/ Given(r)
      <3>1. Past(r, job[r].user) /\ job[r].user \in Users /\ Del(job[r].user, job[r].challenge)
        BY <2>0, <2>6
        DEF Registered, Given, At, Past, HasItsItems, RegisterStages, GiveStages
      <3>2. \E j : Put(r, j) /\ j.stage \notin RegisterStages \cup GiveStages
        <4>1. PICK j : j = Rec("idle", None, None, None, {}, 0, FALSE)
          OBVIOUS
        <4>2. PICK k : k = Rec("sign", job[r].user, None, None, {}, 0, job[r].verified)
          OBVIOUS
        <4>3. /\ j.stage \notin RegisterStages \cup GiveStages
              /\ k.stage \notin RegisterStages \cup GiveStages
          BY <4>1, <4>2 DEF Rec, RegisterStages, GiveStages
        <4>4. Put(r, j) \/ Put(r, k)
          BY <2>6, <4>1, <4>2, FinishPuts, GivePuts DEF Registered
        <4> QED
          BY <4>3, <4>4
      <3>3. \A v \in Users : ~Past(r, v)'
        BY <3>2 DEF Put, Past
      <3> QED
        BY <2>6, <3>1, <3>2, <3>3 DEF Deletes, Registered, Given, Put
    <2>7. CASE GetChallenge(r)
      <3>0. job[r].stage = "getChallenge" /\ UNCHANGED <<redis, documents, passed, client>>
        BY <2>7 DEF GetChallenge, At
      <3>1. PICK j : j = Rec("findKey", job[r].user, job[r].challenge, job[r].doc,
                             job[r].had, job[r].seen, job[r].verified)
        OBVIOUS
      <3>2. \/ /\ ChallengeMatches(job[r].user, job[r].challenge)
               /\ Accept(job[r].user, job[r].challenge) /\ Put(r, j)
            \/ Finish(r) /\ UNCHANGED history
        BY <2>7, <3>1, GivePuts
      <3>3. ASSUME ChallengeMatches(job[r].user, job[r].challenge),
                   Accept(job[r].user, job[r].challenge), Put(r, j)
            PROVE  LetThrough(r, job[r].user, job[r].challenge)
        <4>1. \A v \in Users : ~Past(r, v)
          BY <3>0 DEF Past, RegisterStages, GiveStages
        <4>2. Past(r, job[r].user)'
              <=> job'[r].user = job'[r].user /\ job'[r].stage \in RegisterStages \cup GiveStages
          BY DEF Past
        <4>3. job'[r].stage = "findKey" /\ job'[r].user = job[r].user
              /\ job'[r].challenge = job[r].challenge
          BY <3>1, <3>3 DEF Put, Rec
        <4>4. PICK u : u = job[r].user
          OBVIOUS
        <4>5. Past(r, u)'
          BY <4>3, <4>4 DEF Past, GiveStages
        <4>6. LetThrough(r, u, job[r].challenge)
          BY <3>0, <3>3, <4>1, <4>3, <4>4, <4>5 DEF LetThrough, ChallengeMatches, Put
        <4> QED
          BY <4>4, <4>6
      <3>4. CASE Finish(r) /\ UNCHANGED history
        BY <3>0, <3>4, <1>a, FinishKept DEF RegisterStages, GiveStages
      <3>5. job[r].user \in Users /\ job[r].challenge \in Challenges
        BY <2>0, <3>0 DEF HasItsItems
      <3> QED
        BY <3>2, <3>3, <3>4, <3>5
    <2>8. CASE FindAuthenticator(r)
      <3>0. job[r].stage = "findKey" /\ UNCHANGED <<redis, accepted, repeated, crossed>>
        BY <2>8 DEF FindAuthenticator, At
      <3>1. ASSUME NEW v \in BOOLEAN,
                   Put(r, Rec("saveCounter", job[r].user, job[r].challenge, job[r].doc,
                              job[r].had, counter[job[r].doc], v))
            PROVE  Kept
        <4>1. PICK j : j = Rec("saveCounter", job[r].user, job[r].challenge, job[r].doc,
                               job[r].had, counter[job[r].doc], v)
          OBVIOUS
        <4> QED
          BY <3>0, <3>1, <4>1, PutKept DEF Rec, GiveStages
      <3>2. ASSUME Finish(r), CutShort({r})
            PROVE  Kept
        BY <3>0, <3>2, FinishKept, CutShortHas
      <3> QED
        BY <2>8, <3>0, <3>1, <3>2, <1>a, GivePuts
    <2>9. CASE SaveCounter(r)
      <3>1. PICK j : j = Rec("delGiven", job[r].user, job[r].challenge, None,
                             {}, 0, job[r].verified)
        OBVIOUS
      <3>2. Put(r, j)
        BY <2>9, <3>1, GivePuts
      <3> QED
        BY <2>9, <3>1, <3>2, <1>a, PutKept DEF SaveCounter, At, Rec, GiveStages
    <2>10. CASE IssueToken(r)
      BY <2>10, <1>a, FinishKept DEF IssueToken, At, RegisterStages, GiveStages
    <2>11. CASE Abort(r)
      BY <2>11, <1>a, FinishKept, CutShortHas DEF Abort
    <2> QED
      BY <1>1, <2>1, <2>2, <2>3, <2>4, <2>5, <2>6, <2>7, <2>8, <2>9, <2>10, <2>11
      DEF RequestStep
  <1>2. ASSUME NEW c \in Challenges, ClientStep(c)
        PROVE  Kept /\ Faded
    BY <1>2, <1>a, <1>b DEF ClientStep, Create, Sign
  <1>3. ASSUME NEW u \in Users, NEW c \in Challenges, OptionsStep(u, c)
        PROVE  Goal
    <2>1. CASE GenerateRegistration(u, c) \/ GenerateAuthentication(u, c)
      <3>1. offer[c] = NoOffer
        BY <2>1 DEF GenerateRegistration, GenerateAuthentication, Offer
      <3>2. response[c] = NoResponse /\ c \notin accepted
        BY <3>1 DEF ClientInv, JobInv, NoOffer
      <3>3. Sets(u, c)
        BY <2>1, <3>2 DEF GenerateRegistration, GenerateAuthentication, Sets
      <3> QED
        BY <3>3
    <2>2. CASE RejectedSet(u, c)
      <3>1. Kept
        BY <2>2, DownKept DEF RejectedSet
      <3>2. Faded
        BY <2>2 DEF RejectedSet, Faded, TypeOK
      <3> QED
        BY <3>1, <3>2
    <2> QED
      BY <1>3, <2>1, <2>2 DEF OptionsStep
  <1>4. ASSUME NEW u \in Users, Expire(u)
        PROVE  Kept /\ Faded
    <2>1. Faded
      BY <1>4 DEF Expire, Faded, TypeOK
    <2> QED
      BY <1>4, <1>b, <2>1 DEF Expire
  <1>5. CASE Crash
    BY <1>5, <1>a, DownKept DEF Crash
  <1>6. CASE UNCHANGED vars
    BY <1>6, <1>a, <1>b DEF vars
  <1> QED
    BY <1>1, <1>2, <1>3, <1>4, <1>5, <1>6 DEF Next

-----------------------------------------------------------------------------
(***************************************************************************)
(* Challenges.                                                             *)
(***************************************************************************)

\* Every step keeps CrossInv: who is let through while another is past notes both.
LEMMA CrossInvStep ==
    ASSUME TypeOK, ClientInv, JobInv, CrossInv, [Next]_vars
    PROVE  CrossInv'
  <1> SUFFICES ASSUME NEW p \in Slots, NEW q \in Slots, NEW v \in Users,
                      p # q, Past(p, v)', Past(q, v)'
               PROVE  job'[p].challenge \in crossed'
    BY DEF CrossInv
  <1>1. ASSUME NEW r \in Slots, NEW u \in Users, NEW c \in Challenges, LetThrough(r, u, c)
        PROVE  job'[p].challenge \in crossed'
    <2>1. CASE p # r /\ q # r
      BY <1>1, <2>1 DEF LetThrough, Accept, Past, CrossInv
    <2>2. CASE p = r
      <3>1. v = u /\ Past(q, u) /\ job'[p].challenge = c
        BY <1>1, <2>2 DEF LetThrough, Past
      <3> QED
        BY <1>1, <3>1 DEF LetThrough, Accept
    <2>3. CASE q = r
      <3>1. v = u /\ Past(p, u) /\ job'[p] = job[p]
        BY <1>1, <2>3 DEF LetThrough, Past
      <3> QED
        BY <1>1, <3>1 DEF LetThrough, Accept
    <2> QED
      BY <2>1, <2>2, <2>3
  <1>2. ASSUME NEW r \in Slots, NEW u \in Users, Deletes(r, u)
        PROVE  job'[p].challenge \in crossed'
    BY <1>2 DEF Deletes, Past, CrossInv, history
  <1>3. ASSUME NEW u \in Users, NEW c \in Challenges, Sets(u, c)
        PROVE  job'[p].challenge \in crossed'
    BY <1>3 DEF Sets, Past, CrossInv, history
  <1>4. CASE Kept
    BY <1>4 DEF Kept, CrossInv
  <1> QED
    BY <1>1, <1>2, <1>3, <1>4, Effects

\* Every step keeps AcceptedIsUsedUp: only its own verification, or one cut short,
\* leaves an accepted challenge in Redis.
LEMMA UsedUpStep ==
    ASSUME TypeOK, ClientInv, JobInv, AcceptedIsUsedUp, [Next]_vars
    PROVE  AcceptedIsUsedUp'
  <1> SUFFICES ASSUME NEW v \in Users, challenge'[v] \in accepted'
               PROVE  \/ challenge'[v] \in cut'
                      \/ \E q \in Slots : Past(q, v)' /\ job'[q].challenge = challenge'[v]
    BY DEF AcceptedIsUsedUp
  <1> DEFINE Goal == \/ challenge'[v] \in cut'
                     \/ \E q \in Slots : Past(q, v)' /\ job'[q].challenge = challenge'[v]
  <1>0. None \notin accepted'
    <2>1. None \notin accepted
      BY WebAuthnAssumption DEF TypeOK
    <2>2. accepted' = accepted \/ \E c \in Challenges : accepted' = accepted \cup {c}
      BY Effects DEF LetThrough, Accept, Deletes, Sets, Kept, history
    <2> QED
      BY <2>1, <2>2, WebAuthnAssumption
  <1>1. ASSUME NEW r \in Slots, NEW u \in Users, NEW c \in Challenges, LetThrough(r, u, c)
        PROVE  Goal
    <2>0. challenge' = challenge /\ accepted' = accepted \cup {c} /\ cut' = cut
      BY <1>1 DEF LetThrough, Accept, redis
    <2>1. CASE challenge[v] = c
      <3>1. v = u
        BY <1>1, <2>1, WebAuthnAssumption DEF LetThrough, ClientInv
      <3> QED
        BY <1>1, <2>0, <2>1, <3>1 DEF LetThrough
    <2>2. CASE challenge[v] \in accepted
      <3>1. CASE challenge[v] \in cut
        BY <2>0, <3>1
      <3>2. ASSUME NEW q \in Slots, Past(q, v), job[q].challenge = challenge[v]
            PROVE  Goal
        <4>1. q # r /\ job'[q] = job[q]
          BY <1>1, <3>2 DEF LetThrough
        <4> QED
          BY <2>0, <3>2, <4>1 DEF Past
      <3> QED
        BY <2>2, <3>1, <3>2 DEF AcceptedIsUsedUp
    <2> QED
      BY <2>0, <2>1, <2>2
  <1>2. ASSUME NEW r \in Slots, NEW u \in Users, Deletes(r, u)
        PROVE  Goal
    <2>1. v # u /\ challenge'[v] = challenge[v] /\ UNCHANGED history
      BY <1>0, <1>2 DEF Deletes, Del, TypeOK
    <2>2. CASE challenge[v] \in cut
      BY <2>1, <2>2 DEF history
    <2>3. ASSUME NEW q \in Slots, Past(q, v), job[q].challenge = challenge[v]
          PROVE  Goal
      <3>1. q # r /\ job'[q] = job[q]
        BY <1>2, <2>1, <2>3 DEF Deletes, Past
      <3> QED
        BY <2>1, <2>3, <3>1 DEF Past
    <2> QED
      BY <2>1, <2>2, <2>3 DEF AcceptedIsUsedUp, history
  <1>3. ASSUME NEW u \in Users, NEW c \in Challenges, Sets(u, c)
        PROVE  Goal
    <2>1. v # u /\ challenge'[v] = challenge[v]
      BY <1>3 DEF Sets, SetChallenge, history, TypeOK
    <2> QED
      BY <1>3, <2>1 DEF Sets, history, Past, AcceptedIsUsedUp
  <1>4. CASE Kept /\ Faded
    <2>1. challenge'[v] = challenge[v] /\ challenge[v] \in accepted
      BY <1>0, <1>4 DEF Kept, Faded
    <2>2. cut \subseteq cut'
      BY Growth DEF Grown
    <2> QED
      BY <1>4, <2>1, <2>2 DEF Kept, AcceptedIsUsedUp
  <1> QED
    BY <1>1, <1>2, <1>3, <1>4, Effects

\* Every step keeps OptionsStand: a deletion by an earlier verification has ended the
\* standing of the options before.
LEMMA StandStep ==
    ASSUME TypeOK, ClientInv, JobInv, OptionsStand, StandInv, [Next]_vars
    PROVE  OptionsStand' /\ StandInv'
  <1>1. ASSUME NEW r \in Slots, NEW u \in Users, NEW c \in Challenges, LetThrough(r, u, c)
        PROVE  OptionsStand' /\ StandInv'
    <2>1. OptionsStand'
      BY <1>1 DEF LetThrough, redis, OptionsStand
    <2>2. ASSUME NEW q \in Slots, NEW v \in Users, Past(q, v)', standing[v] # None
          PROVE  job'[q].challenge = standing[v]
      <3>1. CASE q = r
        <4>1. v = u
          BY <1>1, <2>2, <3>1 DEF LetThrough, Past
        <4> QED
          BY <1>1, <2>2, <3>1, <4>1 DEF LetThrough, OptionsStand
      <3>2. CASE q # r
        BY <1>1, <2>2, <3>2 DEF LetThrough, Past, StandInv
      <3> QED
        BY <3>1, <3>2
    <2> QED
      BY <1>1, <2>1, <2>2 DEF LetThrough, redis, StandInv
  <1>2. ASSUME NEW r \in Slots, NEW u \in Users, Deletes(r, u)
        PROVE  OptionsStand' /\ StandInv'
    <2>1. standing'[u] = None /\ \A v \in Users : v # u => standing'[v] = standing[v]
      BY <1>2 DEF Deletes, Del, TypeOK, StandInv
    <2>2. \A v \in Users : v # u => challenge'[v] = challenge[v]
      BY <1>2 DEF Deletes, Del, TypeOK
    <2>3. \A q \in Slots, v \in Users :
            Past(q, v)' => Past(q, v) /\ job'[q].challenge = job[q].challenge
      BY <1>2 DEF Deletes, Past
    <2> QED
      BY <2>1, <2>2, <2>3 DEF OptionsStand, StandInv
  <1>3. ASSUME NEW u \in Users, NEW c \in Challenges, Sets(u, c)
        PROVE  OptionsStand' /\ StandInv'
    <2>1. challenge' = [challenge EXCEPT ![u] = c] /\ job' = job
      BY <1>3 DEF Sets, SetChallenge
    <2>2. CASE \E r \in Slots : Past(r, u)
      <3>1. standing' = [standing EXCEPT ![u] = None]
        BY <1>3, <2>2 DEF Sets, SetChallenge
      <3> QED
        BY <2>1, <3>1 DEF OptionsStand, StandInv, Past, TypeOK
    <2>3. CASE ~ \E r \in Slots : Past(r, u)
      <3>1. standing' = [standing EXCEPT ![u] = c]
        BY <1>3, <2>3 DEF Sets, SetChallenge
      <3> QED
        BY <2>1, <2>3, <3>1 DEF OptionsStand, StandInv, Past, TypeOK
    <2> QED
      BY <2>2, <2>3
  <1>4. CASE Kept /\ Faded
    BY <1>4 DEF Kept, Faded, OptionsStand, StandInv
  <1> QED
    BY <1>1, <1>2, <1>3, <1>4, Effects

-----------------------------------------------------------------------------
(***************************************************************************)
(* Where a request's stage, a document and a user's keys come from.         *)
(***************************************************************************)

\* The step that brought a request to its stage, and what it brought along.
LEMMA Origins ==
    ASSUME TypeOK, [Next]_vars, NEW q \in Slots, job'[q] # job[q]
    PROVE  /\ At(q, "saveKey")' => \E u \in Users, c \in Challenges :
                VerifyRegistration(q, u, c) /\ job'[q].challenge = c
           /\ At(q, "getChallenge")' => \E u \in Users, c \in Challenges, a \in Docs :
                GetUser(q, u, c, a) /\ job'[q].challenge = c /\ job'[q].seen = counter[a]
           /\ At(q, "findKey")' =>
                /\ GetChallenge(q) /\ ChallengeMatches(job[q].user, job[q].challenge)
                /\ Accept(job[q].user, job[q].challenge)
                /\ job'[q].challenge = job[q].challenge /\ job'[q].seen = job[q].seen
           /\ At(q, "saveCounter")' =>
                FindAuthenticator(q) /\ job'[q].challenge = job[q].challenge
  <1> DEFINE Goal ==
           /\ At(q, "saveKey")' => \E u \in Users, c \in Challenges :
                VerifyRegistration(q, u, c) /\ job'[q].challenge = c
           /\ At(q, "getChallenge")' => \E u \in Users, c \in Challenges, a \in Docs :
                GetUser(q, u, c, a) /\ job'[q].challenge = c /\ job'[q].seen = counter[a]
           /\ At(q, "findKey")' =>
                /\ GetChallenge(q) /\ ChallengeMatches(job[q].user, job[q].challenge)
                /\ Accept(job[q].user, job[q].challenge)
                /\ job'[q].challenge = job[q].challenge /\ job'[q].seen = job[q].seen
           /\ At(q, "saveCounter")' =>
                FindAuthenticator(q) /\ job'[q].challenge = job[q].challenge
  <1>a. ASSUME job'[q].stage \notin {"saveKey", "getChallenge", "findKey", "saveCounter"}
        PROVE  Goal
    BY <1>a DEF At
  <1>b. ASSUME Down
        PROVE  Goal
    BY <1>a, <1>b DEF Down, Free, Request
  <1>c. ASSUME NEW r \in Slots, Finish(r)
        PROVE  Goal
    <2>1. q = r
      BY <1>c DEF Finish, TypeOK
    <2> QED
      BY <1>a, <1>c, <2>1, FinishPuts DEF Put, Rec
  <1>1. ASSUME NEW r \in Slots, RequestStep(r)
        PROVE  Goal
    <2>a. ASSUME NEW s, NEW u, NEW c, NEW a, NEW h, NEW n, NEW v,
                 Put(r, Rec(s, u, c, a, h, n, v))
          PROVE  /\ q = r /\ job'[q].stage = s /\ job'[q].challenge = c
                 /\ job'[q].seen = n
      BY <2>a DEF Put, Rec
    <2>1. ASSUME NEW u \in Users, NEW c \in Challenges, VerifyRegistration(r, u, c)
          PROVE  Goal
      <3>1. q = r /\ job'[q].stage = "saveKey" /\ job'[q].challenge = c
        BY <2>a, <2>1, RegisterPuts
      <3> QED
        BY <2>1, <3>1 DEF At
    <2>2. ASSUME NEW u \in Users, NEW c \in Challenges, NEW a \in Docs, GetUser(r, u, c, a)
          PROVE  Goal
      <3>1. Put(r, Rec("getChallenge", u, c, a, {}, counter[a], FALSE))
        BY <2>2, GivePuts
      <3>2. /\ q = r /\ job'[q].stage = "getChallenge" /\ job'[q].challenge = c
            /\ job'[q].seen = counter[a]
        BY <2>a, <3>1
      <3> QED
        BY <2>2, <3>2 DEF At
    <2>3. ASSUME NEW a \in Docs, SaveAuthenticator(r, a)
          PROVE  Goal
      <3>1. Put(r, Rec("findUser", job[r].user, job[r].challenge, a,
                       job[r].had, job[r].seen, job[r].verified))
        BY <2>3, RegisterPuts
      <3>2. q = r /\ job'[q].stage = "findUser"
        BY <2>a, <3>1
      <3> QED
        BY <1>a, <3>2
    <2>4. CASE FindUser(r)
      <3>1. Put(r, Rec("saveUser", job[r].user, job[r].challenge, job[r].doc,
                       keys[job[r].user], job[r].seen, job[r].verified))
        BY <2>4, RegisterPuts
      <3>2. q = r /\ job'[q].stage = "saveUser"
        BY <2>a, <3>1
      <3> QED
        BY <1>a, <3>2
    <2>5. CASE SaveNewAuthenticator(r)
      <3>1. ASSUME Put(r, Rec("delRegistered", job[r].user, job[r].challenge,
                              None, {}, 0, FALSE))
            PROVE  Goal
        <4>1. q = r /\ job'[q].stage = "delRegistered"
          BY <2>a, <3>1
        <4> QED
          BY <1>a, <4>1
      <3>2. Finish(r) \/ Put(r, Rec("delRegistered", job[r].user, job[r].challenge,
                                   None, {}, 0, FALSE))
        BY <2>5, RegisterPuts
      <3> QED
        BY <1>c, <3>1, <3>2
    <2>6. CASE Registered(r) \/ IssueToken(r) \/ Abort(r)
      BY <1>c, <2>6 DEF Registered, IssueToken, Abort
    <2>7. CASE GetChallenge(r)
      <3>1. ASSUME ChallengeMatches(job[r].user, job[r].challenge),
                   Accept(job[r].user, job[r].challenge),
                   Put(r, Rec("findKey", job[r].user, job[r].challenge, job[r].doc,
                              job[r].had, job[r].seen, job[r].verified))
            PROVE  Goal
        <4>1. /\ q = r /\ job'[q].stage = "findKey" /\ job'[q].challenge = job[r].challenge
              /\ job'[q].seen = job[r].seen
          BY <2>a, <3>1
        <4> QED
          BY <2>7, <3>1, <4>1 DEF At
      <3> QED
        BY <1>c, <2>7, <3>1, GivePuts
    <2>8. CASE FindAuthenticator(r)
      <3>1. ASSUME NEW v \in BOOLEAN,
                   Put(r, Rec("saveCounter", job[r].user, job[r].challenge, job[r].doc,
                              job[r].had, counter[job[r].doc], v))
            PROVE  Goal
        <4>1. q = r /\ job'[q].stage = "saveCounter" /\ job'[q].challenge = job[r].challenge
          BY <2>a, <3>1
        <4> QED
          BY <2>8, <4>1 DEF At
      <3> QED
        BY <1>c, <2>8, <3>1, GivePuts
    <2>9. CASE SaveCounter(r) \/ Given(r)
      <3>1. \/ Put(r, Rec("delGiven", job[r].user, job[r].challenge, None,
                          {}, 0, job[r].verified))
            \/ Put(r, Rec("sign", job[r].user, None, None, {}, 0, job[r].verified))
        BY <2>9, GivePuts
      <3>2. job'[q].stage \in {"delGiven", "sign"}
        BY <2>a, <3>1
      <3> QED
        BY <1>a, <3>2
    <2> QED
      BY <1>1, <2>1, <2>2, <2>3, <2>4, <2>5, <2>6, <2>7, <2>8, <2>9 DEF RequestStep
  <1>2. ASSUME NEW c \in Challenges, ClientStep(c)
        PROVE  FALSE
    BY <1>2 DEF ClientStep, Create, Sign
  <1>3. ASSUME NEW u \in Users, NEW c \in Challenges, OptionsStep(u, c)
        PROVE  Goal
    BY <1>b, <1>3
    DEF OptionsStep, GenerateRegistration, GenerateAuthentication, RejectedSet
  <1>4. ASSUME NEW u \in Users, Expire(u)
        PROVE  FALSE
    BY <1>4 DEF Expire
  <1>5. CASE Crash
    BY <1>b, <1>5 DEF Crash
  <1>6. CASE UNCHANGED vars
    BY <1>6 DEF vars
  <1> QED
    BY <1>1, <1>2, <1>3, <1>4, <1>5, <1>6 DEF Next

\* A saved document is new, or has its counter written.
SavedBy(r, a) ==
    /\ At(r, "saveKey") /\ cred[a] = None
    /\ cred' = [cred EXCEPT ![a] = response[job[r].challenge].cred]
    /\ counter' = [counter EXCEPT ![a] = response[job[r].challenge].count]
    /\ job'[r].stage = "findUser"

CountedBy(r, a) ==
    /\ At(r, "saveCounter") /\ job[r].doc = a
    /\ cred' = cred
    /\ counter'[a] = response[job[r].challenge].count

\* A document changes only when it is saved or its counter is.
LEMMA Documents ==
    ASSUME TypeOK, [Next]_vars, NEW a \in Docs
    PROVE  \/ cred'[a] = cred[a] /\ counter'[a] = counter[a]
           \/ \E r \in Slots : SavedBy(r, a) \/ CountedBy(r, a)
  <1> USE DEF documents
  <1>1. ASSUME NEW r \in Slots, RequestStep(r)
        PROVE  \/ cred'[a] = cred[a] /\ counter'[a] = counter[a]
               \/ SavedBy(r, a) \/ CountedBy(r, a)
    <2>1. ASSUME NEW b \in Docs, SaveAuthenticator(r, b)
          PROVE  \/ cred'[a] = cred[a] /\ counter'[a] = counter[a]
                 \/ SavedBy(r, a)
      <3>a. Put(r, Rec("findUser", job[r].user, job[r].challenge, b,
                       job[r].had, job[r].seen, job[r].verified))
        BY <2>1, RegisterPuts
      <3>1. job'[r].stage = "findUser"
        BY <3>a DEF Put, Rec
      <3>2. CASE a = b
        <4>1. SaveAuthenticator(r, a)
          BY <2>1, <3>2
        <4> QED
          BY <3>1, <4>1 DEF SaveAuthenticator, SavedBy
      <3>3. CASE a # b
        BY <2>1, <3>3 DEF SaveAuthenticator, TypeOK
      <3> QED
        BY <3>2, <3>3
    <2>2. CASE SaveCounter(r)
      BY <2>2 DEF SaveCounter, CountedBy, TypeOK
    <2>3. ASSUME ~SaveCounter(r), \A b \in Docs : ~SaveAuthenticator(r, b)
          PROVE  cred' = cred /\ counter' = counter
      BY <1>1, <2>3
      DEF RequestStep, VerifyRegistration, GetUser, FindUser, SaveNewAuthenticator, Registered,
          GetChallenge, FindAuthenticator, Given, IssueToken, Abort
    <2> QED
      BY <2>1, <2>2, <2>3
  <1>2. ASSUME \A r \in Slots : ~RequestStep(r)
        PROVE  cred' = cred /\ counter' = counter
    BY <1>2
    DEF Next, ClientStep, Create, Sign, OptionsStep, GenerateRegistration,
        GenerateAuthentication, RejectedSet, Down, Expire, Crash, vars
  <1> QED
    BY <1>1, <1>2

\* The keys of a user change only by the one that is added.
LEMMA KeysCome ==
    ASSUME TypeOK, [Next]_vars, NEW u \in Users
    PROVE  \/ keys'[u] = keys[u]
           \/ \E r \in Slots :
                At(r, "saveUser") /\ job[r].user = u /\ keys'[u] = keys[u] \cup {job[r].doc}
  <1> USE DEF documents
  <1>1. ASSUME NEW r \in Slots, RequestStep(r)
        PROVE  \/ keys'[u] = keys[u]
               \/ At(r, "saveUser") /\ job[r].user = u /\ keys'[u] = keys[u] \cup {job[r].doc}
    <2>1. CASE SaveNewAuthenticator(r)
      BY <2>1 DEF SaveNewAuthenticator, UserUnchanged, TypeOK
    <2>2. CASE ~SaveNewAuthenticator(r)
      BY <1>1, <2>2
      DEF RequestStep, VerifyRegistration, GetUser, SaveAuthenticator, FindUser, Registered,
          GetChallenge, FindAuthenticator, SaveCounter, Given, IssueToken, Abort
    <2> QED
      BY <2>1, <2>2
  <1>2. ASSUME \A r \in Slots : ~RequestStep(r)
        PROVE  keys' = keys
    BY <1>2
    DEF Next, ClientStep, Create, Sign, OptionsStep, GenerateRegistration,
        GenerateAuthentication, RejectedSet, Down, Expire, Crash, vars
  <1> QED
    BY <1>1, <1>2

-----------------------------------------------------------------------------
(***************************************************************************)
(* Documents.                                                              *)
(***************************************************************************)

\* The facts about the document a request saves, or whose counter it writes.
LEMMA SavedFacts ==
    ASSUME TypeOK, ClientInv, JobInv, [Next]_vars, NEW r \in Slots, NEW a \in Docs, SavedBy(r, a)
    PROVE  LET c == job[r].challenge
           IN  /\ c \in accepted /\ Answered(c, "create") /\ response[c].cred = c
               /\ job[r].user \in Users /\ offer[c].user = job[r].user
               /\ cred'[a] = c /\ counter'[a] = response[c].count
               /\ \A b \in Docs : b # a => cred'[b] = cred[b]
  <1>1. HasItsItems(job[r]) /\ JobFacts(job[r]) /\ job[r].stage = "saveKey"
    BY DEF TypeOK, JobInv, SavedBy, At
  <1>2. job[r].challenge \in Challenges /\ job[r].user \in Users
    BY <1>1 DEF HasItsItems
  <1>3. /\ job[r].challenge \in accepted /\ Answered(job[r].challenge, "create")
        /\ offer[job[r].challenge].user = job[r].user
    BY <1>1 DEF JobFacts, RegisterStages
  <1>4. response[job[r].challenge].cred = job[r].challenge
    BY <1>2, <1>3 DEF ClientInv, Answered
  <1> QED
    BY <1>2, <1>3, <1>4 DEF SavedBy, TypeOK

\* A counter that is saved is that of a response let through, of the document's
\* credential.
LEMMA CountedFacts ==
    ASSUME TypeOK, ClientInv, JobInv, NEW r \in Slots, NEW a \in Docs, CountedBy(r, a)
    PROVE  LET c == job[r].challenge
           IN  /\ c \in accepted /\ Answered(c, "get") /\ response[c].cred = cred[a]
               /\ cred[a] # None /\ cred' = cred /\ counter'[a] = response[c].count
  <1>1. HasItsItems(job[r]) /\ JobFacts(job[r]) /\ job[r].stage = "saveCounter"
    BY DEF TypeOK, JobInv, CountedBy, At
  <1>2. /\ job[r].challenge \in accepted /\ Answered(job[r].challenge, "get")
        /\ cred[job[r].doc] = response[job[r].challenge].cred /\ cred[job[r].doc] # None
    BY <1>1 DEF HasItsItems, JobFacts, GiveStages
  <1> QED
    BY <1>2 DEF CountedBy

\* Every step keeps what is known of the documents.
LEMMA DocInvStep ==
    ASSUME TypeOK, ClientInv, JobInv, DocInv, [Next]_vars
    PROVE  DocInv'
  <1>0. Grown
    BY Growth
  <1>1. \A d \in accepted : d \in Challenges /\ d \in accepted' /\ response'[d] = response[d]
    BY <1>0 DEF TypeOK, JobInv, Grown
  <1>2. \A c \in Challenges : Answered(c, "create") => Answered(c, "create")'
    BY <1>0, AnsweredKept
  <1> SUFFICES ASSUME NEW a \in Docs
               PROVE  /\ cred'[a] # None =>
                           /\ Answered(cred[a], "create")' /\ cred'[a] \in accepted'
                           /\ \E d \in accepted' : /\ response'[d].cred = cred'[a]
                                                   /\ response'[d].count = counter'[a]
                      /\ cred'[a] = None => counter'[a] = 0
    BY DEF DocInv
  <1>3. CASE cred'[a] = cred[a] /\ counter'[a] = counter[a]
    <2>1. CASE cred[a] # None
      <3>1. cred[a] \in Challenges /\ Answered(cred[a], "create") /\ cred[a] \in accepted
        BY <2>1 DEF TypeOK, DocInv
      <3>2. Answered(cred[a], "create")'
        BY <1>2, <1>3, <3>1 DEF Answered
      <3>3. PICK d \in accepted : response[d].cred = cred[a] /\ response[d].count = counter[a]
        BY <2>1 DEF DocInv
      <3> QED
        BY <1>1, <1>3, <2>1, <3>1, <3>2, <3>3
    <2>2. CASE cred[a] = None
      BY <1>3, <2>2 DEF DocInv
    <2> QED
      BY <2>1, <2>2
  <1>4. ASSUME NEW r \in Slots, SavedBy(r, a)
        PROVE  /\ Answered(cred[a], "create")' /\ cred'[a] \in accepted' /\ cred'[a] # None
               /\ \E d \in accepted' : /\ response'[d].cred = cred'[a]
                                       /\ response'[d].count = counter'[a]
    <2>1. PICK c : c = job[r].challenge
      OBVIOUS
    <2>2. /\ c \in accepted /\ Answered(c, "create") /\ response[c].cred = c
          /\ cred'[a] = c /\ counter'[a] = response[c].count
      BY <1>4, <2>1, SavedFacts
    <2>3. c \in Challenges /\ c # None /\ Answered(c, "create")'
      BY <1>1, <1>2, <2>2, WebAuthnAssumption
    <2> QED
      BY <1>1, <2>2, <2>3 DEF Answered
  <1>5. ASSUME NEW r \in Slots, CountedBy(r, a)
        PROVE  /\ Answered(cred[a], "create")' /\ cred'[a] \in accepted' /\ cred'[a] # None
               /\ \E d \in accepted' : /\ response'[d].cred = cred'[a]
                                       /\ response'[d].count = counter'[a]
    <2>1. PICK c : c = job[r].challenge
      OBVIOUS
    <2>2. /\ c \in accepted /\ response[c].cred = cred[a]
          /\ cred[a] # None /\ cred' = cred /\ counter'[a] = response[c].count
      BY <1>5, <2>1, CountedFacts
    <2>3. cred[a] \in Challenges /\ Answered(cred[a], "create") /\ cred[a] \in accepted
      BY <2>2 DEF TypeOK, DocInv
    <2>4. Answered(cred[a], "create")'
      BY <1>2, <2>2, <2>3 DEF Answered
    <2> QED
      BY <1>1, <2>2, <2>3, <2>4
  <1> QED
    BY <1>3, <1>4, <1>5, Documents

\* Every step keeps KeysAreOwn: the document that is added is of the user's own options.
LEMMA KeysAreOwnStep ==
    ASSUME TypeOK, ClientInv, JobInv, KeysAreOwn, [Next]_vars
    PROVE  KeysAreOwn'
  <1>0. Grown
    BY Growth
  <1>1. ASSUME NEW u \in Users, NEW a \in Docs, cred[a] # None,
               offer[cred[a]] = [kind |-> "create", user |-> u]
        PROVE  cred'[a] # None /\ offer'[cred'[a]] = [kind |-> "create", user |-> u]
    <2>1. cred'[a] = cred[a] /\ cred[a] \in Challenges
      BY <1>0, <1>1 DEF Grown, TypeOK
    <2>2. offer[cred[a]] # NoOffer
      BY <1>1 DEF NoOffer
    <2> QED
      BY <1>0, <1>1, <2>1, <2>2 DEF Grown
  <1>2. ASSUME NEW u \in Users, NEW r \in Slots, At(r, "saveUser"), job[r].user = u
        PROVE  /\ job[r].doc \in Docs /\ cred[job[r].doc] # None
               /\ offer[cred[job[r].doc]] = [kind |-> "create", user |-> u]
    <2>1. HasItsItems(job[r]) /\ JobFacts(job[r]) /\ job[r].stage = "saveUser"
      BY <1>2 DEF TypeOK, JobInv, At
    <2>2. /\ job[r].challenge \in Challenges /\ Answered(job[r].challenge, "create")
          /\ job[r].doc \in Docs /\ cred[job[r].doc] # None
          /\ cred[job[r].doc] = response[job[r].challenge].cred
          /\ offer[job[r].challenge].user = u
      BY <1>2, <2>1 DEF HasItsItems, JobFacts, RegisterStages
    <2>3. response[job[r].challenge].cred = job[r].challenge
      BY <2>2 DEF ClientInv, Answered
    <2>4. offer[job[r].challenge] = [kind |-> "create", user |-> u]
      BY <2>2 DEF Answered, TypeOK
    <2> QED
      BY <2>2, <2>3, <2>4
  <1> SUFFICES ASSUME NEW u \in Users, NEW a \in keys'[u]
               PROVE  cred'[a] # None /\ offer'[cred'[a]] = [kind |-> "create", user |-> u]
    BY DEF KeysAreOwn
  <1>3. CASE a \in keys[u]
    BY <1>1, <1>3 DEF KeysAreOwn, TypeOK
  <1>4. CASE a \notin keys[u]
    <2>1. PICK r \in Slots :
            At(r, "saveUser") /\ job[r].user = u /\ keys'[u] = keys[u] \cup {job[r].doc}
      BY <1>4, KeysCome
    <2>2. a = job[r].doc
      BY <1>4, <2>1
    <2> QED
      BY <1>1, <1>2, <2>1, <2>2
  <1> QED
    BY <1>3, <1>4

-----------------------------------------------------------------------------
(***************************************************************************)
(* Challenges used again, and the order of responses.                       *)
(***************************************************************************)

\* Responses with one credential are to options of one user.
LEMMA SameUser ==
    ASSUME ClientInv, NEW c \in Challenges, NEW d \in Challenges,
           response[c] # NoResponse, response[d] # NoResponse,
           response[c].cred = response[d].cred
    PROVE  offer[c].user = offer[d].user
  BY DEF ClientInv

\* Whoever is let through with a challenge accepted before crosses the verification
\* that was, or comes after it was cut short.
LEMMA UsedAgain ==
    ASSUME TypeOK, AcceptedIsUsedUp, NEW u \in Users, NEW c \in Challenges,
           challenge[u] = c, c \in accepted, Accept(u, c)
    PROVE  c \in crossed' \cup cut'
  BY DEF AcceptedIsUsedUp, Accept

\* Every step keeps SaveInv: a challenge used twice was crossed or cut short.
LEMMA SaveInvStep ==
    ASSUME TypeOK, ClientInv, JobInv, DocInv, CrossInv, AcceptedIsUsedUp, SaveInv, [Next]_vars
    PROVE  SaveInv'
  <1>0. Grown
    BY Growth
  <1> SUFFICES ASSUME NEW r \in Slots, NEW b \in Docs,
                      At(r, "saveKey")', cred'[b] = job'[r].challenge
               PROVE  job'[r].challenge \in crossed' \cup cut'
    BY DEF SaveInv
  <1>1. CASE job'[r] = job[r]
    <2>1. PICK c : c = job[r].challenge
      OBVIOUS
    <2>2. /\ job[r].stage = "saveKey" /\ HasItsItems(job[r]) /\ JobFacts(job[r])
          /\ job'[r].challenge = c
      BY <1>1, <2>1 DEF At, TypeOK, JobInv
    <2>3. c \in Challenges /\ c # None /\ offer[c].user = job[r].user
      BY <2>1, <2>2, WebAuthnAssumption DEF HasItsItems, JobFacts
    <2>4. CASE cred'[b] = cred[b]
      BY <1>0, <1>1, <2>1, <2>2, <2>4 DEF SaveInv, Grown, At
    <2>5. ASSUME NEW q \in Slots, SavedBy(q, b)
          PROVE  c \in crossed
      <3>1. /\ q # r /\ job[q].stage = "saveKey" /\ job[q].challenge = c
            /\ offer[c].user = job[q].user
        <4>1. q # r /\ job[q].stage = "saveKey"
          BY <1>1, <2>2, <2>5 DEF SavedBy, At
        <4>2. PICK d : d = job[q].challenge
          OBVIOUS
        <4>3. offer[d].user = job[q].user /\ cred'[b] = d
          BY <2>5, <4>2, SavedFacts
        <4> QED
          BY <2>2, <4>1, <4>2, <4>3
      <3>2. job[q].user \in Users /\ Past(q, job[r].user) /\ Past(r, job[r].user)
        BY <2>2, <2>3, <2>5, <3>1, SavedFacts DEF Past, RegisterStages
      <3>3. PICK u \in Users : u = job[r].user
        BY <2>3, <3>1, <3>2
      <3> QED
        BY <3>1, <3>2, <3>3 DEF CrossInv
    <2>6. cred'[b] = cred[b] \/ \E q \in Slots : SavedBy(q, b)
      BY Documents DEF CountedBy
    <2>7. CASE \E q \in Slots : SavedBy(q, b)
      BY <1>0, <2>2, <2>5, <2>7 DEF Grown
    <2> QED
      BY <2>4, <2>6, <2>7
  <1>2. CASE job'[r] # job[r]
    <2>1. PICK u \in Users, c \in Challenges :
            VerifyRegistration(r, u, c) /\ job'[r].challenge = c
      BY <1>2, Origins
    <2>2. cred' = cred /\ challenge[u] = c /\ Accept(u, c)
      BY <2>1 DEF VerifyRegistration, ChallengeMatches, documents
    <2>3. c \in accepted
      BY <2>1, <2>2, WebAuthnAssumption DEF DocInv
    <2> QED
      BY <2>1, <2>2, <2>3, UsedAgain
  <1> QED
    BY <1>1, <1>2

\* Every step keeps OneDocPerCredential.
LEMMA OneDocStep ==
    ASSUME TypeOK, ClientInv, JobInv, SaveInv, OneDocPerCredential, [Next]_vars
    PROVE  OneDocPerCredential'
  <1>0. Grown
    BY Growth
  <1>1. ASSUME NEW a \in Docs, NEW b \in Docs, a # b, cred'[a] # None, cred'[a] = cred'[b],
               NEW r \in Slots, SavedBy(r, a)
        PROVE  cred'[a] \in crossed' \cup cut'
    <2>1. At(r, "saveKey") /\ cred'[a] = job[r].challenge /\ cred[b] = job[r].challenge
      BY <1>1, SavedFacts DEF SavedBy
    <2> QED
      BY <1>0, <2>1 DEF SaveInv, Grown
  <1>2. ASSUME NEW a \in Docs, ~ \E r \in Slots : SavedBy(r, a)
        PROVE  cred'[a] = cred[a]
    BY <1>2, Documents DEF CountedBy
  <1> SUFFICES ASSUME NEW a \in Docs, NEW b \in Docs,
                      a # b, cred'[a] # None, cred'[a] = cred'[b]
               PROVE  cred'[a] \in crossed' \cup cut'
    BY DEF OneDocPerCredential
  <1>3. CASE \E r \in Slots : SavedBy(r, a)
    BY <1>1, <1>3
  <1>4. CASE \E r \in Slots : SavedBy(r, b)
    BY <1>1, <1>4
  <1>5. CASE cred'[a] = cred[a] /\ cred'[b] = cred[b]
    BY <1>0, <1>5 DEF OneDocPerCredential, Grown
  <1> QED
    BY <1>2, <1>3, <1>4, <1>5

\* A response changes only when it is made, newer than all of its credential.
LEMMA Responds ==
    ASSUME TypeOK, ClientInv, [Next]_vars, NEW c \in Challenges, response'[c] # response[c]
    PROVE  /\ response[c] = NoResponse
           /\ \A d \in Challenges : d # c /\ response[d].cred = response'[c].cred =>
                response[d] = NoResponse \/ Newer(response'[c].count, response[d].count)
  <1>1. PICK e \in Challenges : ClientStep(e)
    <2>1. ASSUME NEW r \in Slots, RequestStep(r)
          PROVE  FALSE
      BY <2>1, RequestGrows DEF client
    <2> QED
      BY <2>1
      DEF Next, OptionsStep, GenerateRegistration, GenerateAuthentication, RejectedSet,
          Expire, Crash, vars, client
  <1>2. PICK k \in Challenges, n \in Counts :
          /\ response[e] = NoResponse /\ Respond(e, k, n)
          /\ \/ offer[e].kind = "create" /\ k = e
             \/ \A d \in Challenges : response[d].cred = k => Newer(n, response[d].count)
    BY <1>1 DEF ClientStep, Create, Sign
  <1>3. c = e /\ response'[c].cred = k /\ response'[c].count = n
    BY <1>2 DEF Respond, TypeOK
  <1>4. ASSUME k = c, NEW d \in Challenges, response[d].cred = c
        PROVE  response[d] = NoResponse
    BY <1>2, <1>3, <1>4 DEF ClientInv, Answered
  <1> QED
    BY <1>2, <1>3, <1>4

\* Every step keeps OrderInv: what a challenge still there has been signed with is
\* newer than whatever was let through.
LEMMA OrderInvStep ==
    ASSUME TypeOK, ClientInv, JobInv, JobInv', OrderInv, [Next]_vars
    PROVE  OrderInv'
  <1>0. Grown
    BY Growth
  <1> SUFFICES ASSUME NEW u \in Users, challenge'[u] # None,
                      NEW d \in accepted' \ {challenge'[u]},
                      response'[challenge'[u]] # NoResponse,
                      response'[d].cred = response'[challenge'[u]].cred
               PROVE  Newer(response'[challenge'[u]].count, response'[d].count)
    BY DEF OrderInv
  <1>1. PICK e : e = challenge'[u]
    OBVIOUS
  <1>2. e = challenge[u] /\ e \in Challenges
    <2>1. ASSUME NEW v \in Users, NEW c \in Challenges, Sets(v, c)
          PROVE  e = challenge[u]
      BY <1>1, <2>1 DEF Sets, SetChallenge, TypeOK
    <2>2. e = challenge[u]
      BY <1>1, <2>1, Effects DEF LetThrough, redis, Deletes, Del, Faded, TypeOK
    <2> QED
      BY <1>1, <2>2 DEF TypeOK
  <1>3. CASE d \in accepted
    <2>1. d \in Challenges /\ response[d] # NoResponse /\ response'[d] = response[d] /\ d # e
      BY <1>0, <1>1, <1>3 DEF JobInv, Grown, TypeOK
    <2>2. CASE response'[e] = response[e]
      BY <1>1, <1>2, <1>3, <2>1, <2>2 DEF OrderInv
    <2>3. CASE response'[e] # response[e]
      BY <1>1, <1>2, <2>1, <2>3, Responds
    <2> QED
      BY <2>2, <2>3
  <1>4. CASE d \notin accepted
    <2>1. PICK r \in Slots, v \in Users, c \in Challenges : LetThrough(r, v, c)
      BY <1>4, Effects DEF Deletes, Sets, Kept, history
    <2>2. d = c /\ response' = response /\ challenge[v] = d
      BY <1>4, <2>1 DEF LetThrough, Accept, client
    <2>3. response[d] # NoResponse
      BY <2>2 DEF JobInv
    <2>4. offer[d].user = offer[e].user
      BY <1>1, <1>2, <2>2, <2>3, SameUser
    <2>5. offer[d].user = v /\ offer[e].user = u
      BY <1>1, <1>2, <2>2, WebAuthnAssumption DEF ClientInv
    <2> QED
      BY <1>1, <1>2, <2>2, <2>4, <2>5
  <1> QED
    BY <1>3, <1>4

\* Every step keeps GiveInv: what was newer at the check stays newer unless another
\* verification of the user is let through meanwhile.
LEMMA GiveInvStep ==
    ASSUME TypeOK, ClientInv, JobInv, JobInv', OrderInv, GiveInv, [Next]_vars
    PROVE  GiveInv'
  <1>0. Grown
    BY Growth
  <1> SUFFICES ASSUME NEW r \in Slots, job'[r].stage \in {"findKey", "saveCounter"},
                      NEW d \in accepted' \ {job'[r].challenge},
                      response'[d].cred = response'[job'[r].challenge].cred
               PROVE  \/ Newer(response'[job'[r].challenge].count, response'[d].count)
                      \/ job'[r].challenge \in crossed'
    BY DEF GiveInv
  <1>1. PICK c : c = job[r].challenge
    OBVIOUS
  <1>2. CASE GetChallenge(r) /\ job'[r] # job[r]
    <2>1. /\ At(r, "getChallenge") /\ ChallengeMatches(job[r].user, c) /\ Accept(job[r].user, c)
          /\ job'[r].challenge = c
      <3>1. At(r, "getChallenge")
        BY <1>2 DEF GetChallenge
      <3>2. ~At(r, "findKey")
        BY <3>1 DEF At
      <3>3. job'[r].stage = "saveCounter" => FALSE
        BY <1>2, <3>1, Origins DEF At, FindAuthenticator
      <3>4. At(r, "findKey")'
        BY <3>3 DEF At
      <3> QED
        BY <1>1, <1>2, <3>1, <3>4, Origins
    <2>2. HasItsItems(job[r]) /\ JobFacts(job[r]) /\ job[r].stage = "getChallenge"
      BY <2>1 DEF TypeOK, JobInv, At
    <2>3. job[r].user \in Users /\ c \in Challenges /\ response[c] # NoResponse
      BY <1>1, <2>2 DEF HasItsItems, JobFacts, Answered
    <2>4. challenge[job[r].user] = c /\ c # None /\ d \in accepted \ {c}
      BY <2>1, <2>3, WebAuthnAssumption DEF ChallengeMatches, Accept
    <2>5. response' = response
      BY <1>2 DEF GetChallenge, client
    <2> QED
      BY <2>1, <2>3, <2>4, <2>5 DEF OrderInv
  <1>3. CASE ~(GetChallenge(r) /\ job'[r] # job[r])
    <2>1. job[r].stage \in {"findKey", "saveCounter"} /\ job'[r].challenge = c
      <3>1. CASE job'[r] = job[r]
        BY <1>1, <3>1
      <3>2. CASE job'[r] # job[r]
        BY <1>1, <1>3, <3>2, Origins DEF At, FindAuthenticator
      <3> QED
        BY <3>1, <3>2
    <2>2. HasItsItems(job[r]) /\ JobFacts(job[r])
      BY DEF TypeOK, JobInv
    <2>3. /\ job[r].user \in Users /\ c \in Challenges /\ response[c] # NoResponse
          /\ offer[c].user = job[r].user /\ Past(r, job[r].user)
      BY <1>1, <2>1, <2>2 DEF HasItsItems, JobFacts, Answered, GiveStages, Past
    <2>4. response'[c] = response[c] /\ crossed \subseteq crossed'
      BY <1>0, <2>3 DEF Grown
    <2>5. CASE d \in accepted
      <3>1. d \in Challenges /\ response'[d] = response[d]
        BY <1>0, <2>5 DEF JobInv, Grown, TypeOK
      <3> QED
        BY <1>1, <2>1, <2>4, <2>5, <3>1 DEF GiveInv
    <2>6. CASE d \notin accepted
      <3>1. PICK q \in Slots, v \in Users, e \in Challenges : LetThrough(q, v, e)
        BY <2>6, Effects DEF Deletes, Sets, Kept, history
      <3>2. d = e /\ response' = response /\ challenge[v] = d
        BY <2>6, <3>1 DEF LetThrough, Accept, client
      <3>3. response[d] # NoResponse
        BY <3>2 DEF JobInv
      <3>4. offer[d].user = offer[c].user /\ offer[d].user = v
        BY <2>1, <2>3, <3>2, <3>3, SameUser, WebAuthnAssumption DEF ClientInv
      <3>5. Past(r, v)
        BY <2>3, <3>4
      <3>6. c \in crossed'
        BY <1>1, <3>1, <3>5 DEF LetThrough, Accept
      <3> QED
        BY <2>1, <3>6
    <2> QED
      BY <2>5, <2>6
  <1> QED
    BY <1>2, <1>3

\* Every step keeps SeenInv.
LEMMA SeenInvStep ==
    ASSUME TypeOK, ClientInv, JobInv, DocInv, KeysAreOwn, SeenInv, [Next]_vars
    PROVE  SeenInv'
  <1>0. Grown
    BY Growth
  <1> SUFFICES ASSUME NEW r \in Slots, At(r, "getChallenge")'
               PROVE  \E d \in accepted' :
                         /\ response'[d].cred = response'[job'[r].challenge].cred
                         /\ response'[d].count = job'[r].seen
    BY DEF SeenInv
  <1>1. \A d \in accepted : d \in accepted' /\ response'[d] = response[d]
    BY <1>0 DEF JobInv, Grown, TypeOK
  <1>2. CASE job'[r] = job[r]
    <2>1. HasItsItems(job[r]) /\ JobFacts(job[r]) /\ job[r].stage = "getChallenge"
      BY <1>2 DEF TypeOK, JobInv, At
    <2>2. job[r].challenge \in Challenges /\ response[job[r].challenge] # NoResponse
      BY <2>1 DEF HasItsItems, JobFacts, Answered
    <2>3. response'[job[r].challenge] = response[job[r].challenge]
      BY <1>0, <2>2 DEF Grown
    <2>4. PICK d \in accepted : /\ response[d].cred = response[job[r].challenge].cred
                                /\ response[d].count = job[r].seen
      BY <2>1 DEF SeenInv, At
    <2> QED
      BY <1>1, <1>2, <2>3, <2>4
  <1>3. CASE job'[r] # job[r]
    <2>1. PICK u \in Users, c \in Challenges, a \in Docs :
            GetUser(r, u, c, a) /\ job'[r].challenge = c /\ job'[r].seen = counter[a]
      BY <1>3, Origins
    <2>2. response' = response /\ cred[a] = response[c].cred /\ cred[a] # None
      BY <2>1 DEF GetUser, OwnKey, KeysAreOwn, client
    <2>3. PICK d \in accepted : response[d].cred = cred[a] /\ response[d].count = counter[a]
      BY <2>2 DEF DocInv
    <2> QED
      BY <1>1, <2>1, <2>2, <2>3
  <1> QED
    BY <1>2, <1>3

\* A request let through is the newest of its credential, or was let through before.
LEMMA LetThroughInOrder ==
    ASSUME TypeOK, JobInv, OrderInv, [Next]_vars, NEW r \in Slots,
           At(r, "getChallenge"), At(r, "findKey")'
    PROVE  LET c == job[r].challenge
           IN  /\ \A d \in accepted \ {c} : response[d].cred = response[c].cred =>
                     Newer(response[c].count, response[d].count)
               /\ GetChallenge(r) /\ job[r].user \in Users /\ c \in Challenges
               /\ challenge[job[r].user] = c /\ Accept(job[r].user, c)
               /\ job'[r].challenge = c /\ job'[r].seen = job[r].seen
  <1>1. job'[r] # job[r]
    BY DEF At
  <1>2. HasItsItems(job[r]) /\ JobFacts(job[r]) /\ job[r].stage = "getChallenge"
    BY DEF TypeOK, JobInv, At
  <1>3. /\ job[r].user \in Users /\ job[r].challenge \in Challenges
        /\ response[job[r].challenge] # NoResponse
    BY <1>2 DEF HasItsItems, JobFacts, Answered
  <1>4. /\ GetChallenge(r) /\ challenge[job[r].user] = job[r].challenge
        /\ Accept(job[r].user, job[r].challenge)
        /\ job'[r].challenge = job[r].challenge /\ job'[r].seen = job[r].seen
    BY <1>1, Origins DEF ChallengeMatches
  <1> QED
    BY <1>3, <1>4, WebAuthnAssumption DEF OrderInv

\* Every step keeps CounterRefusesOnlyRepeats.
LEMMA CounterRefusesStep ==
    ASSUME TypeOK, JobInv, OrderInv, SeenInv, CounterRefusesOnlyRepeats,
           [Next]_vars
    PROVE  CounterRefusesOnlyRepeats'
  <1>0. Grown
    BY Growth
  <1> SUFFICES ASSUME NEW r \in Slots, At(r, "findKey")'
               PROVE  \/ CounterPasses(response'[job'[r].challenge].count, job'[r].seen)
                      \/ job'[r].challenge \in repeated'
    BY DEF CounterRefusesOnlyRepeats, CounterRefused, At
  <1>1. CASE job'[r] = job[r]
    <2>1. HasItsItems(job[r]) /\ JobFacts(job[r]) /\ job[r].stage = "findKey"
      BY <1>1 DEF TypeOK, JobInv, At
    <2>2. job[r].challenge \in Challenges /\ response[job[r].challenge] # NoResponse
      BY <2>1 DEF HasItsItems, JobFacts, Answered, GiveStages
    <2> QED
      BY <1>0, <1>1, <2>1, <2>2 DEF CounterRefusesOnlyRepeats, CounterRefused, Grown, At
  <1>2. CASE job'[r] # job[r]
    <2>1. At(r, "getChallenge")
      BY <1>2, Origins DEF GetChallenge
    <2>2. PICK c : c = job[r].challenge
      OBVIOUS
    <2>3. /\ \A d \in accepted \ {c} : response[d].cred = response[c].cred =>
               Newer(response[c].count, response[d].count)
          /\ GetChallenge(r) /\ job[r].user \in Users /\ c \in Challenges
          /\ challenge[job[r].user] = c /\ Accept(job[r].user, c)
          /\ job'[r].challenge = c /\ job'[r].seen = job[r].seen
      BY <2>1, <2>2, LetThroughInOrder
    <2>4. PICK d \in accepted : response[d].cred = response[c].cred /\ response[d].count = job[r].seen
      BY <2>1, <2>2 DEF SeenInv
    <2>5. response' = response
      BY <2>3 DEF GetChallenge, client
    <2>6. CASE d # c
      BY <2>3, <2>4, <2>5, <2>6 DEF Newer, CounterPasses
    <2>7. CASE d = c
      BY <2>3, <2>4, <2>7 DEF Accept
    <2> QED
      BY <2>6, <2>7
  <1> QED
    BY <1>1, <1>2

-----------------------------------------------------------------------------
(***************************************************************************)
(* The invariant, and what follows from it.                                 *)
(***************************************************************************)

\* The invariant holds at the start.
LEMMA Initial == Init => IInv
  <1> SUFFICES ASSUME Init
               PROVE  IInv
    OBVIOUS
  <1> USE WebAuthnAssumption DEF Init
  <1>1. /\ Free \in Jobs /\ Free.stage = "idle"
        /\ NoOffer \in [kind : {"none", "create", "get"}, user : Users \cup {None}]
        /\ NoResponse \in [cred : Challenges \cup {None}, count : Counts]
    BY DEF Free, Request, Jobs, Stages, NoOffer, NoResponse
  <1>2. TypeOK
    BY <1>1 DEF TypeOK, HasItsItems
  <1>3. ClientInv
    BY DEF ClientInv, NoOffer
  <1>4. JobInv
    BY <1>1 DEF JobInv, JobFacts, RegisterStages, GiveStages
  <1>5. DocInv /\ KeysAreOwn /\ OptionsStand /\ OneDocPerCredential /\ OrderInv
    BY DEF DocInv, KeysAreOwn, OptionsStand, OneDocPerCredential, OrderInv
  <1>6. StandInv /\ CrossInv /\ AcceptedIsUsedUp
    BY <1>1 DEF StandInv, CrossInv, AcceptedIsUsedUp, Past, RegisterStages, GiveStages
  <1>7. SaveInv /\ GiveInv /\ SeenInv /\ CounterRefusesOnlyRepeats
    BY <1>1 DEF SaveInv, GiveInv, SeenInv, CounterRefusesOnlyRepeats, CounterRefused, At
  <1> QED
    BY <1>2, <1>3, <1>4, <1>5, <1>6, <1>7 DEF IInv

\* Every step keeps the invariant.
LEMMA Step == IInv /\ [Next]_vars => IInv'
  <1> SUFFICES ASSUME IInv, [Next]_vars
               PROVE  IInv'
    OBVIOUS
  <1>0. /\ TypeOK /\ ClientInv /\ JobInv /\ DocInv /\ KeysAreOwn
        /\ OptionsStand /\ StandInv
        /\ CrossInv /\ AcceptedIsUsedUp /\ SaveInv /\ OneDocPerCredential
        /\ OrderInv /\ GiveInv /\ SeenInv /\ CounterRefusesOnlyRepeats
    BY DEF IInv
  <1>1. TypeOK' /\ ClientInv' /\ JobInv'
    BY <1>0, TypeStep, ClientInvStep, JobInvStep
  <1>2. DocInv' /\ KeysAreOwn'
    BY <1>0, DocInvStep, KeysAreOwnStep
  <1>3. OptionsStand' /\ StandInv' /\ CrossInv' /\ AcceptedIsUsedUp'
    BY <1>0, StandStep, CrossInvStep, UsedUpStep
  <1>4. SaveInv' /\ OneDocPerCredential'
    BY <1>0, SaveInvStep, OneDocStep
  <1>5. OrderInv' /\ GiveInv' /\ SeenInv' /\ CounterRefusesOnlyRepeats'
    BY <1>0, <1>1, OrderInvStep, GiveInvStep, SeenInvStep, CounterRefusesStep
  <1> QED
    BY <1>1, <1>2, <1>3, <1>4, <1>5 DEF IInv

\* The invariant that the properties of the security keys follow from holds in every
\* behaviour: what a request of WebAuthnController has read fits what is stored.
THEOREM Inductive == Spec => []IInv
  BY Initial, Step, PTL DEF Spec

\* A request never dereferences a document that is not there.
THEOREM WebAuthnTypeOK == Spec => []TypeOK
  <1>1. IInv => TypeOK
    BY DEF IInv
  <1> QED
    BY Inductive, <1>1, PTL

\* No key is shared between users, and none is without its document.
THEOREM KeysOwn == Spec => []KeysAreOwn
  <1>1. IInv => KeysAreOwn
    BY DEF IInv
  <1> QED
    BY Inductive, <1>1, PTL

\* The options a user got last can be answered, unless they crossed a verification.
THEOREM LastOptionsStand == Spec => []OptionsStand
  <1>1. IInv => OptionsStand
    BY DEF IInv
  <1> QED
    BY Inductive, <1>1, PTL

\* A challenge lets verifications through only until the first one is over.
THEOREM ChallengeUsedUp == Spec => []AcceptedIsUsedUp
  <1>1. IInv => AcceptedIsUsedUp
    BY DEF IInv
  <1> QED
    BY Inductive, <1>1, PTL

\* Two documents of one credential take a challenge used twice.
THEOREM OneDoc == Spec => []OneDocPerCredential
  <1>1. IInv => OneDocPerCredential
    BY DEF IInv
  <1> QED
    BY Inductive, <1>1, PTL

\* The counter refuses only a response that was let through more than once, whatever
\* other requests of WebAuthnController save before it is checked.
THEOREM CounterRefuses == Spec => []CounterRefusesOnlyRepeats
  <1>1. IInv => CounterRefusesOnlyRepeats
    BY DEF IInv
  <1> QED
    BY Inductive, <1>1, PTL

\* Two registrations of a user at once do not lose a key.
THEOREM NoKeyLost == Spec => KeysStay
  <1>1. IInv /\ [Next]_vars => [\A u \in Users : keys[u] \subseteq keys'[u]]_vars
    BY Growth DEF IInv, Grown
  <1> QED
    BY Inductive, <1>1, PTL DEF Spec, KeysStay

\* The responses of a credential are let through in the order they were signed.
THEOREM InOrder == Spec => AcceptedInOrder
  <1>1. IInv /\ [Next]_vars =>
          [\A r \in Slots : At(r, "getChallenge") /\ At(r, "findKey")' =>
             \A d \in accepted \ {job[r].challenge} :
                response[d].cred = response[job[r].challenge].cred =>
                    Newer(response[job[r].challenge].count, response[d].count)]_vars
    BY LetThroughInOrder DEF IInv
  <1> QED
    BY Inductive, <1>1, PTL DEF Spec, AcceptedInOrder

\* A counter goes back only when a request saves it that has crossed another.
LEMMA BackOnlyCrossed ==
    ASSUME IInv, [Next]_vars, NEW a \in Docs, counter'[a] < counter[a]
    PROVE  \E r \in Slots : job[r].doc = a /\ job[r].challenge \in crossed
  <1>0. TypeOK /\ ClientInv /\ JobInv /\ DocInv /\ GiveInv /\ counter[a] \in Nat
    BY WebAuthnAssumption DEF IInv, TypeOK
  <1>1. ASSUME NEW r \in Slots, SavedBy(r, a)
        PROVE  FALSE
    <2>1. PICK c : c = job[r].challenge
      OBVIOUS
    <2>2. counter'[a] = response[c].count /\ c \in accepted
      BY <1>0, <1>1, <2>1, SavedFacts
    <2>3. counter'[a] \in Nat
      BY <1>0, <2>2, WebAuthnAssumption DEF TypeOK
    <2>4. counter[a] = 0
      BY <1>0, <1>1 DEF SavedBy, DocInv
    <2> QED
      BY <2>3, <2>4
  <1>2. ASSUME NEW r \in Slots, CountedBy(r, a)
        PROVE  job[r].doc = a /\ job[r].challenge \in crossed
    <2>1. PICK c : c = job[r].challenge
      OBVIOUS
    <2>2. /\ c \in accepted /\ response[c].cred = cred[a] /\ cred[a] # None
          /\ counter'[a] = response[c].count
      BY <1>0, <1>2, <2>1, CountedFacts
    <2>3. PICK d \in accepted : response[d].cred = cred[a] /\ response[d].count = counter[a]
      BY <1>0, <2>2 DEF DocInv
    <2>4. response[c].count \in Nat
      BY <1>0, <2>2, WebAuthnAssumption DEF TypeOK
    <2>5. ~Newer(response[c].count, response[d].count) /\ d # c
      BY <1>0, <2>2, <2>3, <2>4 DEF Newer
    <2>6. job[r].doc = a /\ job[r].stage = "saveCounter"
      BY <1>2 DEF CountedBy, At
    <2> QED
      BY <1>0, <2>1, <2>2, <2>3, <2>5, <2>6 DEF GiveInv
  <1>3. counter'[a] # counter[a]
    BY <1>0
  <1> QED
    BY <1>0, <1>1, <1>2, <1>3, Documents

\* A stored counter goes back only where two verifications of the user crossed.
THEOREM CounterBack == Spec => CounterGoesBackOnlyCrossed
  <1>1. IInv /\ [Next]_vars =>
          [\A a \in Docs : counter'[a] < counter[a] =>
             \E r \in Slots : job[r].doc = a /\ job[r].challenge \in crossed]_vars
    BY BackOnlyCrossed
  <1> QED
    BY Inductive, <1>1, PTL DEF Spec, CounterGoesBackOnlyCrossed

-----------------------------------------------------------------------------
(***************************************************************************)
(* The promise of the second factor.                                       *)
(***************************************************************************)

\* Every step is one of the abstract second factor, or none.
LEMMA RefinementStep == TypeOK /\ JobInv /\ [Next]_vars => [SF!Next]_(SF!vars)
  <1> SUFFICES ASSUME TypeOK, JobInv, [Next]_vars
               PROVE  [SF!Next]_(SF!vars)
    OBVIOUS
  <1>a. ASSUME UNCHANGED <<keys, passed>>
        PROVE  [SF!Next]_(SF!vars)
    BY <1>a DEF SF!vars
  <1> USE DEF documents
  <1>1. ASSUME NEW r \in Slots, RequestStep(r)
        PROVE  [SF!Next]_(SF!vars)
    <2>0. HasItsItems(job[r]) /\ JobFacts(job[r])
      BY DEF TypeOK, JobInv
    <2>1. CASE SaveNewAuthenticator(r)
      <3>1. passed' = passed
        BY <2>1 DEF SaveNewAuthenticator
      <3>2. CASE UserUnchanged(r)
        <4>1. PICK u \in Users : u = job[r].user
          BY <2>0, <2>1 DEF SaveNewAuthenticator, At, HasItsItems
        <4>2. keys' = [keys EXCEPT ![u] = job[r].had \cup {job[r].doc}]
          BY <2>1, <3>2, <4>1 DEF SaveNewAuthenticator
        <4>3. \A v \in Users : keys'[v] # {} <=> v = u \/ keys[v] # {}
          BY <4>2 DEF TypeOK
        <4>4. SF!AddKey(u)
          BY <3>1, <4>3 DEF SF!AddKey
        <4> QED
          BY <4>4 DEF SF!Next
      <3>3. CASE ~UserUnchanged(r)
        BY <2>1, <3>1, <3>3, <1>a DEF SaveNewAuthenticator
      <3> QED
        BY <3>2, <3>3
    <2>2. CASE IssueToken(r)
      <3>1. keys' = keys
        BY <2>2 DEF IssueToken
      <3>2. PICK u \in Users : u = job[r].user
        BY <2>0, <2>2 DEF IssueToken, At, HasItsItems
      <3>3. keys[u] # {}
        BY <2>0, <2>2, <3>2 DEF IssueToken, At, JobFacts
      <3>4. \A v \in Users : passed'[v] <=> passed[v] \/ (v = u /\ job[r].verified)
        BY <2>2, <3>2, Zenon DEF IssueToken, TypeOK
      <3>5. CASE job[r].verified
        <4>1. {v \in Users : passed'[v]} = {v \in Users : passed[v]} \cup {u}
          BY <3>4, <3>5, Zenon
        <4>2. SF!Pass(u)
          BY <3>1, <3>3, <4>1 DEF SF!Pass
        <4> QED
          BY <4>2 DEF SF!Next
      <3>6. CASE ~job[r].verified
        <4>1. {v \in Users : passed'[v]} = {v \in Users : passed[v]}
          BY <3>4, <3>6, Zenon
        <4> QED
          BY <3>1, <4>1 DEF SF!vars
      <3> QED
        BY <3>5, <3>6
    <2>3. CASE ~SaveNewAuthenticator(r) /\ ~IssueToken(r)
      BY <1>1, <1>a, <2>3
      DEF RequestStep, VerifyRegistration, GetUser, SaveAuthenticator, FindUser, Registered,
          GetChallenge, FindAuthenticator, SaveCounter, Given, Abort
    <2> QED
      BY <2>1, <2>2, <2>3
  <1>2. CASE \A r \in Slots : ~RequestStep(r)
    BY <1>a, <1>2
    DEF Next, ClientStep, Create, Sign, OptionsStep, GenerateRegistration,
        GenerateAuthentication, RejectedSet, Down, Expire, Crash, vars
  <1> QED
    BY <1>1, <1>2

\* Security keys implement the promise of the second factor: a token says it was
\* given only for a user who has registered a key.
THEOREM WebAuthnImplements == Spec => ImplementsSecondFactor
  <1>1. Init => SF!Init
    BY DEF Init, SF!Init
  <1>2. IInv /\ [Next]_vars => [SF!Next]_(SF!vars)
    BY RefinementStep DEF IInv
  <1> QED
    BY Inductive, <1>1, <1>2, PTL DEF Spec, ImplementsSecondFactor, SF!Spec
=============================================================================
