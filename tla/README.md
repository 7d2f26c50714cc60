# Verification of the OAuth + MFA plugin for NestJS

TLA+ models of the plugin under `src/auth`, TLC runs on small instances, and
TLAPS proofs for every size. Paths below are relative to the repository's root.

## The system

The plugin logs users in through Google or GitHub, gives them a JWT cookie, asks
for a second factor (a one-time password or a security key), and lets an
administrator change its configuration while it runs. It is one Node process: an
operation runs alone between two `await`s, and every `await` on Mongo, Redis, the
file system or a signature lets other requests run.

| Component | State | Operations | Talks to |
|---|---|---|---|
| Provider strategies, user directory (`strategies/google.strategy.ts`, `strategies/github.strategy.ts`, `services/user.service.ts`) | Mongo: `users` (with the array `providers`), `providerinfos` | `validate`, `findUserByProviderId`, `createUser`, `linkProvider` | called by passport in the callback routes |
| Two-factor authentication (`controllers/two-factor.controller.ts`, `services/otp.service.ts`) | Mongo: `user.otp`, `user.isMfaEnabled` | generate, qr, turn-on, authenticate, turn-off | `UserService`, JWT |
| Redirects and tokens (`controllers/auth.controller.ts`, `strategies/2fa.strategy.ts`, `strategies/jwt.strategy.ts`, guards, filter) | the JWT cookie; `req.user`, a document read earlier | both callbacks, `TwoFactorAuthStrategy.validate`, guards, `user-basic`, `test` | user documents, the request's configuration |
| Auth configuration (`helpers/cls-store.factory.ts`, `controllers/auto-config.controller.ts`, `services/local-file.service.ts`) | `cls.json`, a copy in Redis, the CLS store of each request | middleware before every handler; read and update | every other component reads the request's store |
| Security keys (`controllers/webauthn.controller.ts`) | Redis: one challenge per user; Mongo: `authenticators`, `user.authenticators` | options and verification, for registration and for authentication | user documents, JWT |
| Strategy factories and provider guards (`helpers/*-strategy.factory.ts`, `guards/google.guard.ts`, `guards/github.guard.ts`) | passport's table of strategies, one per process | a strategy per request, or the anonymous one | the request's configuration |
| Wiring and shell (`auth-dynamic.module.ts`, `app.*`, `main.ts`) | none after start | | |

What makes it hard:

- *Two queries, one decision.* A login searches, then creates, then links, in up
  to six awaits. Nothing in Mongo (no unique index, no transaction) keeps two
  first logins apart, and the search compares arrays for equality, the empty
  array included.
- *Documents read early.* Redirects and guards decide on a user document that
  other requests may have changed since.
- *Writes nobody awaits.* `turnOff` answers before `isMfaEnabled` is written;
  `dataToFile` returns before the file is; `generateRegistration` answers whether
  or not Redis takes the challenge. A rejected promise of that kind ends the
  process.
- *One challenge per user* for registering and for giving a security key, read,
  used and deleted in separate steps, and dropped by Redis after 600 seconds.
- *One table of strategies per process*, into which every request writes the
  strategies of its own configuration before its guard reads them back.
- *Two copies of one configuration*, filled by any request that misses it,
  written by updates in two steps, parsed by one schema and validated by another.
- *Tokens are never revoked.*

What makes each component correct: one account per identity, and an account
nobody else gets; a second factor that is on has a secret the user has been
shown; a page a user is sent to is one the user can use; only a user who gave
the second factor turns it off; file, copy and requests agree on the last
update, and no half-written file travels; a challenge is used up, no key is lost
or shared, and responses are accepted in the order they were signed; a login is
not harmed by the strategies of other requests.

## The modules

| Module | Models | Proofs |
|---|---|---|
| `Accounts` | provider logins and the user directory | `AccountsProofs` |
| `TwoFactor` | second factor, tokens, redirects | `TwoFactorProofs` |
| `ConfigStore` | file, Redis copy, middleware, configuration API | `ConfigStoreProofs` |
| `WebAuthn` | security keys: challenges, key documents, counters, tokens | `WebAuthnProofs` |
| `LoginFlow` | strategies, guards and logins under a configuration that changes | `LoginFlowProofs` |
| `SecondFactor` | abstract: what a second factor promises; implemented by `TwoFactor` and `WebAuthn` | `SecondFactorProofs` |
| `Directory` | abstract: what the user directory promises of logins; implemented by `Accounts` | `DirectoryProofs` |
| `ConfigRegister` | abstract: what the configuration store promises; implemented by `ConfigStore`, used by `LoginFlow` | in the modules of the two |

`MC<Module>` adds the symmetry TLC uses; each `.cfg` gives the constants their
values. In every module a request holds a slot (in `Accounts`, is a login) with
the await it stands at, and an action is what the code does from one await to
the next. Definitions called "A slip" are not part of `Next`: each is a plausible
bug in the definition after it, and shows that a property would notice.

### Accounts

`pc` is the await a login stands at; `found` is the array `p` of
`findUserByProviderId`, `loaded` the array `linkProvider` has read, `acct` the
user `validate` returned. `users`, `infos` and `providers` are the collections. A
login creates at most one user and one `ProviderInfo`, so both are named after
it; the model needs no counter for fresh ids. An identity is a pair (provider,
profile id). `FindExistingUser` takes any user whose array equals `found`, as
`findOne` may; for the empty array that is any user not linked yet. `Abort` is a
rejected call or a crash, and what was written stays. `orderly` is a history
variable: first logins never overlapped and none was cut short after
`createUser`. `validate` throws for a profile without photo or email before it
has written; that is an `Abort` before `createUser`.

### Directory

The promise of a directory: a login is one step. The first login of an identity
gives it an account that nobody has, every later one gets that account. This is
the whole promise, in force while `orderly`; afterwards an identity that has its
account keeps it and nobody else is let in (`AccountsStay`, `Exclusive`).
`Accounts` maps the account of an identity to the user of a settled one
(`AccountOf`) and the session of a login to the identity and user it was answered
with (`SessionOf`). The step of the directory is the one in which `findOne` finds
the user, or in which `linkProvider` saves the link; the searches and writes
before it change nothing the directory knows of. `ImplementsDirectory` is the
refinement.

### TwoFactor

`otp`, `isMfaEnabled` and `authenticators` are the user documents, `tokens` the
claims of the JWTs issued (a cookie may be kept, so none is removed), `job` the
requests in flight. A code is the secret it is a code of, so `Verified` compares
the two; a user can send codes of the secrets shown so far. The page of a login
is chosen when passport loads the document, because the handler never reads it
again; the one of a refused request when `TwoFactorAuthStrategy` loads its own.
The configuration of a request is any configuration, with `mfaType` missing in
some, because the middleware passes on values that have not been through the
schema's defaults. Saving the `OtpInfo` and setting `user.otp` is one step: a
document that no user carries is invisible to every route. `shown`, `fate`,
`lastAck` and `serial` are history: which QR codes came, which were lost to a
failure, what turn-on or turn-off answered last, and whether the two never
crossed. Security keys appear by what they do to a user and to the tokens.

### ConfigStore

`redis`, `file`, `req` (stage and configuration of each request) and `writer` (the
file write an update has left running, which may outlive it). A request has no
kind: until its handler runs the middleware treats all alike, so what it asks for
is chosen there. A configuration is a model value; `Valid` are those `clsZod`
accepts, and `full` says that no field with a default is missing. A write
truncates the file and then fills it, so two of them may leave a mixture. `MwKey`
and `CtlKey` are the two ways the key is named. The middleware reads the path it
is configured with and the controller `cls.json` of the working directory: one
file here, as `src/app.module.ts` sets it. A request without configuration fails
while its strategies are resolved (`helpers/github-strategy.factory.ts:10`) and so
never reaches its handler.

`current`, `whole`, `clean` and `fresh` are history. `current` is the configuration
of the last answered update. An update is `whole` if it began alone and has crossed
neither another one nor a fill nor a failure so far. The history is `clean` until
something crosses or an update is cut short, and again once a whole update has
ended: both stores are then what that update wrote, whatever they were before. A
request is `fresh` while no update has begun since it arrived.

### ConfigRegister

The promise of the configuration store: it looks like one variable. A request takes
its value in one step and keeps what it took, an update replaces it in one step.
The promise is suspended while `atomic` is false: then any value may be there and be
taken, though what was taken before is kept. `ConfigStore` maps the value to
`current`, what a request took to what it holds from the read that gave it to the
handler (`Held`), and `atomic` to `clean` (`ImplementsRegister`). `LoginFlow` maps
the value to `stored` and never suspends the promise (`UsesRegister`): this is
where the two models meet. What `LoginFlow` shows is about an application whose two
sides name one Redis key, while the history of its configuration is clean; what
happens to the stores otherwise is in `ConfigStore`.

### SecondFactor

The promise, without requests or stores: sets of users who have a secret, have a
key, have the factor turned on, and have a token that says it was given. A user
passes only with something enrolled, turns it on only with a secret, turns it off
only after passing, and loses nothing that is enrolled. `TwoFactor` maps its user
documents and tokens to these sets, `WebAuthn` its key documents and tokens (it
enrols no secrets and turns nothing on); `ImplementsSecondFactor` is the
refinement in both. It is about the moment of the effect: a check made before an
await must still be true when its consequence is written.

### WebAuthn

`challenge` is the user's entry in Redis; `keys`, `cred` and `counter` are the
array of the user and the key documents; `job` is what a request has read and
waits for. Registering and giving a key share `challenge`, and the four routes
are split at every await: the user with its populated keys (`GetUser`), the
challenge, the second copy of the document (`FindAuthenticator`, whose counter
may differ from the one that is checked), the counter, the deletion, the token.
`SaveNewAuthenticator` has Mongoose's version check on the array, and the
`VersionError` that ends the request with the document saved and carried by
nobody. ioredis sends the commands of a process in order over one connection, so
the un-awaited SET is in effect before any later GET: what is left of it is its
rejection, which nobody handles (`RejectedSet`). `ConfigStore` lets commands take
effect in any order, which includes that order.

The client is in the model (`offer`, `response`): it answers options once, sends
the answer as often as it likes, and counts its signatures or never does. A
challenge is drawn once, so the number of challenges bounds the options of a run;
a credential is named by the challenge it was created for. `find` takes the first
of several documents of one credential; the model takes any. `accepted`,
`repeated`, `crossed`, `cut` and `standing` are history: the challenges that let a
verification through, which of them let through a second one, which met another
verification of the user between check and deletion, which were left there by a
failure, and the options a user may count on.

### LoginFlow

`stored` is the configuration as one register (see `ConfigRegister`), `registry`
the strategy registered last under each provider's name, `request` the requests in
flight with the configuration each has read, `flow` the logins of browsers, which
take two requests with the provider's page in between. Of a configuration it keeps
`willAuthenticate` and, for each provider, `active` and the client ID, `None` for
the empty string that the dto and the schema accept. `Resolve` is what nestjs-cls
does after the middleware: it runs both factories, and each strategy registers
itself in its constructor (`@nestjs/passport`), which throws without a client ID
(`passport-oauth2`). The guard then takes the strategy from passport's table,
whoever put it there. `ConfigStore`'s `Valid` is only what the schema accepts, so
that this is the module that says which stored configurations requests survive. A
code is good for the client ID the browser was sent to the provider with. `steady`
and `fresh` are history. A flow is steady once its login has read the configuration,
until an update is stored, or until a request with another configuration registers
its strategies (`Unsettles`) between the strategies and the guard of the flow's own
request. That gap is where the one name under which all strategies are registered
does harm: the guard then takes the other request's strategy, and nothing in the code
prevents it. `SteadyFlowSucceeds` says that it is the only place: a straggler with an
older configuration that registers before the flow's strategies, while the user is
at the provider's page or during the exchange does not disturb it. A request is fresh
while no update has been stored since it arrived.

## The runs

| Run | Bounds | Shows |
|---|---|---|
| `accounts` | 4 logins, 2 identities | `OneAccountPerIdentity` when first logins run one at a time; `KnownLoginsKeepTheirAccount`, `SettledForever` and `SettledAccountIsExclusive` always; `ImplementsDirectory` |
| `accounts_linked` | same | **violated**: two first logins of one identity that each save a `ProviderInfo`, overlapping or the first cut short, leave it unknown for ever |
| `accounts_own` | same | **violated**: a login is given, and does not link, the unlinked account of another first login |
| `two_factor` | 2 users, 2 requests, 2 secrets | `EnabledHasSecret`, `TokenMeansSecondFactor`, `PageIsUsable`, `StoredSecretIsShown`, `AnswersHoldWhenSerial`, `OnlyTokenHoldersTurnOff`; `ImplementsSecondFactor` |
| `two_factor_off` | 1 user, 3 requests, 2 secrets | **violated**: turn-off has answered ok and the second factor stays on |
| `two_factor_live` | 1 user, 2 requests, 2 secrets | under fairness, `TurnOffLands` and `StoredSecretGetsKnown` |
| `config_store` | 3 requests, 3 configurations (1 refused by the schema), one key | `StoresAgreeWhenClean`, `FreshRequestSeesUpdate`, `FileBrokenOnlyInWrite`, and by `TypeOK` that no half-written file travels; `ImplementsRegister` |
| `config_store_url` | 2 requests | **violated**: an accepted update that no later request can parse |
| `config_store_defaults` | 2 requests | **violated**: a field with a default is missing |
| `config_store_keys` | 2 requests, two keys | **violated**: with `REDIS_AUTH_CONFIG_KEY` unset, updates reach no request |
| `webauthn` | 2 users, 2 requests, 3 challenges, 2 documents, counters 0 and 1 | `KeysAreOwn`, `KeysStay`, `OptionsStand`, `AcceptedIsUsedUp`, `OneDocPerCredential`, `AcceptedInOrder`, `CounterRefusesOnlyRepeats`, `CounterGoesBackOnlyCrossed`; `ImplementsSecondFactor` |
| `login_flow` | 2 requests, 2 logins, 1 provider, 2 client IDs | `SteadyFlowSucceeds`, `TurnedOffStaysOff`, `LockedForGood`; `UsesRegister` |

Why the bounds are enough to be interesting. In `accounts` two first logins
overlap, a third meets what they left behind, and a fourth comes back; two
identities are the fewest that can share an account. In `two_factor` two
requests cross on one user or meet on two, and two secrets are the fewest of
which one replaces the other; a secret is drawn once, which ends enrolment after
two and keeps the model finite. In `config_store` an update, a fill and a fresh
request, or two updates and a reader, fit in three slots. In `webauthn` three
challenges register a key and give it twice, or register it twice and give it
once, and two requests cross in every way; a counter that stays at 0 in one
signature and is 1 in the next is enough for it to go back. In `login_flow` the
second request registers strategies of another configuration, or updates,
between any two steps of a login's; two client IDs are the fewest that can be
confused, and with two providers or three slots nothing else was found. Nothing
else is bounded: apart from these no counters occur, and requests come again as
long as a slot is free. `CHECK_DEADLOCK FALSE` stands only in the `accounts`
runs and in `webauthn`, whose logins and challenges are used up.

**Fairness.** Safety properties use `Spec`, without fairness. `FairSpec` of
`TwoFactor` adds weak fairness of `Continue(r)`, the step that a request in flight
is waiting for: the driver answers or rejects every call, and the event loop takes
up every answer. Nothing is assumed of users and administrators (arrivals), of
`Abort` or of `Crash`. A client that stops reading its QR code ends in `Abort`
when its connection does. The exchange of a code in `LoginFlow` waits for another
party's server without a timeout of the application's own, so nothing is claimed
there about its end.

## What is proved

For any sets of logins, identities, users, slots, secrets, configurations,
challenges, documents, providers and client IDs, not only finite ones, from
nothing but the named assumptions (`None` is no member of the other sets; the
markers of `ConfigStore` are no configurations and `Valid` are some of them;
counters are natural numbers with 0 among them). Each proof has one inductive invariant, one lemma
per group of its conjuncts, and one step per action.

- **`AccountsProofs`**: type correctness, the two invariants and the two action
  properties of `Accounts`. The invariant says of every login what its stage
  implies about the collections: a user carries at most the `ProviderInfo` of its
  own creator, so a non-empty array that was found can belong only to a user of
  the same identity. While the history is orderly, at most one login is between
  its empty search and its link, so nobody meets a user without provider.
  `DirectoryImplemented` is the refinement of `Directory`. In an orderly history the
  account of an identity is exactly the user that carries its `ProviderInfo`
  (`OrderlyAccount`), so the two steps that answer a login are a `Login` of the
  directory and the rest are stutters; in a disorderly one `SettledForever` and
  `SettledAccountIsExclusive` are what is left of it. `OrderlyLoginsAreLinked` proves
  the two properties that `accounts_linked` and `accounts_own` violate for every
  orderly history: overlapping and aborted first logins are their only cause.
- **`TwoFactorProofs`**: all properties of `two_factor`, the refinement of
  `SecondFactor` included. The argument is monotonicity: no step takes a secret or the keys away, so what was
  checked before an await is still there after it, although the check itself is
  stale. A route that removes a secret would break `PageIsUsable`,
  `EnabledHasSecret` and `TokenMeansSecondFactor` together.
  `AnswersHoldWhenSerial` needs to know which answers are outstanding for a user
  at each stage.
- **`ConfigStoreProofs`**: type correctness (`JSON.parse` stands between the file
  and everything that travels) and the other properties of `config_store`,
  `FreshSeen` and `RegisterImplemented` under `MwKey = CtlKey`, without which they
  are false (`config_store_keys`). `OrderInv` follows the single update that is on
  its way while it is whole or the history clean: before its write, between its two
  effects in either order, and after both. Not even the order of file write and
  copy has to be known. `IntactInv` says what a clean history has in addition: the
  stores are right before that update's first effect. A whole update needs no such
  thing of what was there before it, which is why one restores the rest.
  `FreshInv` carries the last update from the copy or the file to the request that
  reads it. For `RegisterImplemented` the step of the register is the read that
  gives a request its configuration (`ReadsCurrent`: from the copy or from the
  file, it is the last answered update), and the answer of an update.
- **`WebAuthnProofs`**: every property of `webauthn`. The inductive invariant ties
  what each request has read to the stores: whoever is past its check holds an
  accepted challenge, two of them of one user have crossed, and a challenge still
  in Redis was either never accepted, is in use, or was left there by a failure.
  The order of signatures is kept by the challenge and not by the counter: a
  credential signs for one challenge at a time, a later challenge replaces the
  earlier one in Redis, so a response is let through only if none that was signed
  later was. That is why `AcceptedInOrder` has no condition, while the stored
  counter itself may go back when two verifications cross
  (`CounterGoesBackOnlyCrossed`). The library compares with the counter the user's
  copy had at the start of the request (`SeenInv`), which some accepted response had:
  an older one of the credential, and the counter passes, or this very response, let
  through before (`CounterRefusesOnlyRepeats`). Compared with the document that
  `findById` loads, it would refuse a user whose newer response overtook the older.
- **`LoginFlowProofs`**: every property of `login_flow`. The requests of a
  steady flow have the stored configuration (`OwnInv`), so their own strategies are
  made of its options, and while the guard is still to run nobody registers others
  without ending the steadiness: the guard finds a strategy made of the options it
  would have used itself (`FoundInv`). An update ends all steady flows at once. `NoWayBack` needs only that a request in which a constructor
  throws reaches no guard. `RegisterUsed` is the refinement of `ConfigRegister`, which
  needs nothing of the flows.
- **`DirectoryProofs`** and **`SecondFactorProofs`**: what follows from the abstract
  promises alone, and so holds of whatever implements them: accounts and identities
  correspond one to one (`AccountsApart`, `OneAccount`); a second factor that is on
  or was given has something to give it with, and nothing enrolled is lost
  (`AlwaysHasProof`, `OnlyMore`). These are why the abstract modules say enough.

Only model-checked: the two liveness properties, and the violations, which are
counterexamples. Liveness under fairness and `ENABLED` are out of the reach of
the provers TLAPS uses here.

## What the violations say

They are disagreements between the code and what it says of itself, listed under
`findings` in `PROJECT.json`. The conditional properties say when the promise is
kept all the same: `OneAccountPerIdentity` and `OrderlyLoginsAreLinked` if first
logins run one at a time and none is cut short, `AnswersHoldWhenSerial` if
turn-on, turn-off and crashes of a user do not meet, `StoresAgreeWhenClean` if
updates meet neither each other nor a fill nor a failure, and `FreshSeen` if,
besides, both sides name one key. A disagreement between file and copy is not for
good: one update that crosses nothing ends it. A login that went wrong stays
wrong, for nothing makes `orderly` true again. A change to the code that makes
such a condition true by construction makes the property unconditional.

Two passing properties say something a maintainer should know as well.
`LockedForGood`: an update that activates a provider with an empty client ID
passes the dto and the schema, and no request gets past its strategies again, the
correcting update included; only file and Redis can be corrected by hand.
`CounterGoesBackOnlyCrossed`: two verifications of one user that overlap may leave
the older counter stored.

## What is not modelled

- The relying party of security keys: `WebAuthnController` keeps it in a field that
  every request sets, and reads it after awaits; the model has one throughout. The
  answers to refused requests (an unregistered key gives a 500, because the key is
  dereferenced before it is checked) are not told apart either.
- A client of security keys that is not honest, attestation, and user handles.
- How long anything takes: the 600 seconds of a challenge are over at any moment.
- The signing key of tokens. `two-factor.controller.ts` and
  `webauthn.controller.ts` sign with `JWT_SECRET`, the guards verify with the
  prefixed name; the two are the same without a prefix, which `src/app.module.ts`
  sets.
- One-time-password windows, cryptography, QR rendering, static files, response
  bodies, and profile data (names, photos, provider tokens).
- `auth.module.ts` (commented out), `middlewares/cls-setup.middleware.ts` (not
  applied), `services/auth-config.service.ts` (empty) and
  `AuthService.getUserInfo` (not called).
- Dependency injection (`AuthModule.forRoot`), evaluated once at start, apart from
  the strategies it has built for every request.

## Plan

In this order:

1. `Accounts`, `TwoFactor`, `ConfigStore` with their proofs. Done.
2. `WebAuthn` with its proofs. Done.
3. `LoginFlow`: strategies per request under one name, with its proofs. Done.
4. `SecondFactor`, `Directory` and `ConfigRegister`, each implemented by the module
   it abstracts, the refinements proved. Done.
5. Liveness of `TwoFactor`. Done. Left: `ConfigStore`'s un-awaited file write.
6. `ConfigStore` and `LoginFlow` meet in `ConfigRegister`. Done. Left: `WebAuthn`
   with a relying party that updates replace.
7. The signing key of tokens, for applications that set a prefix.
