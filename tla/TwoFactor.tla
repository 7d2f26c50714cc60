----------------------------- MODULE TwoFactor ------------------------------
(***************************************************************************)
(* The second factor: enrolment with a one-time-password secret, turning it *)
(* on and off, the token that says it was given, and the pages a login or a *)
(* guarded request is sent to when it is missing.  TwoFactorController,     *)
(* TwoFactorAuthenticationService, TwoFactorAuthStrategy and the callback    *)
(* handlers of AuthController, with the users they share in Mongo.          *)
(*                                                                         *)
(* A request occupies a slot between two awaits; a slot is free again when   *)
(* the request is answered and nothing of it is left running.  A refusal    *)
(* changes nothing and is no step.  The auth configuration a request reads  *)
(* is any configuration: an administrator may change it between any two     *)
(* requests.  Security keys (WebAuthnController) appear by their effect on   *)
(* a user and on the token.                                                 *)
(***************************************************************************)

CONSTANTS
    Users,     \* user documents
    Slots,     \* requests in flight at a time
    Secrets,   \* what generateSecret may return
    None       \* no secret, no user; a code of no secret at all

ASSUME TwoFactorAssumption == None \notin Users /\ None \notin Secrets

Pages == {"success", "otpAuthenticate", "otpSetup",
          "webAuthnAuthenticate", "webAuthnRegister", "noPage"}

\* What the middleware puts into the request's store: mfaEnforce, and mfaType as
\* the file or Redis has it, which is missing where the schema has a default.
Configs == [mfaEnforce : BOOLEAN, mfaType : {"otp", "webauthn", "unset"}]

Stages == {"idle", "callback", "refuse", "store", "showQr",
           "enable", "signOn", "sign", "disabling"}

VARIABLES
    otp,            \* [Users -> secret of user.otp, or None]
    isMfaEnabled,   \* [Users -> BOOLEAN]
    authenticators, \* [Users -> BOOLEAN]: the array is not empty
    tokens,         \* [Users -> SUBSET BOOLEAN]: is2FAuthenticated of the JWTs issued
    job,            \* [Slots -> what the request waits for, its user, its secret or page]
    fate,           \* history: [Secrets -> drawn by nobody, in use, or its QR code lost]
    shown,          \* history: [Users -> the secrets whose QR code the user has got]
    lastAck,        \* history: what the last answered turn-on or turn-off promised
    serial          \* history: [Users -> turn-on and turn-off never crossed]

users == <<otp, isMfaEnabled, authenticators>>
history == <<fate, shown, lastAck>>
vars == <<users, tokens, job, history, serial>>

-----------------------------------------------------------------------------
(***************************************************************************)
(* The pages.                                                              *)
(***************************************************************************)

\* The user document, as far as the redirects look at it.
Doc(u) == [otp |-> otp[u] # None, mfa |-> isMfaEnabled[u], keys |-> authenticators[u]]

\* A slip: the two branches on user.otp are swapped.
OtpPageSwapped(doc) == IF doc.otp THEN "otpSetup" ELSE "otpAuthenticate"

OtpPage(doc) == IF doc.otp THEN "otpAuthenticate" ELSE "otpSetup"

WebAuthnPage(doc) == IF doc.keys THEN "webAuthnAuthenticate" ELSE "webAuthnRegister"

NeedsSecondFactor(doc, config) == config.mfaEnforce \/ doc.mfa

\* googleCallback and githubCallback: with an unknown mfaType no redirect is sent.
LoginPage(doc, config) ==
    IF NeedsSecondFactor(doc, config)
    THEN CASE config.mfaType = "otp"      -> OtpPage(doc)
           [] config.mfaType = "webauthn" -> WebAuthnPage(doc)
           [] OTHER                       -> "noPage"
    ELSE "success"

\* TwoFactorAuthStrategy.validate without the second factor: every mfaType but
\* "otp" is taken for webauthn, and a user who needs no second factor is turned
\* away too, for validate returns nothing.
GuardPage(doc, config) ==
    IF NeedsSecondFactor(doc, config)
    THEN IF config.mfaType = "otp" THEN OtpPage(doc) ELSE WebAuthnPage(doc)
    ELSE "noPage"

-----------------------------------------------------------------------------
Free == [stage |-> "idle", user |-> None, item |-> None]

TurningOn(r, u) == job[r].user = u /\ job[r].stage \in {"enable", "signOn"}
TurningOff(r, u) == job[r].user = u /\ job[r].stage = "disabling"
Crossed(u) == \E r, s \in Slots : TurningOn(r, u) /\ TurningOff(s, u)

Init ==
    /\ otp = [u \in Users |-> None]
    /\ isMfaEnabled = [u \in Users |-> FALSE]
    /\ authenticators = [u \in Users |-> FALSE]
    /\ tokens = [u \in Users |-> {}]
    /\ job = [r \in Slots |-> Free]
    /\ fate = [s \in Secrets |-> "new"]
    /\ shown = [u \in Users |-> {}]
    /\ lastAck = [u \in Users |-> "none"]
    /\ serial = [u \in Users |-> TRUE]

At(r, stage) == job[r].stage = stage

\* The request of slot r goes on to an await, or is over.
Await(r, stage, u, item) ==
    job' = [job EXCEPT ![r] = [stage |-> stage, user |-> u, item |-> item]]
Finish(r) == job' = [job EXCEPT ![r] = Free]

Issue(u, is2FAuthenticated) ==
    tokens' = [tokens EXCEPT ![u] = @ \cup {is2FAuthenticated}]

\* JwtGuard lets any token of the user pass, TwoFactorGuard only one that says
\* that the second factor was given.
JwtGuard(u) == tokens[u] # {}
TwoFactorGuard(u) == TRUE \in tokens[u]

(***************************************************************************)
(* Login, and a guarded request without the second factor.                 *)
(***************************************************************************)

\* passport hands the user it found to the callback route: page and token are
\* decided on that document, however long the signature takes.
FindUser(r, u, config) ==
    /\ At(r, "idle")
    /\ Await(r, "callback", u, LoginPage(Doc(u), config))
    /\ UNCHANGED <<users, tokens, history>>

\* The callback route: a token without the second factor, and the redirect.
Callback(r) ==
    /\ At(r, "callback")
    /\ Issue(job[r].user, FALSE)
    /\ Finish(r)
    /\ UNCHANGED <<users, history>>

\* The test route with a token without the second factor: TwoFactorGuard reads
\* the user and throws, or has passport answer, 401.
Refuse(r, u, config) ==
    /\ At(r, "idle")
    /\ FALSE \in tokens[u]
    /\ Await(r, "refuse", u, GuardPage(Doc(u), config))
    /\ UNCHANGED <<users, tokens, history>>

\* UnauthorizedRedirectExceptionFilter, or Nest itself, writes the answer.
Refused(r) ==
    /\ At(r, "refuse")
    /\ Finish(r)
    /\ UNCHANGED <<users, tokens, history>>

(***************************************************************************)
(* Enrolment.                                                              *)
(***************************************************************************)

\* setup2fa: a secret is drawn, then the user is read.
Setup2fa(r, u, s) ==
    /\ At(r, "idle") /\ JwtGuard(u)
    /\ fate[s] = "new"
    /\ fate' = [fate EXCEPT ![s] = "used"]
    /\ Await(r, "store", u, s)
    /\ UNCHANGED <<users, tokens, shown, lastAck>>

\* A slip: the secret is stored and its QR code is not piped to the response.
UpdateOtpInfoOnly(r) ==
    /\ At(r, "store")
    /\ otp' = [otp EXCEPT ![job[r].user] = job[r].item]
    /\ Finish(r)
    /\ UNCHANGED <<isMfaEnabled, authenticators, tokens, history>>

\* updateOtpInfo: whatever secret the user had is replaced, in use or not.
UpdateOtpInfo(r) ==
    /\ At(r, "store")
    /\ otp' = [otp EXCEPT ![job[r].user] = job[r].item]
    /\ Await(r, "showQr", job[r].user, job[r].item)
    /\ UNCHANGED <<isMfaEnabled, authenticators, tokens, history>>

\* A slip: getSecret does not check for a secret.
SecretReadableUnchecked(u) == TRUE

\* getSecret refuses a user without the second factor turned on.
SecretReadable(u) == isMfaEnabled[u] /\ otp[u] # None

\* getQr: the secret is read, its QR code follows.
GetQr(r, u) ==
    /\ At(r, "idle") /\ JwtGuard(u)
    /\ SecretReadable(u)
    /\ Await(r, "showQr", u, otp[u])
    /\ UNCHANGED <<users, tokens, history>>

\* pipeQrCodeStream: the user has the secret.
PipeQrCode(r) ==
    /\ At(r, "showQr")
    /\ shown' = [shown EXCEPT ![job[r].user] = @ \cup {job[r].item}]
    /\ Finish(r)
    /\ UNCHANGED <<users, tokens, fate, lastAck>>

(***************************************************************************)
(* Turning on, authenticating, turning off.                                *)
(***************************************************************************)

\* A slip: the promise of verify is taken for its answer.
VerifiedUnawaited(u, code) == TRUE

\* verify of the service: there is a secret, and the code is a code of it.
Verified(u, code) == otp[u] # None /\ code = otp[u]

\* The codes a user can send: of a secret whose QR code came, or of none.
Codes(u) == shown[u] \cup {None}

\* verify of the controller, up to enable2FAForUser.
TurnOn(r, u, code) ==
    /\ At(r, "idle") /\ JwtGuard(u)
    /\ Verified(u, code)
    /\ Await(r, "enable", u, None)
    /\ UNCHANGED <<users, tokens, history>>

\* A slip: enableMfa is called without $set on the field the schema has.
EnableMfaNoWrite(r) ==
    /\ At(r, "enable")
    /\ lastAck' = [lastAck EXCEPT ![job[r].user] = "none"]
    /\ Await(r, "signOn", job[r].user, None)
    /\ UNCHANGED <<users, tokens, fate, shown>>

\* enableMfa.  Until it is answered the user has been promised nothing.
EnableMfa(r) ==
    /\ At(r, "enable")
    /\ isMfaEnabled' = [isMfaEnabled EXCEPT ![job[r].user] = TRUE]
    /\ lastAck' = [lastAck EXCEPT ![job[r].user] = "none"]
    /\ Await(r, "signOn", job[r].user, None)
    /\ UNCHANGED <<otp, authenticators, tokens, fate, shown>>

\* The token with the second factor is signed and sent: the answer to turn-on.
SignOn(r) ==
    /\ At(r, "signOn")
    /\ Issue(job[r].user, TRUE)
    /\ lastAck' = [lastAck EXCEPT ![job[r].user] = "on"]
    /\ Finish(r)
    /\ UNCHANGED <<users, fate, shown>>

\* authenticate: the same check, and nothing is written.
Authenticate(r, u, code) ==
    /\ At(r, "idle") /\ JwtGuard(u)
    /\ Verified(u, code)
    /\ Await(r, "sign", u, None)
    /\ UNCHANGED <<users, tokens, history>>

Sign(r) ==
    /\ At(r, "sign")
    /\ Issue(job[r].user, TRUE)
    /\ Finish(r)
    /\ UNCHANGED <<users, history>>

\* A slip: turnOff is guarded by JwtGuard alone.
TurnOffJwtOnly(r, u) ==
    /\ At(r, "idle") /\ JwtGuard(u)
    /\ lastAck' = [lastAck EXCEPT ![u] = "off"]
    /\ Await(r, "disabling", u, None)
    /\ UNCHANGED <<users, tokens, fate, shown>>

\* turnOff calls disable2FAForUser without await: it answers while the write is
\* on its way.
TurnOff(r, u) ==
    /\ At(r, "idle") /\ JwtGuard(u) /\ TwoFactorGuard(u)
    /\ lastAck' = [lastAck EXCEPT ![u] = "off"]
    /\ Await(r, "disabling", u, None)
    /\ UNCHANGED <<users, tokens, fate, shown>>

\* A slip: disableOtp drops the secret together with the flag.
DisableAndForget(r) ==
    /\ At(r, "disabling")
    /\ isMfaEnabled' = [isMfaEnabled EXCEPT ![job[r].user] = FALSE]
    /\ otp' = [otp EXCEPT ![job[r].user] = None]
    /\ Finish(r)
    /\ UNCHANGED <<authenticators, tokens, history>>

\* A slip: the query of disableOtp is built and nobody executes it.
DisableOtpUnsent(r) ==
    /\ At(r, "disabling")
    /\ Finish(r)
    /\ UNCHANGED <<users, tokens, history>>

\* disableOtp lands.  The secret stays.
DisableOtp(r) ==
    /\ At(r, "disabling")
    /\ isMfaEnabled' = [isMfaEnabled EXCEPT ![job[r].user] = FALSE]
    /\ Finish(r)
    /\ UNCHANGED <<otp, authenticators, tokens, history>>

(***************************************************************************)
(* Security keys, by their effect.                                         *)
(***************************************************************************)

\* verifyRegistration adds a key.
SaveNewAuthenticator(u) ==
    /\ JwtGuard(u)
    /\ authenticators' = [authenticators EXCEPT ![u] = TRUE]
    /\ UNCHANGED <<otp, isMfaEnabled, tokens, job, history>>

\* verifyAuthentication issues a token for a registered key, which says whether
\* the signature was that key's.
VerifyAuthentication(u) ==
    /\ JwtGuard(u) /\ authenticators[u]
    /\ \E verified \in BOOLEAN : Issue(u, verified)
    /\ UNCHANGED <<users, job, history>>

(***************************************************************************)
(* Failures.                                                               *)
(***************************************************************************)

\* The secrets that slots R draw or show, and will not get to.
LoseSecrets(R) ==
    fate' = [s \in Secrets |->
               IF \E r \in R : job[r].stage \in {"store", "showQr"} /\ job[r].item = s
               THEN "lost" ELSE fate[s]]

\* The database or the connection fails a request that is being awaited.
Abort(r) ==
    /\ ~At(r, "idle") /\ ~At(r, "disabling")
    /\ LoseSecrets({r})
    /\ Finish(r)
    /\ UNCHANGED <<users, tokens, shown, lastAck>>

\* The process goes down, which a failure of the write nobody awaits causes too.
Crash ==
    /\ \E r \in Slots : ~At(r, "idle")
    /\ LoseSecrets(Slots)
    /\ job' = [r \in Slots |-> Free]
    /\ UNCHANGED <<users, tokens, shown, lastAck>>

-----------------------------------------------------------------------------
RequestStep(r) ==
    \/ \E u \in Users, c \in Configs : FindUser(r, u, c) \/ Refuse(r, u, c)
    \/ Callback(r) \/ Refused(r)
    \/ \E u \in Users, s \in Secrets : Setup2fa(r, u, s)
    \/ UpdateOtpInfo(r) \/ PipeQrCode(r)
    \/ \E u \in Users : GetQr(r, u) \/ TurnOff(r, u)
    \/ \E u \in Users : \E code \in Codes(u) : TurnOn(r, u, code) \/ Authenticate(r, u, code)
    \/ EnableMfa(r) \/ SignOn(r) \/ Sign(r) \/ DisableOtp(r)
    \/ Abort(r)

\* A turn-on and a turn-off that are in flight together cross, and so do a
\* turn-off and the crash that keeps it from landing.
NoteCrossing == serial' = [u \in Users |-> serial[u] /\ ~Crossed(u)']

Next ==
    \/ /\ \/ \E r \in Slots : RequestStep(r)
          \/ \E u \in Users : SaveNewAuthenticator(u) \/ VerifyAuthentication(u)
       /\ NoteCrossing
    \/ /\ Crash
       /\ serial' = [u \in Users |-> serial[u] /\ ~\E r \in Slots : TurningOff(r, u)]

Spec == Init /\ [][Next]_vars

\* What a request awaits comes: the driver answers or the call fails (Abort), and
\* the event loop takes up every answer.  Users and administrators owe nothing.
Continue(r) ==
    \/ Callback(r) \/ Refused(r) \/ UpdateOtpInfo(r) \/ PipeQrCode(r)
    \/ EnableMfa(r) \/ SignOn(r) \/ Sign(r) \/ DisableOtp(r)

FairSpec == Spec /\ \A r \in Slots : WF_vars(Continue(r) /\ NoteCrossing)

-----------------------------------------------------------------------------
(***************************************************************************)
(* Properties.                                                             *)
(***************************************************************************)

\* Every variable has its type, and a request that waits has what it waits with:
\* no QR code is ever made of a missing secret (getSecret's check).
TypeOK ==
    /\ otp \in [Users -> Secrets \cup {None}]
    /\ isMfaEnabled \in [Users -> BOOLEAN]
    /\ authenticators \in [Users -> BOOLEAN]
    /\ tokens \in [Users -> SUBSET BOOLEAN]
    /\ job \in [Slots -> [stage : Stages, user : Users \cup {None},
                          item : Secrets \cup Pages \cup {None}]]
    /\ \A r \in Slots :
         /\ ~At(r, "idle") => job[r].user \in Users
         /\ job[r].stage \in {"callback", "refuse"} => job[r].item \in Pages
         /\ job[r].stage \in {"store", "showQr"} => job[r].item \in Secrets
    /\ fate \in [Secrets -> {"new", "used", "lost"}]
    /\ shown \in [Users -> SUBSET Secrets]
    /\ lastAck \in [Users -> {"none", "on", "off"}]
    /\ serial \in [Users -> BOOLEAN]

\* The second factor is on only for a user who has a secret, however enrolment,
\* turn-on, turn-off and crashes interleave: nobody is asked for a code of nothing.
EnabledHasSecret == \A u \in Users : isMfaEnabled[u] => otp[u] # None

\* A token that says the second factor was given names a user who still has one.
TokenMeansSecondFactor ==
    \A u \in Users : TRUE \in tokens[u] => otp[u] # None \/ authenticators[u]

\* The page a request is about to be sent to can be used on arrival, though the
\* document it was decided on may be stale: a code is asked for only where there
\* is a secret, a key only where there is one.
PageIsUsable ==
    \A r \in Slots : job[r].stage \in {"callback", "refuse"} =>
        /\ job[r].item = "otpAuthenticate" => otp[job[r].user] # None
        /\ job[r].item = "webAuthnAuthenticate" => authenticators[job[r].user]

\* The secret of a user has been shown to that user, or is about to be, or a
\* failure took its QR code: no interleaving of two enrolments loses one.
StoredSecretIsShown ==
    \A u \in Users :
        \/ otp[u] = None \/ otp[u] \in shown[u] \/ fate[otp[u]] = "lost"
        \/ \E r \in Slots : At(r, "showQr") /\ job[r].user = u /\ job[r].item = otp[u]

\* The second factor is turned off only after the user gave it: some token of the
\* user says so.
OnlyTokenHoldersTurnOff ==
    [][\A u \in Users : isMfaEnabled[u] /\ ~isMfaEnabled'[u] => TRUE \in tokens[u]]_vars

\* While turn-on and turn-off of a user have not crossed, nor a turn-off and a
\* crash, the last answer is the truth once nothing is on its way.
AnswersHoldWhenSerial ==
    \A u \in Users :
        serial[u] /\ (\A r \in Slots : ~TurningOn(r, u) /\ ~TurningOff(r, u)) =>
            /\ lastAck[u] = "on" => isMfaEnabled[u]
            /\ lastAck[u] = "off" => ~isMfaEnabled[u]

\* What turn-off answers, { success: true, message: 'ok' }: once nothing of the
\* user is on its way, a user answered so last has no second factor turned on.
TurnOffAnswerHolds ==
    \A u \in Users :
        (\A r \in Slots : ~TurningOn(r, u) /\ ~TurningOff(r, u)) =>
            (lastAck[u] = "off" => ~isMfaEnabled[u])

\* The turning off that was answered before its write was sent does land, unless a
\* turn-on crosses it or the process goes down first.
TurnOffLands ==
    \A u \in Users :
        lastAck[u] = "off" ~> ~isMfaEnabled[u] \/ lastAck[u] # "off" \/ ~serial[u]

\* A secret that is stored comes to be known to its user, or another replaces it, or
\* a failure takes its QR code: no user is left with a secret nobody can use.
StoredSecretGetsKnown ==
    \A u \in Users, s \in Secrets :
        otp[u] = s ~> s \in shown[u] \/ otp[u] # s \/ fate[s] = "lost"

\* The promise of the second factor, for users who prove it with either kind.
SF == INSTANCE SecondFactor WITH
        enrolled <- {u \in Users : otp[u] # None},
        keyed <- {u \in Users : authenticators[u]},
        enabled <- {u \in Users : isMfaEnabled[u]},
        passed <- {u \in Users : TRUE \in tokens[u]}

\* Every step of the controllers is one of SecondFactor or changes nothing of it:
\* what is enrolled stays, the token that says the second factor was given and the
\* turning on need something enrolled at the moment they happen, and the turning
\* off needs such a token, however stale what the request has checked.
ImplementsSecondFactor == SF!Spec
=============================================================================
