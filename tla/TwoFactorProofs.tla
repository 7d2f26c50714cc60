-------------------------- MODULE TwoFactorProofs ---------------------------
(***************************************************************************)
(* Proofs about TwoFactor, for any sets of users, slots and secrets.        *)
(*                                                                         *)
(* The properties about secrets, tokens and pages rest on WaitInv: what a    *)
(* request that is past its check may still rely on when it writes.  The     *)
(* one about answers rests on SerialInv, which says what the crossing of     *)
(* turn-on and turn-off would break.                                        *)
(***************************************************************************)
EXTENDS TwoFactor, TLAPS

\* The user of a request past verify has a secret, and the user of a pending
\* turn-off holds a token with the second factor.
WaitInv ==
    \A r \in Slots :
        /\ job[r].stage \in {"enable", "signOn", "sign"} => otp[job[r].user] # None
        /\ job[r].stage = "disabling" => TRUE \in tokens[job[r].user]

\* The four state properties about what a user has.
HasInv == EnabledHasSecret /\ TokenMeansSecondFactor /\ PageIsUsable

\* While nothing has crossed, a turn-on that is about to answer has written, and
\* a turn-off on its way is the last answer.
SerialInv ==
    \A u \in Users : serial[u] =>
        /\ ~Crossed(u)
        /\ \A r \in Slots : At(r, "signOn") /\ job[r].user = u => isMfaEnabled[u]
        /\ \A r \in Slots : TurningOff(r, u) => lastAck[u] = "off"
        /\ (\A r \in Slots : ~TurningOff(r, u)) =>
             /\ lastAck[u] = "on" => isMfaEnabled[u]
             /\ lastAck[u] = "off" => ~isMfaEnabled[u]

IInv == TypeOK /\ WaitInv /\ HasInv /\ StoredSecretIsShown /\ SerialInv

-----------------------------------------------------------------------------
(***************************************************************************)
(* The pages.                                                              *)
(***************************************************************************)

\* The pages are pages, and ask for what the document has.
LEMMA PageFacts ==
    ASSUME NEW doc, NEW config
    PROVE  /\ LoginPage(doc, config) \in Pages
           /\ GuardPage(doc, config) \in Pages
           /\ LoginPage(doc, config) = "otpAuthenticate" => doc.otp
           /\ GuardPage(doc, config) = "otpAuthenticate" => doc.otp
           /\ LoginPage(doc, config) = "webAuthnAuthenticate" => doc.keys
           /\ GuardPage(doc, config) = "webAuthnAuthenticate" => doc.keys
  BY DEF LoginPage, GuardPage, OtpPage, WebAuthnPage, Pages

\* What the document says of a user is so.
LEMMA DocFacts ==
    ASSUME NEW u \in Users
    PROVE  (Doc(u).otp => otp[u] # None) /\ (Doc(u).keys => authenticators[u])
  <1>1. Doc(u).otp = (otp[u] # None)
    BY Zenon DEF Doc
  <1>2. Doc(u).keys = authenticators[u]
    BY DEF Doc
  <1> QED
    BY <1>1, <1>2

-----------------------------------------------------------------------------
(***************************************************************************)
(* Types.                                                                  *)
(***************************************************************************)

\* A job that is awaited with a fitting item keeps the type of job.
LEMMA AwaitType ==
    ASSUME TypeOK, NEW r \in Slots, NEW stage \in Stages, NEW u \in Users,
           NEW item \in Secrets \cup Pages \cup {None}, Await(r, stage, u, item),
           stage \in {"callback", "refuse"} => item \in Pages,
           stage \in {"store", "showQr"} => item \in Secrets
    PROVE  /\ job' \in [Slots -> [stage : Stages, user : Users \cup {None},
                                  item : Secrets \cup Pages \cup {None}]]
           /\ \A q \in Slots :
                /\ ~At(q, "idle")' => job'[q].user \in Users
                /\ job'[q].stage \in {"callback", "refuse"} => job'[q].item \in Pages
                /\ job'[q].stage \in {"store", "showQr"} => job'[q].item \in Secrets
  <1> DEFINE j == [stage |-> stage, user |-> u, item |-> item]
  <1>1. j \in [stage : Stages, user : Users \cup {None}, item : Secrets \cup Pages \cup {None}]
    OBVIOUS
  <1>2. job' = [job EXCEPT ![r] = j]
    BY DEF Await
  <1>3. \A q \in Slots : job'[q] = IF q = r THEN j ELSE job[q]
    BY <1>2 DEF TypeOK
  <1>4. j.stage = stage /\ j.user = u /\ j.item = item
    OBVIOUS
  <1> QED
    BY <1>1, <1>2, <1>3, <1>4 DEF TypeOK, At

\* So does a slot that becomes free.
LEMMA FinishType ==
    ASSUME TypeOK, NEW R, job' = [r \in Slots |-> IF r \in R THEN Free ELSE job[r]]
    PROVE  /\ job' \in [Slots -> [stage : Stages, user : Users \cup {None},
                                  item : Secrets \cup Pages \cup {None}]]
           /\ \A q \in Slots :
                /\ ~At(q, "idle")' => job'[q].user \in Users
                /\ job'[q].stage \in {"callback", "refuse"} => job'[q].item \in Pages
                /\ job'[q].stage \in {"store", "showQr"} => job'[q].item \in Secrets
  BY DEF TypeOK, Free, At, Stages

\* A page is a page, a shown secret a secret: what getSecret checks for.
LEMMA TypeStep == TypeOK /\ [Next]_vars => TypeOK'
  <1> SUFFICES ASSUME TypeOK, [Next]_vars
               PROVE  TypeOK'
    OBVIOUS
  <1> USE DEF users, history
  <1>1. ASSUME NEW r \in Slots, RequestStep(r), serial' \in [Users -> BOOLEAN]
        PROVE  TypeOK'
    <2> USE <1>1
    <2>a. ASSUME NEW R, job' = [q \in Slots |-> IF q \in R THEN Free ELSE job[q]],
                 fate' \in [Secrets -> {"new", "used", "lost"}],
                 UNCHANGED <<users, tokens, shown, lastAck>>
          PROVE  TypeOK'
      BY <2>a, FinishType DEF TypeOK
    <2>b. Finish(r) => job' = [q \in Slots |-> IF q \in {r} THEN Free ELSE job[q]]
      BY DEF Finish, TypeOK
    <2>c. ~At(r, "idle") => job[r].user \in Users
      BY DEF TypeOK
    <2>1. ASSUME NEW u \in Users, NEW c \in Configs, FindUser(r, u, c) PROVE TypeOK'
      <3>1. LoginPage(Doc(u), c) \in Pages
        BY PageFacts
      <3> QED
        BY <2>1, <3>1, AwaitType DEF FindUser, Stages, TypeOK
    <2>2. ASSUME NEW u \in Users, NEW c \in Configs, Refuse(r, u, c) PROVE TypeOK'
      <3>1. GuardPage(Doc(u), c) \in Pages
        BY PageFacts
      <3> QED
        BY <2>2, <3>1, AwaitType DEF Refuse, Stages, TypeOK
    <2>3. CASE Callback(r)
      BY <2>b, <2>c, <2>3, FinishType DEF Callback, Issue, At, TypeOK
    <2>4. CASE Refused(r)
      BY <2>a, <2>b, <2>4 DEF Refused, TypeOK
    <2>5. ASSUME NEW u \in Users, NEW s \in Secrets, Setup2fa(r, u, s) PROVE TypeOK'
      BY <2>5, AwaitType DEF Setup2fa, Stages, TypeOK
    <2>6. CASE UpdateOtpInfo(r)
      <3>1. job[r].user \in Users /\ job[r].item \in Secrets
        BY <2>6 DEF UpdateOtpInfo, At, TypeOK
      <3> QED
        BY <2>6, <3>1, AwaitType DEF UpdateOtpInfo, Stages, TypeOK
    <2>7. CASE PipeQrCode(r)
      <3>1. job[r].user \in Users /\ job[r].item \in Secrets
        BY <2>7 DEF PipeQrCode, At, TypeOK
      <3> QED
        BY <2>b, <2>7, <3>1, FinishType DEF PipeQrCode, TypeOK
    <2>8. ASSUME NEW u \in Users, GetQr(r, u) PROVE TypeOK'
      <3>1. otp[u] \in Secrets
        BY <2>8 DEF GetQr, SecretReadable, TypeOK
      <3> QED
        BY <2>8, <3>1, AwaitType DEF GetQr, Stages, TypeOK
    <2>9. ASSUME NEW u \in Users, TurnOff(r, u) PROVE TypeOK'
      BY <2>9, AwaitType DEF TurnOff, Stages, TypeOK
    <2>10. ASSUME NEW u \in Users, NEW code, TurnOn(r, u, code) PROVE TypeOK'
      BY <2>10, AwaitType DEF TurnOn, Stages, TypeOK
    <2>11. ASSUME NEW u \in Users, NEW code, Authenticate(r, u, code) PROVE TypeOK'
      BY <2>11, AwaitType DEF Authenticate, Stages, TypeOK
    <2>12. CASE EnableMfa(r)
      <3>1. job[r].user \in Users
        BY <2>12 DEF EnableMfa, At, TypeOK
      <3> QED
        BY <2>12, <3>1, AwaitType DEF EnableMfa, Stages, TypeOK
    <2>13. CASE SignOn(r)
      BY <2>b, <2>c, <2>13, FinishType DEF SignOn, Issue, At, TypeOK
    <2>14. CASE Sign(r)
      BY <2>b, <2>c, <2>14, FinishType DEF Sign, Issue, At, TypeOK
    <2>15. CASE DisableOtp(r)
      BY <2>b, <2>c, <2>15, FinishType DEF DisableOtp, At, TypeOK
    <2>16. CASE Abort(r)
      BY <2>a, <2>b, <2>16 DEF Abort, LoseSecrets, TypeOK
    <2> QED
      BY <2>1, <2>2, <2>3, <2>4, <2>5, <2>6, <2>7, <2>8, <2>9, <2>10, <2>11, <2>12, <2>13,
         <2>14, <2>15, <2>16 DEF RequestStep
  <1>2. ASSUME NEW u \in Users, SaveNewAuthenticator(u) \/ VerifyAuthentication(u),
               serial' \in [Users -> BOOLEAN]
        PROVE  TypeOK'
    <2>1. CASE SaveNewAuthenticator(u)
      BY <1>2, <2>1 DEF SaveNewAuthenticator, At, TypeOK
    <2>2. CASE VerifyAuthentication(u)
      <3>1. tokens' \in [Users -> SUBSET BOOLEAN]
        BY <2>2 DEF VerifyAuthentication, Issue, TypeOK
      <3> QED
        BY <1>2, <2>2, <3>1 DEF VerifyAuthentication, At, TypeOK
    <2> QED
      BY <1>2, <2>1, <2>2
  <1>3. ASSUME Crash, serial' \in [Users -> BOOLEAN]
        PROVE  TypeOK'
    <2>1. job' = [q \in Slots |-> IF q \in Slots THEN Free ELSE job[q]]
      BY <1>3 DEF Crash
    <2> QED
      BY <1>3, <2>1, FinishType DEF Crash, LoseSecrets, TypeOK
  <1>4. CASE UNCHANGED vars
    BY <1>4 DEF vars, TypeOK, At
  <1>5. Next => serial' \in [Users -> BOOLEAN]
    BY DEF Next, NoteCrossing, TypeOK
  <1> QED
    BY <1>1, <1>2, <1>3, <1>4, <1>5 DEF Next

-----------------------------------------------------------------------------
(***************************************************************************)
(* Secrets, tokens and pages.                                              *)
(***************************************************************************)

\* Nothing takes a secret, a key or a token from a user, so what a request has
\* checked still holds when it writes.
LEMMA HasStep == TypeOK /\ WaitInv /\ HasInv /\ [Next]_vars => WaitInv' /\ HasInv'
  <1> SUFFICES ASSUME TypeOK, WaitInv, HasInv, [Next]_vars
               PROVE  WaitInv' /\ HasInv'
    OBVIOUS
  <1> USE DEF users, history, Free, Issue, Await, Finish, At,
              WaitInv, HasInv, EnabledHasSecret, TokenMeansSecondFactor, PageIsUsable
  <1>1. ASSUME NEW r \in Slots, RequestStep(r)
        PROVE  WaitInv' /\ HasInv'
    <2>0. ~At(r, "idle") => job[r].user \in Users
      BY DEF TypeOK
    <2>1. ASSUME NEW u \in Users, NEW c \in Configs, FindUser(r, u, c)
          PROVE  WaitInv' /\ HasInv'
      <3>1. LoginPage(Doc(u), c) = "otpAuthenticate" => otp[u] # None
        BY PageFacts, DocFacts
      <3>2. LoginPage(Doc(u), c) = "webAuthnAuthenticate" => authenticators[u]
        BY PageFacts, DocFacts
      <3> QED
        BY <2>1, <3>1, <3>2 DEF FindUser, TypeOK
    <2>2. ASSUME NEW u \in Users, NEW c \in Configs, Refuse(r, u, c)
          PROVE  WaitInv' /\ HasInv'
      <3>1. GuardPage(Doc(u), c) = "otpAuthenticate" => otp[u] # None
        BY PageFacts, DocFacts
      <3>2. GuardPage(Doc(u), c) = "webAuthnAuthenticate" => authenticators[u]
        BY PageFacts, DocFacts
      <3> QED
        BY <2>2, <3>1, <3>2 DEF Refuse, TypeOK
    <2>3. CASE Callback(r)
      BY <2>0, <2>3 DEF Callback, TypeOK
    <2>4. CASE Refused(r)
      BY <2>4 DEF Refused, TypeOK
    <2>5. ASSUME NEW u \in Users, NEW s \in Secrets, Setup2fa(r, u, s)
          PROVE  WaitInv' /\ HasInv'
      BY <2>5 DEF Setup2fa, TypeOK
    <2>6. CASE UpdateOtpInfo(r)
      <3>1. job[r].user \in Users /\ job[r].item \in Secrets
        BY <2>6 DEF UpdateOtpInfo, TypeOK
      <3>2. \A u \in Users : otp[u] # None => otp'[u] # None
        BY <2>6, <3>1, TwoFactorAssumption DEF UpdateOtpInfo, TypeOK
      <3>3. HasInv'
        BY <2>6, <3>2 DEF UpdateOtpInfo, TypeOK
      <3>4. WaitInv'
        BY <2>6, <3>2 DEF UpdateOtpInfo, TypeOK
      <3> QED
        BY <3>3, <3>4
    <2>7. CASE PipeQrCode(r)
      BY <2>7 DEF PipeQrCode, TypeOK
    <2>8. ASSUME NEW u \in Users, GetQr(r, u)
          PROVE  WaitInv' /\ HasInv'
      BY <2>8 DEF GetQr, TypeOK
    <2>9. ASSUME NEW u \in Users, TurnOff(r, u)
          PROVE  WaitInv' /\ HasInv'
      BY <2>9 DEF TurnOff, TwoFactorGuard, TypeOK
    <2>10. ASSUME NEW u \in Users, NEW code, TurnOn(r, u, code)
           PROVE  WaitInv' /\ HasInv'
      BY <2>10 DEF TurnOn, Verified, TypeOK
    <2>11. ASSUME NEW u \in Users, NEW code, Authenticate(r, u, code)
           PROVE  WaitInv' /\ HasInv'
      BY <2>11 DEF Authenticate, Verified, TypeOK
    <2>12. CASE EnableMfa(r)
      BY <2>0, <2>12 DEF EnableMfa, TypeOK
    <2>13. CASE SignOn(r)
      BY <2>0, <2>13 DEF SignOn, TypeOK
    <2>14. CASE Sign(r)
      BY <2>0, <2>14 DEF Sign, TypeOK
    <2>15. CASE DisableOtp(r)
      BY <2>0, <2>15 DEF DisableOtp, TypeOK
    <2>16. CASE Abort(r)
      BY <2>16 DEF Abort, TypeOK
    <2> QED
      BY <1>1, <2>1, <2>2, <2>3, <2>4, <2>5, <2>6, <2>7, <2>8, <2>9, <2>10, <2>11, <2>12,
         <2>13, <2>14, <2>15, <2>16 DEF RequestStep
  <1>2. ASSUME NEW u \in Users, SaveNewAuthenticator(u)
        PROVE  WaitInv' /\ HasInv'
    BY <1>2 DEF SaveNewAuthenticator, TypeOK
  <1>3. ASSUME NEW u \in Users, VerifyAuthentication(u)
        PROVE  WaitInv' /\ HasInv'
    BY <1>3 DEF VerifyAuthentication, TypeOK
  <1>4. CASE Crash
    BY <1>4 DEF Crash, TypeOK
  <1>5. CASE UNCHANGED vars
    BY <1>5 DEF vars
  <1> QED
    BY <1>1, <1>2, <1>3, <1>4, <1>5 DEF Next

\* A turn-off that lands belongs to a holder of the token.
LEMMA TurnOffStep ==
    ASSUME TypeOK, WaitInv, [Next]_vars, NEW u \in Users, isMfaEnabled[u], ~isMfaEnabled'[u]
    PROVE  TRUE \in tokens[u]
  <1> USE DEF users, history
  <1>1. PICK r \in Slots : DisableOtp(r)
    BY DEF Next, vars, RequestStep, FindUser, Callback, Refuse, Refused, Setup2fa,
           UpdateOtpInfo, GetQr, PipeQrCode, TurnOn, EnableMfa, SignOn, Authenticate, Sign,
           TurnOff, SaveNewAuthenticator, VerifyAuthentication, Abort, Crash, TypeOK
  <1>2. job[r].user = u
    BY <1>1 DEF DisableOtp, TypeOK
  <1> QED
    BY <1>1, <1>2 DEF DisableOtp, At, WaitInv

-----------------------------------------------------------------------------
(***************************************************************************)
(* Shown secrets.                                                          *)
(***************************************************************************)

\* A slot whose QR code is not on its way can change without losing a secret.
LEMMA ShownKept ==
    ASSUME StoredSecretIsShown, NEW r \in Slots, ~At(r, "showQr"), UNCHANGED <<otp, shown>>,
           \A s \in Secrets : fate[s] = "lost" => fate'[s] = "lost",
           \A q \in Slots : q # r => job'[q] = job[q],
           otp \in [Users -> Secrets \cup {None}]
    PROVE  StoredSecretIsShown'
  BY DEF StoredSecretIsShown, At

\* The one step that stores a secret leaves its QR code on the way; the two that
\* take a QR code off the way show its secret or record it as lost.
LEMMA ShownStep == TypeOK /\ StoredSecretIsShown /\ [Next]_vars => StoredSecretIsShown'
  <1> SUFFICES ASSUME TypeOK, StoredSecretIsShown, [Next]_vars
               PROVE  StoredSecretIsShown'
    OBVIOUS
  <1> USE DEF users, history
  <1>1. ASSUME NEW r \in Slots, RequestStep(r)
        PROVE  StoredSecretIsShown'
    <2>1. CASE UpdateOtpInfo(r)
      <3>1. job[r].user \in Users /\ job[r].item \in Secrets
        BY <2>1 DEF UpdateOtpInfo, At, TypeOK
      <3>2. \A u \in Users : otp'[u] = IF u = job[r].user THEN job[r].item ELSE otp[u]
        BY <2>1, <3>1 DEF UpdateOtpInfo, TypeOK
      <3>3. /\ job'[r].stage = "showQr"
            /\ job'[r].user = job[r].user
            /\ job'[r].item = job[r].item
        BY <2>1 DEF UpdateOtpInfo, Await, TypeOK
      <3>4. \A q \in Slots : q # r => job'[q] = job[q]
        BY <2>1 DEF UpdateOtpInfo, Await, TypeOK
      <3>5. ~At(r, "showQr")
        BY <2>1 DEF UpdateOtpInfo, At
      <3> QED
        BY <2>1, <3>2, <3>3, <3>4, <3>5 DEF UpdateOtpInfo, StoredSecretIsShown, At
    <2>2. CASE PipeQrCode(r)
      <3>1. job[r].user \in Users
        BY <2>2 DEF PipeQrCode, At, TypeOK
      <3>2. \A u \in Users : /\ shown[u] \subseteq shown'[u]
                             /\ u = job[r].user => job[r].item \in shown'[u]
        BY <2>2, <3>1 DEF PipeQrCode, TypeOK
      <3>3. \A q \in Slots : q # r => job'[q] = job[q]
        BY <2>2 DEF PipeQrCode, Finish, TypeOK
      <3> QED
        BY <2>2, <3>2, <3>3 DEF PipeQrCode, StoredSecretIsShown, At
    <2>3. CASE Abort(r)
      <3>1. \A s \in Secrets : fate[s] = "lost" => fate'[s] = "lost"
        BY <2>3 DEF Abort, LoseSecrets
      <3>2. At(r, "showQr") => fate'[job[r].item] = "lost"
        BY <2>3 DEF Abort, LoseSecrets, At, TypeOK
      <3>3. \A q \in Slots : q # r => job'[q] = job[q]
        BY <2>3 DEF Abort, Finish, TypeOK
      <3> QED
        BY <2>3, <3>1, <3>2, <3>3 DEF Abort, StoredSecretIsShown, At, TypeOK
    <2>4. ASSUME NEW u \in Users, NEW s \in Secrets, Setup2fa(r, u, s)
          PROVE  StoredSecretIsShown'
      <3>1. \A x \in Secrets : fate[x] = "lost" => fate'[x] = "lost"
        BY <2>4 DEF Setup2fa, TypeOK
      <3> QED
        BY <2>4, <3>1, ShownKept DEF Setup2fa, Await, At, TypeOK
    <2>5. ASSUME NEW u \in Users, NEW c,
                 FindUser(r, u, c) \/ Refuse(r, u, c) \/ GetQr(r, u) \/ TurnOff(r, u)
                   \/ TurnOn(r, u, c) \/ Authenticate(r, u, c)
          PROVE  StoredSecretIsShown'
      BY <2>5, ShownKept
      DEF FindUser, Refuse, GetQr, TurnOff, TurnOn, Authenticate, Await, At, TypeOK
    <2>6. CASE Callback(r) \/ Refused(r) \/ EnableMfa(r) \/ SignOn(r) \/ Sign(r) \/ DisableOtp(r)
      BY <2>6, ShownKept
      DEF Callback, Refused, EnableMfa, SignOn, Sign, DisableOtp, Await, Finish, At, TypeOK
    <2> QED
      BY <1>1, <2>1, <2>2, <2>3, <2>4, <2>5, <2>6 DEF RequestStep
  <1>2. ASSUME NEW u \in Users, SaveNewAuthenticator(u) \/ VerifyAuthentication(u)
        PROVE  StoredSecretIsShown'
    <2>1. UNCHANGED <<otp, shown, fate, job>>
      BY <1>2 DEF SaveNewAuthenticator, VerifyAuthentication
    <2> QED
      BY <2>1 DEF StoredSecretIsShown, At
  <1>3. CASE Crash
    <2>1. \A s \in Secrets : fate[s] = "lost" => fate'[s] = "lost"
      BY <1>3 DEF Crash, LoseSecrets
    <2>2. \A r \in Slots : At(r, "showQr") => fate'[job[r].item] = "lost"
      BY <1>3 DEF Crash, LoseSecrets, At, TypeOK
    <2> QED
      BY <1>3, <2>1, <2>2 DEF Crash, StoredSecretIsShown, TypeOK
  <1>4. CASE UNCHANGED vars
    BY <1>4 DEF vars, StoredSecretIsShown, At
  <1> QED
    BY <1>1, <1>2, <1>3, <1>4 DEF Next

-----------------------------------------------------------------------------
(***************************************************************************)
(* Answers.                                                                *)
(***************************************************************************)

\* A job that is neither a turn-on nor a turn-off, before or after the step, has
\* no say in what was answered.
LEMMA AnswersKept ==
    ASSUME TypeOK, SerialInv, UNCHANGED <<isMfaEnabled, lastAck>>,
           NEW r \in Slots, \A q \in Slots : q # r => job'[q] = job[q],
           job'[r].stage \notin {"signOn", "disabling"}, ~At(r, "disabling"),
           \A u \in Users : serial'[u] => serial[u] /\ ~Crossed(u)'
    PROVE  SerialInv'
  <1> SUFFICES ASSUME NEW u \in Users, serial'[u]
               PROVE  /\ \A q \in Slots : At(q, "signOn")' /\ job'[q].user = u => isMfaEnabled[u]
                      /\ \A q \in Slots : TurningOff(q, u)' => lastAck[u] = "off"
                      /\ (\A q \in Slots : ~TurningOff(q, u)') =>
                           /\ lastAck[u] = "on" => isMfaEnabled[u]
                           /\ lastAck[u] = "off" => ~isMfaEnabled[u]
    BY DEF SerialInv
  <1>1. \A q \in Slots : At(q, "signOn")' => At(q, "signOn") /\ job'[q].user = job[q].user
    BY DEF At
  <1>2. \A q \in Slots : TurningOff(q, u)' <=> TurningOff(q, u)
    BY DEF TurningOff, At
  <1> QED
    BY <1>1, <1>2 DEF SerialInv, At

\* Apart from a crash, turn-on and turn-off are what can make an answer false,
\* and each finds the other absent.
LEMMA SerialStep == TypeOK /\ SerialInv /\ [Next]_vars => SerialInv'
  <1> SUFFICES ASSUME TypeOK, SerialInv, [Next]_vars
               PROVE  SerialInv'
    OBVIOUS
  <1> USE DEF users, history
  <1>a. ASSUME serial' = [u \in Users |-> serial[u] /\ ~Crossed(u)'], NEW u \in Users, serial'[u]
        PROVE  serial[u] /\ ~Crossed(u)' /\ ~Crossed(u)
    BY <1>a DEF SerialInv
  <1>1. ASSUME NEW r \in Slots, RequestStep(r),
               serial' = [u \in Users |-> serial[u] /\ ~Crossed(u)']
        PROVE  SerialInv'
    <2>0. ~At(r, "idle") => job[r].user \in Users
      BY DEF TypeOK
    <2>a. \A u \in Users : serial'[u] => serial[u] /\ ~Crossed(u)'
      BY <1>1, <1>a
    <2>1. CASE EnableMfa(r)
      <3>1. /\ job'[r].stage = "signOn" /\ job'[r].user = job[r].user /\ job[r].user \in Users
            /\ \A q \in Slots : q # r => job'[q] = job[q]
        BY <2>0, <2>1 DEF EnableMfa, Await, At, TypeOK
      <3>2. TurningOn(r, job[r].user) /\ TurningOn(r, job[r].user)'
        BY <2>1, <3>1 DEF EnableMfa, TurningOn, At
      <3>3. ASSUME NEW u \in Users, u # job[r].user, NEW q \in Slots
            PROVE  /\ TurningOff(q, u)' <=> TurningOff(q, u)
                   /\ At(q, "signOn")' /\ job'[q].user = u => At(q, "signOn") /\ job[q].user = u
        BY <2>1, <3>1, <3>3 DEF TurningOff, At, EnableMfa
      <3>4. ASSUME NEW u \in Users, u # job[r].user
            PROVE  isMfaEnabled'[u] = isMfaEnabled[u] /\ lastAck'[u] = lastAck[u]
        BY <2>1, <3>4 DEF EnableMfa, TypeOK
      <3>5. isMfaEnabled'[job[r].user] /\ lastAck'[job[r].user] = "none"
        BY <2>1, <3>1 DEF EnableMfa, TypeOK
      <3>6. serial'[job[r].user] => \A q \in Slots : ~TurningOff(q, job[r].user)'
        BY <1>1, <1>a, <3>1, <3>2 DEF Crossed
      <3> SUFFICES ASSUME NEW u \in Users, serial'[u]
                   PROVE  /\ \A q \in Slots : At(q, "signOn")' /\ job'[q].user = u => isMfaEnabled'[u]
                          /\ \A q \in Slots : TurningOff(q, u)' => lastAck'[u] = "off"
                          /\ (\A q \in Slots : ~TurningOff(q, u)') =>
                               /\ lastAck'[u] = "on" => isMfaEnabled'[u]
                               /\ lastAck'[u] = "off" => ~isMfaEnabled'[u]
        BY <1>1, <1>a DEF SerialInv
      <3>7. CASE u = job[r].user
        BY <3>1, <3>5, <3>6, <3>7
      <3>8. CASE u # job[r].user
        BY <1>1, <1>a, <3>3, <3>4, <3>8 DEF SerialInv
      <3> QED
        BY <3>7, <3>8
    <2>2. CASE SignOn(r)
      <3>1. /\ job'[r] = Free /\ job[r].user \in Users /\ At(r, "signOn")
            /\ \A q \in Slots : q # r => job'[q] = job[q]
        BY <2>0, <2>2 DEF SignOn, Finish, At, TypeOK
      <3>2. TurningOn(r, job[r].user)
        BY <3>1 DEF TurningOn, At
      <3>3. ASSUME NEW u \in Users, NEW q \in Slots
            PROVE  /\ TurningOff(q, u)' <=> TurningOff(q, u)
                   /\ At(q, "signOn")' /\ job'[q].user = u => At(q, "signOn") /\ job[q].user = u
        BY <3>1 DEF TurningOff, At, Free
      <3>4. ASSUME NEW u \in Users, u # job[r].user
            PROVE  lastAck'[u] = lastAck[u]
        BY <2>2, <3>4 DEF SignOn, TypeOK
      <3>5. lastAck'[job[r].user] = "on"
        BY <2>2, <3>1 DEF SignOn, TypeOK
      <3>6. serial'[job[r].user] => \A q \in Slots : ~TurningOff(q, job[r].user)
        BY <1>1, <1>a, <3>1, <3>2 DEF Crossed
      <3>7. isMfaEnabled' = isMfaEnabled
        BY <2>2 DEF SignOn
      <3> QED
        BY <1>1, <1>a, <3>1, <3>3, <3>4, <3>5, <3>6, <3>7 DEF SerialInv
    <2>3. ASSUME NEW v \in Users, TurnOff(r, v)
          PROVE  SerialInv'
      <3>1. /\ job'[r].stage = "disabling" /\ job'[r].user = v /\ At(r, "idle")
            /\ \A q \in Slots : q # r => job'[q] = job[q]
        BY <2>3 DEF TurnOff, Await, TypeOK
      <3>2. TurningOff(r, v)'
        BY <3>1 DEF TurningOff
      <3>3. ASSUME NEW u \in Users, u # v, NEW q \in Slots
            PROVE  /\ TurningOff(q, u)' <=> TurningOff(q, u)
        BY <3>1, <3>3 DEF TurningOff, At
      <3>4. ASSUME NEW u \in Users, NEW q \in Slots, At(q, "signOn")', job'[q].user = u
            PROVE  At(q, "signOn") /\ job[q].user = u
        BY <3>1, <3>4 DEF At
      <3>5. ASSUME NEW u \in Users, u # v
            PROVE  lastAck'[u] = lastAck[u]
        BY <2>3, <3>5 DEF TurnOff, TypeOK
      <3>6. lastAck'[v] = "off" /\ isMfaEnabled' = isMfaEnabled
        BY <2>3 DEF TurnOff, TypeOK
      <3> QED
        BY <1>1, <1>a, <3>2, <3>3, <3>4, <3>5, <3>6 DEF SerialInv
    <2>4. CASE DisableOtp(r)
      <3>1. /\ job'[r] = Free /\ job[r].user \in Users /\ At(r, "disabling")
            /\ \A q \in Slots : q # r => job'[q] = job[q]
        BY <2>0, <2>4 DEF DisableOtp, Finish, At, TypeOK
      <3>2. TurningOff(r, job[r].user)
        BY <3>1 DEF TurningOff, At
      <3>3. ASSUME NEW u \in Users, NEW q \in Slots
            PROVE  /\ TurningOff(q, u)' => TurningOff(q, u)
                   /\ u # job[r].user => (TurningOff(q, u)' <=> TurningOff(q, u))
                   /\ At(q, "signOn")' /\ job'[q].user = u => At(q, "signOn") /\ job[q].user = u
        BY <3>1 DEF TurningOff, At, Free
      <3>4. ASSUME NEW u \in Users, u # job[r].user
            PROVE  isMfaEnabled'[u] = isMfaEnabled[u]
        BY <2>4, <3>4 DEF DisableOtp, TypeOK
      <3>5. isMfaEnabled'[job[r].user] = FALSE /\ lastAck' = lastAck
        BY <2>4, <3>1 DEF DisableOtp, TypeOK
      <3>6. serial'[job[r].user] =>
              /\ lastAck[job[r].user] = "off"
              /\ \A q \in Slots : ~TurningOn(q, job[r].user)
        BY <1>1, <1>a, <3>1, <3>2 DEF SerialInv, Crossed
      <3>7. serial'[job[r].user] =>
              \A q \in Slots : ~(At(q, "signOn") /\ job[q].user = job[r].user)
        BY <3>6 DEF TurningOn, At
      <3> QED
        BY <1>1, <1>a, <3>1, <3>3, <3>4, <3>5, <3>6, <3>7 DEF SerialInv
    <2>5. ASSUME NEW u \in Users, NEW c,
                 \/ FindUser(r, u, c) \/ Refuse(r, u, c) \/ GetQr(r, u) \/ Setup2fa(r, u, c)
                 \/ TurnOn(r, u, c) \/ Authenticate(r, u, c)
          PROVE  SerialInv'
      <3>1. \E stage, item : stage \notin {"signOn", "disabling"} /\ Await(r, stage, u, item)
        BY <2>5 DEF FindUser, Refuse, GetQr, Setup2fa, TurnOn, Authenticate
      <3>2. /\ job'[r].stage \notin {"signOn", "disabling"}
            /\ \A q \in Slots : q # r => job'[q] = job[q]
        BY <3>1 DEF Await, TypeOK
      <3>3. UNCHANGED <<isMfaEnabled, lastAck>> /\ ~At(r, "disabling")
        BY <2>5 DEF FindUser, Refuse, GetQr, Setup2fa, TurnOn, Authenticate, At
      <3> QED
        BY <2>a, <3>2, <3>3, AnswersKept
    <2>6. CASE \/ Callback(r) \/ Refused(r) \/ UpdateOtpInfo(r) \/ PipeQrCode(r)
               \/ Sign(r) \/ Abort(r)
      <3>1. \/ Finish(r)
            \/ \E stage, u, item : stage \notin {"signOn", "disabling"} /\ Await(r, stage, u, item)
        BY <2>6 DEF Callback, Refused, UpdateOtpInfo, PipeQrCode, Sign, Abort
      <3>2. /\ job'[r].stage \notin {"signOn", "disabling"}
            /\ \A q \in Slots : q # r => job'[q] = job[q]
        BY <3>1 DEF Await, Finish, Free, TypeOK
      <3>3. UNCHANGED <<isMfaEnabled, lastAck>> /\ ~At(r, "disabling")
        BY <2>6 DEF Callback, Refused, UpdateOtpInfo, PipeQrCode, Sign, Abort, At
      <3> QED
        BY <2>a, <3>2, <3>3, AnswersKept
    <2> QED
      BY <1>1, <2>1, <2>2, <2>3, <2>4, <2>5, <2>6 DEF RequestStep
  <1>2. ASSUME NEW v \in Users, SaveNewAuthenticator(v) \/ VerifyAuthentication(v),
               serial' = [u \in Users |-> serial[u] /\ ~Crossed(u)']
        PROVE  SerialInv'
    <2>1. UNCHANGED <<isMfaEnabled, lastAck, job>>
      BY <1>2 DEF SaveNewAuthenticator, VerifyAuthentication
    <2> QED
      BY <1>2, <1>a, <2>1 DEF SerialInv, At, TurningOff
  <1>3. ASSUME Crash,
               serial' = [u \in Users |-> serial[u] /\ ~\E r \in Slots : TurningOff(r, u)]
        PROVE  SerialInv'
    <2>1. UNCHANGED <<isMfaEnabled, lastAck>> /\ \A r \in Slots : job'[r] = Free
      BY <1>3 DEF Crash
    <2>2. \A u \in Users, r \in Slots : ~At(r, "signOn")' /\ ~TurningOff(r, u)'
      BY <2>1 DEF At, TurningOff, Free
    <2>3. \A u \in Users : ~Crossed(u)'
      BY <2>2 DEF Crossed
    <2> QED
      BY <1>3, <2>1, <2>2, <2>3 DEF SerialInv
  <1>4. CASE UNCHANGED vars
    BY <1>4 DEF vars, SerialInv, Crossed, TurningOn, TurningOff, At
  <1> QED
    BY <1>1, <1>2, <1>3, <1>4 DEF Next, NoteCrossing

-----------------------------------------------------------------------------
(***************************************************************************)
(* The theorems.                                                           *)
(***************************************************************************)

\* Users without secrets, keys and tokens, and no request, satisfy the invariant.
LEMMA Initially == Init => IInv
  <1> SUFFICES ASSUME Init PROVE IInv
    OBVIOUS
  <1>1. \A r \in Slots : job[r].stage = "idle"
    BY DEF Init, Free
  <1>2. TypeOK
    BY DEF Init, TypeOK, At, Free, Stages
  <1>3. WaitInv /\ HasInv /\ StoredSecretIsShown
    BY <1>1 DEF Init, WaitInv, HasInv, EnabledHasSecret, TokenMeansSecondFactor, PageIsUsable,
                StoredSecretIsShown
  <1>4. SerialInv
    BY <1>1 DEF Init, SerialInv, Crossed, TurningOn, TurningOff, At
  <1> QED
    BY <1>2, <1>3, <1>4 DEF IInv

\* The inductive invariant.
LEMMA Inductive == Spec => []IInv
  <1>1. IInv /\ [Next]_vars => IInv'
    BY TypeStep, HasStep, ShownStep, SerialStep DEF IInv
  <1> QED
    BY Initially, <1>1, PTL DEF Spec

\* Every variable keeps its type, and no QR code is made of a missing secret.
THEOREM TwoFactorTypeOK == Spec => []TypeOK
  <1>1. IInv => TypeOK
    BY DEF IInv
  <1> QED
    BY Inductive, <1>1, PTL

\* The second factor is never on for a user without a secret.
THEOREM EnabledAlwaysHasSecret == Spec => []EnabledHasSecret
  <1>1. IInv => EnabledHasSecret
    BY DEF IInv, HasInv
  <1> QED
    BY Inductive, <1>1, PTL

\* A token with the second factor names a user who has one.
THEOREM TokenAlwaysMeansSecondFactor == Spec => []TokenMeansSecondFactor
  <1>1. IInv => TokenMeansSecondFactor
    BY DEF IInv, HasInv
  <1> QED
    BY Inductive, <1>1, PTL

\* A redirect decided on a stale document still leads to a page the user can use.
THEOREM PageAlwaysUsable == Spec => []PageIsUsable
  <1>1. IInv => PageIsUsable
    BY DEF IInv, HasInv
  <1> QED
    BY Inductive, <1>1, PTL

\* A stored secret was shown, is about to be, or lost its QR code to a failure.
THEOREM StoredSecretAlwaysShown == Spec => []StoredSecretIsShown
  <1>1. IInv => StoredSecretIsShown
    BY DEF IInv
  <1> QED
    BY Inductive, <1>1, PTL

\* Answers to turn-on and turn-off that did not cross are true.
THEOREM SerialAnswersHold == Spec => []AnswersHoldWhenSerial
  <1>1. IInv => AnswersHoldWhenSerial
    BY DEF IInv, SerialInv, AnswersHoldWhenSerial
  <1> QED
    BY Inductive, <1>1, PTL

\* Only a holder of a token with the second factor has it turned off.
THEOREM OnlyHoldersTurnOff == Spec => OnlyTokenHoldersTurnOff
  <1>1. IInv /\ [Next]_vars =>
          [\A u \in Users : isMfaEnabled[u] /\ ~isMfaEnabled'[u] => TRUE \in tokens[u]]_vars
    BY TurnOffStep DEF IInv
  <1> QED
    BY Inductive, <1>1, PTL DEF Spec, OnlyTokenHoldersTurnOff

-----------------------------------------------------------------------------
(***************************************************************************)
(* The refinement.                                                         *)
(***************************************************************************)

\* A step that leaves the abstract state alone is a stutter of SecondFactor.
LEMMA Stutter ==
    ASSUME UNCHANGED <<users, tokens>>
    PROVE  UNCHANGED SF!vars
  BY DEF SF!vars, users

\* A token without the second factor is no step of SecondFactor.
LEMMA IssueFalse ==
    ASSUME TypeOK, NEW u \in Users, Issue(u, FALSE), UNCHANGED users
    PROVE  UNCHANGED SF!vars
  <1>1. ASSUME NEW v \in Users
        PROVE  TRUE \in tokens'[v] <=> TRUE \in tokens[v]
    <2>1. tokens'[v] = tokens[v] \/ tokens'[v] = tokens[v] \cup {FALSE}
      BY DEF Issue, TypeOK
    <2> QED
      BY <2>1
  <1>2. {v \in Users : TRUE \in tokens'[v]} = {v \in Users : TRUE \in tokens[v]}
    BY <1>1
  <1> QED
    BY <1>2 DEF SF!vars, users

\* A token with the second factor is one, for a user with something enrolled.
LEMMA IssueTrue ==
    ASSUME TypeOK, NEW u \in Users, otp[u] # None \/ authenticators[u],
           Issue(u, TRUE), UNCHANGED users
    PROVE  SF!Pass(u)
  <1>1. \A v \in Users : TRUE \in tokens'[v] <=> v = u \/ TRUE \in tokens[v]
    BY DEF Issue, TypeOK
  <1>2. {v \in Users : TRUE \in tokens'[v]} = {v \in Users : TRUE \in tokens[v]} \cup {u}
    BY <1>1
  <1> QED
    BY <1>2 DEF SF!Pass, users

\* Each write of the controllers is a step of SecondFactor whose guard holds by
\* WaitInv, and nothing else touches the abstract state.
LEMMA RefinementStep == TypeOK /\ WaitInv /\ [Next]_vars => [SF!Next]_(SF!vars)
  <1> SUFFICES ASSUME TypeOK, WaitInv, [Next]_vars
               PROVE  [SF!Next]_(SF!vars)
    OBVIOUS
  <1>1. ASSUME NEW r \in Slots, RequestStep(r)
        PROVE  [SF!Next]_(SF!vars)
    <2>0. ~At(r, "idle") => job[r].user \in Users
      BY DEF TypeOK
    <2>1. CASE UpdateOtpInfo(r)
      <3>1. job[r].user \in Users /\ job[r].item \in Secrets
        BY <2>1 DEF UpdateOtpInfo, At, TypeOK
      <3>2. \A v \in Users : otp'[v] # None <=> v = job[r].user \/ otp[v] # None
        BY <2>1, <3>1, TwoFactorAssumption DEF UpdateOtpInfo, TypeOK
      <3>3. PICK u \in Users : u = job[r].user
        BY <3>1
      <3>4. SF!Enrol(u)
        BY <2>1, <3>1, <3>2, <3>3 DEF UpdateOtpInfo, SF!Enrol
      <3> QED
        BY <3>4 DEF SF!Next
    <2>2. CASE EnableMfa(r)
      <3>1. job[r].user \in Users /\ otp[job[r].user] # None
        BY <2>0, <2>2 DEF EnableMfa, At, WaitInv
      <3>2. PICK u \in Users : u = job[r].user
        BY <3>1
      <3>3. SF!TurnOn(u)
        BY <2>2, <3>1, <3>2 DEF EnableMfa, SF!TurnOn, TypeOK
      <3> QED
        BY <3>3 DEF SF!Next
    <2>3. CASE DisableOtp(r)
      <3>1. job[r].user \in Users /\ TRUE \in tokens[job[r].user]
        BY <2>0, <2>3 DEF DisableOtp, At, WaitInv
      <3>2. PICK u \in Users : u = job[r].user
        BY <3>1
      <3>3. SF!TurnOff(u)
        BY <2>3, <3>1, <3>2 DEF DisableOtp, SF!TurnOff, TypeOK
      <3> QED
        BY <3>3 DEF SF!Next
    <2>4. CASE SignOn(r) \/ Sign(r)
      <3>1. job[r].user \in Users /\ otp[job[r].user] # None
        BY <2>0, <2>4 DEF SignOn, Sign, At, WaitInv
      <3> QED
        BY <2>4, <3>1, IssueTrue DEF SignOn, Sign, SF!Next
    <2>5. CASE Callback(r)
      <3>1. job[r].user \in Users /\ Issue(job[r].user, FALSE) /\ UNCHANGED users
        BY <2>0, <2>5 DEF Callback, At
      <3> QED
        BY <3>1, IssueFalse
    <2>6. ASSUME NEW u \in Users, NEW c,
                 \/ FindUser(r, u, c) \/ Refuse(r, u, c) \/ GetQr(r, u) \/ Setup2fa(r, u, c)
                 \/ TurnOn(r, u, c) \/ Authenticate(r, u, c) \/ TurnOff(r, u)
          PROVE  [SF!Next]_(SF!vars)
      BY <2>6, Stutter
      DEF FindUser, Refuse, GetQr, Setup2fa, TurnOn, Authenticate, TurnOff
    <2>7. CASE Refused(r) \/ PipeQrCode(r) \/ Abort(r)
      BY <2>7, Stutter DEF Refused, PipeQrCode, Abort
    <2> QED
      BY <1>1, <2>1, <2>2, <2>3, <2>4, <2>5, <2>6, <2>7 DEF RequestStep
  <1>2. ASSUME NEW u \in Users, SaveNewAuthenticator(u)
        PROVE  [SF!Next]_(SF!vars)
    <2>1. SF!AddKey(u)
      BY <1>2 DEF SaveNewAuthenticator, SF!AddKey, TypeOK
    <2> QED
      BY <2>1 DEF SF!Next
  <1>3. ASSUME NEW u \in Users, VerifyAuthentication(u)
        PROVE  [SF!Next]_(SF!vars)
    <2>1. CASE Issue(u, TRUE)
      BY <1>3, <2>1, IssueTrue DEF VerifyAuthentication, SF!Next
    <2>2. CASE Issue(u, FALSE)
      BY <1>3, <2>2, IssueFalse DEF VerifyAuthentication
    <2> QED
      BY <1>3, <2>1, <2>2 DEF VerifyAuthentication
  <1>4. CASE Crash
    BY <1>4, Stutter DEF Crash
  <1>5. CASE UNCHANGED vars
    BY <1>5, Stutter DEF vars, users
  <1> QED
    BY <1>1, <1>2, <1>3, <1>4, <1>5 DEF Next

\* The controllers implement the promise of the second factor.
THEOREM TwoFactorImplements == Spec => ImplementsSecondFactor
  <1>1. Init => SF!Init
    BY DEF Init, SF!Init
  <1>2. IInv /\ [Next]_vars => [SF!Next]_(SF!vars)
    BY RefinementStep DEF IInv
  <1> QED
    BY Inductive, <1>1, <1>2, PTL DEF Spec, ImplementsSecondFactor, SF!Spec
=============================================================================
