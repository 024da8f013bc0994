------------------------------ MODULE Session ------------------------------
(***************************************************************************)
(* The backend session (SessionManager) and the client that sends requests *)
(* with its token (AuthorizedBackendClient).                               *)
(*                                                                         *)
(* An action is the code between two answers of the backend: the keychain  *)
(* is called synchronously, so saving a credential and activating it is    *)
(* one step.  A login, a refresh, a logout, the restoration at the start   *)
(* and the requests are processes that interleave.  A token is a number,   *)
(* the order in which the backend issued it, and belongs to a user.  The   *)
(* backend may refuse any token at any time, and any answer may be lost.   *)
(***************************************************************************)
EXTENDS Naturals, FiniteSets

CONSTANTS
  Users, NoUser,
  Logins,           \* calls of login and completeTotp that may be in flight
  Refreshes,        \* calls of refreshAccessToken that may be in flight
  Requests,         \* requests of an AuthorizedBackendClient
  MaxTokens,        \* bound on the tokens and attempts the backend issues
  MaxRestarts       \* bound on restarts of the service

ASSUME NamesAssumption == NoUser \notin Users /\ "none" \notin Refreshes
ASSUME BoundsAssumption == MaxTokens \in Nat \ {0} /\ MaxRestarts \in Nat

VARIABLES
  (* The backend. *)
  issued, owner,    \* how many tokens it gave out, and to whom
  spent,            \* refresh tokens it has replaced by others
  (* The service's memory. *)
  access, refresh,  \* #accessToken and #refreshToken, 0 for null
  fresh,            \* #expiresAt is more than 30 s away
  user, credentials, account,  \* #user, #credentialMode, #credentialAccount
  promise,          \* #refreshPromise
  pending, busy,    \* #pendingTotp, #loginInProgress
  (* Kept across a restart. *)
  keychain,         \* a credential per account
  setting, legacy,  \* CREDENTIAL_ACCOUNT_SETTING, LEGACY_ACCOUNT_SETTING
  (* What is in flight. *)
  restoring, login, refreshing, leaving, request,
  (* Of the model. *)
  overlapped,       \* two of these, requests apart, were in flight at once
  lost,             \* a token was replaced and the new one did not arrive
  restarts

backendVars == <<issued, owner>>
replacedVars == <<spent, lost>>
tokenVars == <<access, refresh, fresh, user, credentials, account>>
memoryVars == <<tokenVars, promise, pending, busy>>
storeVars == <<keychain, setting, legacy>>
flightVars == <<restoring, login, refreshing, leaving>>
requestVars == <<request>>
vars == <<backendVars, replacedVars, memoryVars, storeVars, flightVars, requestVars,
          overlapped, restarts>>

Tokens == 1 .. MaxTokens
NoCredential == [mode |-> "none", token |-> 0]
Credential == {NoCredential} \union [mode: {"refresh", "access"}, token: Tokens]

Idle == [pc |-> "idle"]
RestoreStates ==
  {Idle} \union [pc: {"asking"}, account: Users, from: {"setting", "legacy"}, saved: Credential]
LoginStates == {Idle} \union [pc: {"requirements", "password"}, user: Users]
                      \union [pc: {"totp"}, user: Users, attempt: Tokens]
RefreshStates == {Idle} \union [pc: {"asking"}, token: Tokens, account: Users]
LogoutStates == {Idle} \union [pc: {"asking"}, token: Tokens]
RequestStates ==
  {Idle} \union [pc: {"waiting"}, on: Refreshes, again: BOOLEAN]
         \union [pc: {"sent"}, token: Tokens, again: BOOLEAN]

(* What the variables range over. *)
TypeOK ==
  /\ issued \in 0 .. MaxTokens /\ owner \in [Tokens -> Users \union {NoUser}]
  /\ access \in 0 .. issued /\ refresh \in 0 .. issued
  /\ credentials \in {"none", "refresh", "access"}
  /\ {fresh, busy, overlapped, lost} \subseteq BOOLEAN /\ spent \subseteq Tokens
  /\ {user, account, setting, legacy} \subseteq Users \union {NoUser}
  /\ promise \in Refreshes \union {"none"} /\ pending \in 0 .. issued
  /\ keychain \in [Users -> Credential]
  /\ restoring \in RestoreStates \union {[pc |-> "done"]}
  /\ login \in [Logins -> LoginStates] /\ leaving \in LogoutStates
  /\ refreshing \in [Refreshes -> RefreshStates]
  /\ request \in [Requests -> RequestStates]

(* The service starts with what its last run has left: nothing, a session  *)
(* in either mode, or the account of an older version.                     *)
Init ==
  /\ issued = 1
  /\ \E u \in Users : owner = [t \in Tokens |-> IF t = 1 THEN u ELSE NoUser]
  /\ \E m \in {"none", "refresh", "access"} :
       LET u == owner[1]
       IN /\ keychain = [v \in Users |-> IF v = u /\ m # "none"
                                         THEN [mode |-> m, token |-> 1] ELSE NoCredential]
          /\ \/ m = "none" /\ setting = NoUser /\ legacy = NoUser
             \/ m # "none" /\ setting = u /\ legacy = NoUser
             \/ m # "none" /\ setting = NoUser /\ legacy = u
  /\ access = 0 /\ refresh = 0 /\ fresh = FALSE
  /\ user = NoUser /\ credentials = "none" /\ account = NoUser
  /\ promise = "none" /\ pending = 0 /\ busy = FALSE
  /\ restoring = Idle /\ login = [l \in Logins |-> Idle] /\ leaving = Idle
  /\ refreshing = [r \in Refreshes |-> Idle]
  /\ request = [q \in Requests |-> Idle]
  /\ overlapped = FALSE /\ restarts = 0 /\ spent = {} /\ lost = FALSE
-----------------------------------------------------------------------------
(* What the session keeps. *)

Accounts == {account, setting, legacy} \ {NoUser}

(* resetMemory; the refresh of a token that is being used up goes on.      *)
ResetMemory ==
  /\ access' = 0 /\ refresh' = 0 /\ fresh' = FALSE
  /\ user' = NoUser /\ credentials' = "none" /\ account' = NoUser
  /\ promise' = "none" /\ pending' = 0 /\ busy' = FALSE

(* clear. *)
Clear ==
  /\ keychain' = [u \in Users |-> IF u \in Accounts THEN NoCredential ELSE keychain[u]]
  /\ setting' = NoUser /\ legacy' = NoUser
  /\ ResetMemory

(* saveAndActivate. *)
SaveAndActivate(u, m, token, newAccess) ==
  /\ keychain' = [v \in Users |-> IF v = u THEN [mode |-> m, token |-> token]
                                  ELSE IF v \in Accounts THEN NoCredential
                                  ELSE keychain[v]]
  /\ setting' = u /\ legacy' = NoUser
  /\ account' = u /\ credentials' = m /\ user' = u
  /\ access' = newAccess /\ refresh' = IF m = "refresh" THEN token ELSE 0
  /\ fresh' = TRUE

InFlight == {x \in {restoring, leaving} \union {login[l] : l \in Logins}
                     \union {refreshing[r] : r \in Refreshes} : x.pc \notin {"idle", "done"}}
Overlaps == overlapped' = (overlapped \/ InFlight # {})

(* The backend gives out a pair of tokens as one number. *)
Issue(u) ==
  /\ issued < MaxTokens /\ issued' = issued + 1
  /\ owner' = [owner EXCEPT ![issued + 1] = u]

(* The refresh tokens whose exchange is under way, and those of them the   *)
(* backend replaces before an exchange fails.                              *)
RestoringToken ==
  IF restoring.pc = "asking" /\ restoring.saved.mode = "refresh" THEN {restoring.saved.token} ELSE {}
RefreshingTokens == {refreshing[r].token : r \in {x \in Refreshes : refreshing[x].pc = "asking"}}
MayReplace(S) == \E R \in SUBSET S : spent' = spent \union R
-----------------------------------------------------------------------------
(* restoreSavedCredential, one candidate after the other.                  *)

Candidates ==
  IF setting # NoUser THEN {<<setting, "setting">>}
  ELSE IF legacy # NoUser THEN {<<legacy, "legacy">>} ELSE {}

RestoreBegins ==
  /\ restoring = Idle
  /\ \/ /\ Candidates = {} /\ restoring' = [pc |-> "done"]
        /\ UNCHANGED <<storeVars, overlapped>>
     \/ \E c \in Candidates :
          IF keychain[c[1]] = NoCredential
            THEN /\ IF c[2] = "setting" THEN setting' = NoUser /\ UNCHANGED legacy
                                        ELSE legacy' = NoUser /\ UNCHANGED setting
                 /\ UNCHANGED <<keychain, restoring, overlapped>>
            ELSE /\ restoring' = [pc |-> "asking", account |-> c[1], from |-> c[2],
                                  saved |-> keychain[c[1]]]
                 /\ Overlaps /\ UNCHANGED storeVars
  /\ UNCHANGED <<backendVars, replacedVars, memoryVars, login, refreshing, leaving, requestVars,
                 restarts>>

(* restoreCredential: the token is exchanged, or tried out in the other    *)
(* mode.  The backend may keep the refresh token or replace it.            *)
RestoreAnswered ==
  /\ restoring.pc = "asking" /\ restoring' = [pc |-> "done"]
  /\ LET saved == restoring.saved
     IN \/ /\ saved.mode = "refresh"
           /\ Issue(owner[saved.token])
           /\ \E token \in {saved.token, issued'} :
                /\ SaveAndActivate(owner[saved.token], "refresh", token, issued')
                /\ spent' = spent \union ({saved.token} \ {token})
        \/ /\ saved.mode = "access"
           /\ SaveAndActivate(owner[saved.token], "access", saved.token, saved.token)
           /\ UNCHANGED <<backendVars, spent>>
  /\ UNCHANGED <<lost, promise, pending, busy, login, refreshing, leaving, requestVars,
                 overlapped, restarts>>

(* The token is refused, or the one that was got for it: the next          *)
(* candidate has its turn.                                                 *)
RestoreRefused ==
  /\ restoring.pc = "asking" /\ restoring' = Idle
  /\ keychain' = [keychain EXCEPT ![restoring.account] = NoCredential]
  /\ IF restoring.from = "setting" THEN setting' = NoUser /\ UNCHANGED legacy
                                   ELSE legacy' = NoUser /\ UNCHANGED setting
  /\ ResetMemory /\ MayReplace(RestoringToken)
  /\ UNCHANGED <<backendVars, lost, login, refreshing, leaving, requestVars, overlapped, restarts>>

(* It fails otherwise, at the exchange, at the request for the user or at  *)
(* the keychain: what is saved is kept for the next start, although the    *)
(* backend may have replaced it.                                           *)
RestoreFails ==
  /\ restoring.pc = "asking" /\ restoring' = [pc |-> "done"]
  /\ ResetMemory /\ MayReplace(RestoringToken) /\ lost' = (lost \/ spent' # spent)
  /\ UNCHANGED <<backendVars, storeVars, login, refreshing, leaving, requestVars,
                 overlapped, restarts>>
-----------------------------------------------------------------------------
(* login and completeTotp. *)

Ready == restoring.pc = "done"
LoginDone(l) == login' = [login EXCEPT ![l] = Idle] /\ busy' = FALSE

loginUnchanged == UNCHANGED <<replacedVars, restoring, refreshing, leaving, requestVars,
                              restarts>>

LoginBegins(l) ==
  /\ Ready /\ ~busy /\ login[l] = Idle
  /\ busy' = TRUE /\ pending' = 0
  /\ \E u \in Users : login' = [login EXCEPT ![l] = [pc |-> "requirements", user |-> u]]
  /\ Overlaps
  /\ UNCHANGED <<backendVars, tokenVars, promise, storeVars>> /\ loginUnchanged

(* Captchas and agreements are refused before the password is sent. *)
RequirementsChecked(l) ==
  /\ login[l].pc = "requirements"
  /\ \/ login' = [login EXCEPT ![l].pc = "password"] /\ UNCHANGED busy
     \/ LoginDone(l)
  /\ UNCHANGED <<backendVars, tokenVars, promise, pending, storeVars, overlapped>>
  /\ loginUnchanged

LoginFails(l) ==
  /\ login[l].pc \in {"password", "totp"} /\ LoginDone(l)
  /\ UNCHANGED <<backendVars, tokenVars, promise, pending, storeVars, overlapped>>
  /\ loginUnchanged

(* activateLoginTokens. *)
LoggedIn(l) ==
  /\ Issue(login[l].user)
  /\ SaveAndActivate(login[l].user, "refresh", issued', issued')
  /\ LoginDone(l)
  /\ UNCHANGED <<promise, overlapped>> /\ loginUnchanged

PasswordAccepted(l) == login[l].pc = "password" /\ LoggedIn(l) /\ UNCHANGED pending

TotpRequired(l) ==
  /\ login[l].pc = "password" /\ Issue(login[l].user)
  /\ pending' = issued' /\ LoginDone(l)
  /\ UNCHANGED <<tokenVars, promise, storeVars, overlapped>> /\ loginUnchanged

TotpSubmitted(l) ==
  /\ Ready /\ ~busy /\ pending # 0 /\ login[l] = Idle
  /\ busy' = TRUE
  /\ login' = [login EXCEPT ![l] = [pc |-> "totp", user |-> owner[pending],
                                    attempt |-> pending]]
  /\ Overlaps
  /\ UNCHANGED <<backendVars, tokenVars, promise, pending, storeVars>> /\ loginUnchanged

(* Mutant: the attempt is not looked at again. *)
TotpAcceptedLate(l) ==
  login[l].pc = "totp" /\ LoggedIn(l) /\ pending' = 0

(* The attempt may have been given up while the code was under way. *)
TotpAccepted(l) ==
  /\ login[l].pc = "totp" /\ pending = login[l].attempt
  /\ LoggedIn(l) /\ pending' = 0

TotpTooLate(l) ==
  /\ login[l].pc = "totp" /\ pending # login[l].attempt /\ LoginDone(l)
  /\ UNCHANGED <<backendVars, tokenVars, promise, pending, storeVars, overlapped>>
  /\ loginUnchanged

(* cancelPendingLogin, or five minutes have passed.                        *)
PendingGivenUp ==
  /\ pending # 0 /\ pending' = 0
  /\ UNCHANGED <<backendVars, replacedVars, tokenVars, promise, busy, storeVars, flightVars,
                 requestVars, overlapped, restarts>>
-----------------------------------------------------------------------------
(* getAccessToken and refreshAccessToken. *)

(* What getAccessToken does at once: a token, a refresh to wait for, the   *)
(* end of a session that cannot be refreshed, or an error.                 *)
TokenAtHand(force) ==
  access # 0 /\ ~force /\ (credentials = "access" \/ fresh)
CannotRefresh(force) == credentials = "access" /\ ~TokenAtHand(force)
Refreshable(force) == ~TokenAtHand(force) /\ credentials = "refresh" /\ refresh # 0

(* Callers share the refresh that is under way. *)
WaitForRefresh(q, again) ==
  \E r \in Refreshes :
    /\ IF promise # "none"
         THEN r = promise /\ UNCHANGED <<promise, refreshing, overlapped>>
         ELSE /\ refreshing[r] = Idle /\ promise' = r
              /\ refreshing' = [refreshing EXCEPT ![r] =
                                  [pc |-> "asking", token |-> refresh, account |-> account]]
              /\ Overlaps
    /\ request' = [request EXCEPT ![q] = [pc |-> "waiting", on |-> r, again |-> again]]

(* The first or the second attempt of a request asks for a token. *)
AskToken(q, again) ==
  \/ /\ TokenAtHand(again)
     /\ request' = [request EXCEPT ![q] = [pc |-> "sent", token |-> access, again |-> again]]
     /\ UNCHANGED <<memoryVars, storeVars, refreshing, overlapped>>
  \/ /\ Refreshable(again) /\ WaitForRefresh(q, again)
     /\ UNCHANGED <<tokenVars, pending, busy, storeVars>>
  \/ /\ CannotRefresh(again) /\ Clear
     /\ request' = [request EXCEPT ![q] = Idle] /\ UNCHANGED <<refreshing, overlapped>>
  \/ /\ ~TokenAtHand(again) /\ ~Refreshable(again) /\ ~CannotRefresh(again)
     /\ request' = [request EXCEPT ![q] = Idle]
     /\ UNCHANGED <<memoryVars, storeVars, refreshing, overlapped>>

(* Mutant: those who wait are forgotten when the refresh fails. *)
ResumeServed(r, token) ==
  request' = [q \in Requests |->
                IF request[q].pc = "waiting" /\ request[q].on = r /\ token # 0
                  THEN [pc |-> "sent", token |-> token, again |-> request[q].again]
                  ELSE request[q]]

(* Those who wait for the refresh r get its token, or its error. *)
Resume(r, token) ==
  request' = [q \in Requests |->
                IF request[q].pc = "waiting" /\ request[q].on = r
                  THEN IF token = 0 THEN Idle
                       ELSE [pc |-> "sent", token |-> token, again |-> request[q].again]
                  ELSE request[q]]

RefreshDone(r) == refreshing' = [refreshing EXCEPT ![r] = Idle]

refreshUnchanged == UNCHANGED <<restoring, login, leaving, overlapped, restarts>>

(* Mutant: the new refresh token is not saved. *)
RefreshAnsweredUnsaved(r) ==
  /\ refreshing[r].pc = "asking" /\ RefreshDone(r) /\ promise' = "none"
  /\ LET used == refreshing[r].token
     IN /\ Issue(owner[used])
        /\ refresh' \in {used, issued'}
        /\ user' \in {user, owner[used]}
        /\ spent' = spent \union ({used} \ {refresh'}) /\ UNCHANGED lost
  /\ access' = issued' /\ fresh' = TRUE /\ Resume(r, issued')
  /\ UNCHANGED <<credentials, account, pending, busy, storeVars>> /\ refreshUnchanged

(* The answer is written into whatever session there is by then; the       *)
(* promise is dropped, whoever made it.                                    *)
RefreshAnswered(r) ==
  /\ refreshing[r].pc = "asking" /\ RefreshDone(r) /\ promise' = "none"
  /\ LET used == refreshing[r].token
     IN /\ Issue(owner[used])
        /\ refresh' \in {used, issued'}
        /\ keychain' = IF refresh' = used THEN keychain
                       ELSE [keychain EXCEPT ![refreshing[r].account] =
                              [mode |-> "refresh", token |-> refresh']]
        /\ user' \in {user, owner[used]}
        /\ spent' = spent \union ({used} \ {refresh'}) /\ UNCHANGED lost
  /\ access' = issued' /\ fresh' = TRUE /\ Resume(r, issued')
  /\ UNCHANGED <<credentials, account, pending, busy, setting, legacy>> /\ refreshUnchanged

(* Refused, lost, or not kept by the keychain: the session ends. *)
RefreshFails(r) ==
  /\ refreshing[r].pc = "asking" /\ RefreshDone(r)
  /\ Clear /\ Resume(r, 0)
  /\ MayReplace({refreshing[r].token})
  /\ UNCHANGED <<backendVars, lost>> /\ refreshUnchanged
-----------------------------------------------------------------------------
(* logout: the backend is told in refresh mode; whatever it says, the      *)
(* session that is there by then is cleared.                               *)

LogoutBegins ==
  /\ leaving = Idle
  /\ IF credentials = "refresh" /\ refresh # 0
       THEN /\ leaving' = [pc |-> "asking", token |-> refresh]
            /\ Overlaps /\ UNCHANGED <<memoryVars, storeVars>>
       ELSE /\ Clear /\ UNCHANGED leaving /\ Overlaps
  /\ UNCHANGED <<backendVars, replacedVars, restoring, login, refreshing, requestVars, restarts>>

LogoutAnswered ==
  /\ leaving.pc = "asking" /\ leaving' = Idle
  /\ Clear
  /\ UNCHANGED <<backendVars, replacedVars, restoring, login, refreshing, requestVars,
                 overlapped, restarts>>
-----------------------------------------------------------------------------
(* AuthorizedBackendClient.request. *)

requestUnchanged == UNCHANGED <<backendVars, replacedVars, restoring, login, leaving, restarts>>

RequestBegins(q) ==
  /\ request[q] = Idle /\ AskToken(q, FALSE)
  /\ requestUnchanged

(* Any answer but 401, or none: the caller sees it. *)
RequestEnds(q) ==
  /\ request[q].pc = "sent" /\ request' = [request EXCEPT ![q] = Idle]
  /\ UNCHANGED <<memoryVars, storeVars, refreshing, overlapped>>
  /\ requestUnchanged

(* A first 401 asks for a new token, a second one is the caller's. *)
RequestRefused(q) ==
  /\ request[q].pc = "sent"
  /\ IF request[q].again
       THEN /\ request' = [request EXCEPT ![q] = Idle]
            /\ UNCHANGED <<memoryVars, storeVars, refreshing, overlapped>>
       ELSE AskToken(q, TRUE)
  /\ requestUnchanged
-----------------------------------------------------------------------------
(* Time passes; an access credential has no end of its own. *)
TokenExpires ==
  /\ fresh /\ fresh' = FALSE /\ credentials # "access"
  /\ UNCHANGED <<backendVars, replacedVars, access, refresh, user, credentials, account, promise,
                 pending, busy, storeVars, flightVars, requestVars, overlapped, restarts>>

(* The exchanges under way are forgotten; the backend may have done them.  *)
Restart ==
  /\ restarts < MaxRestarts /\ restarts' = restarts + 1
  /\ MayReplace(RestoringToken \union RefreshingTokens) /\ lost' = (lost \/ spent' # spent)
  /\ ResetMemory
  /\ restoring' = Idle /\ login' = [l \in Logins |-> Idle] /\ leaving' = Idle
  /\ refreshing' = [r \in Refreshes |-> Idle]
  /\ request' = [q \in Requests |-> Idle]
  /\ UNCHANGED <<backendVars, storeVars, overlapped>>

RefreshEnds == \E r \in Refreshes : RefreshAnswered(r) \/ RefreshFails(r)
RequestGoesOn == \E q \in Requests : RequestEnds(q) \/ RequestRefused(q)
RestoreGoesOn == RestoreBegins \/ RestoreAnswered \/ RestoreRefused \/ RestoreFails
LoginGoesOn ==
  \E l \in Logins : RequirementsChecked(l) \/ LoginFails(l) \/ PasswordAccepted(l)
                   \/ TotpRequired(l) \/ TotpAccepted(l) \/ TotpTooLate(l)

Next ==
  \/ RestoreGoesOn \/ LoginGoesOn \/ RefreshEnds \/ LogoutAnswered \/ RequestGoesOn
  \/ \E l \in Logins : LoginBegins(l) \/ TotpSubmitted(l)
  \/ \E q \in Requests : RequestBegins(q)
  \/ LogoutBegins \/ PendingGivenUp \/ TokenExpires \/ Restart

Spec == Init /\ [][Next]_vars

(* Every request to the backend has a timeout of 30 s. *)
Fairness ==
  /\ WF_vars(RestoreGoesOn) /\ WF_vars(LoginGoesOn)
  /\ \A r \in Refreshes : WF_vars(RefreshAnswered(r) \/ RefreshFails(r))
  /\ \A q \in Requests : WF_vars(RequestEnds(q) \/ RequestRefused(q))
  /\ WF_vars(LogoutAnswered)
FairSpec == Spec /\ Fairness
-----------------------------------------------------------------------------
OnePiece ==
  /\ access # 0 => owner[access] = user /\ account = user /\ setting = user
  /\ refresh # 0 => keychain[account] = [mode |-> "refresh", token |-> refresh]
  /\ \A u \in Users : keychain[u] # NoCredential => u \in {setting, legacy}
  /\ \A r, s \in Refreshes :
       refreshing[r].pc = "asking" => promise = r /\ (s # r => refreshing[s] = Idle)
NoneSentAgain == (RestoringToken \union RefreshingTokens) \intersect spent = {}

(* Unless two of its operations overlap, the session is one piece: the     *)
(* tokens belong to the user that is shown, the keychain holds what the    *)
(* next start needs and nothing else, and one refresh is under way.  Even  *)
(* when they overlap, no refresh token is sent to be exchanged again once  *)
(* the backend has replaced it, which it takes for theft, unless the new   *)
(* one was lost on the way: what is saved is then the old one still.       *)
SessionIsWhole == (~overlapped => OnePiece) /\ (~lost => NoneSentAgain)

(* A login is authenticated by nothing but an attempt that is still wanted:*)
(* after a code that comes too late the session is as before.              *)
GivenUpStaysOut ==
  [][\A l \in Logins :
       login[l].pc = "totp" /\ login'[l] = Idle /\ pending # login[l].attempt
       => UNCHANGED tokenVars \/ access' = 0]_vars

(* Every caller that waits for a refresh gets its token or its error.      *)
CallersAreServed ==
  \A q \in Requests : request[q].pc = "waiting" ~> request[q].pc # "waiting"
-----------------------------------------------------------------------------
(* README.md: leaving calls logout at the backend and clears the keychain. *)
LoggedOutIsEmpty ==
  credentials = "none" /\ restoring.pc = "done" /\ leaving = Idle
  /\ (\A r \in Refreshes : refreshing[r] = Idle)
  /\ (\A l \in Logins : login[l] = Idle)
  => access = 0 /\ \A u \in Users : keychain[u] = NoCredential \/ u \in {setting, legacy}
=============================================================================
