--------------------------- MODULE SessionProofs ---------------------------
(***************************************************************************)
(* Theorems about Session, for every set of users and of calls in flight,  *)
(* and any number of tokens and restarts.                                  *)
(*                                                                         *)
(* TokensKnown says that whatever is remembered of a token is about one    *)
(* the backend has issued.  OneAtATime and Remembered strengthen OnePiece: *)
(* while no two operations have overlapped, at most one is in flight, and  *)
(* what it remembers is what the session still holds.  Apart and Unspent   *)
(* strengthen NoneSentAgain and hold of operations that overlap too: the   *)
(* exchanges in flight use different tokens, and where a token is kept     *)
(* that one of them uses up, its answer will be saved.                     *)
(***************************************************************************)
EXTENDS Session, TLAPS

TokensKnown ==
  /\ issued >= 1 /\ \A t \in 1 .. issued : owner[t] \in Users
  /\ credentials # "none" => account \in Users
  /\ \A u \in Users : keychain[u].token <= issued
  /\ restoring.pc = "asking" =>
       restoring.saved # NoCredential /\ restoring.saved.token <= issued
  /\ \A l \in Logins : login[l].pc = "totp" => login[l].attempt <= issued
  /\ \A r \in Refreshes : refreshing[r].pc = "asking" => refreshing[r].token <= issued
  /\ spent \subseteq 1 .. issued

NoLogin == \A l \in Logins : login[l] = Idle
NoRefresh == \A r \in Refreshes : refreshing[r] = Idle
MemoryEmpty == access = 0 /\ refresh = 0 /\ credentials = "none" /\ account = NoUser

(* What is in flight alone. *)
OneAtATime ==
  /\ restoring.pc # "done" => MemoryEmpty /\ leaving = Idle /\ NoLogin /\ NoRefresh
  /\ leaving # Idle => NoLogin /\ NoRefresh
  /\ \A l \in Logins : login[l] # Idle =>
       NoRefresh /\ \A m \in Logins : m # l => login[m] = Idle
  /\ \A r \in Refreshes : refreshing[r] # Idle =>
       promise = r /\ \A s \in Refreshes : s # r => refreshing[s] = Idle

(* What it remembers is still so. *)
Remembered ==
  /\ refresh # 0 => access # 0 /\ owner[refresh] = user
  /\ restoring.pc = "asking" =>
       /\ restoring.from = "setting" => setting = restoring.account
       /\ restoring.from = "legacy" => legacy = restoring.account
  /\ \A r \in Refreshes : refreshing[r].pc = "asking" =>
       credentials = "refresh" /\ refreshing[r].token = refresh /\ refreshing[r].account = account
-----------------------------------------------------------------------------
(* TypeOK and TokensKnown, by the part of the state they are about.        *)

BackendOK ==
  /\ issued \in 1 .. MaxTokens /\ owner \in [Tokens -> Users \union {NoUser}]
  /\ \A t \in 1 .. issued : owner[t] \in Users

AccountsOK == {user, account, setting, legacy} \subseteq Users \union {NoUser}
MemoryOK ==
  /\ access \in 0 .. issued /\ refresh \in 0 .. issued
  /\ credentials \in {"none", "refresh", "access"} /\ fresh \in BOOLEAN
  /\ AccountsOK /\ (credentials # "none" => account \in Users)
CallsOK ==
  /\ busy \in BOOLEAN /\ overlapped \in BOOLEAN /\ promise \in Refreshes \union {"none"}
  /\ pending \in 0 .. issued

KeychainOK == keychain \in [Users -> Credential] /\ \A u \in Users : keychain[u].token <= issued
RestoringOK ==
  /\ restoring \in RestoreStates \union {[pc |-> "done"]}
  /\ restoring.pc = "asking" =>
       restoring.saved # NoCredential /\ restoring.saved.token <= issued
LoginOK ==
  /\ login \in [Logins -> LoginStates]
  /\ \A l \in Logins : login[l].pc = "totp" => login[l].attempt <= issued
RefreshingOK ==
  /\ refreshing \in [Refreshes -> RefreshStates]
  /\ \A r \in Refreshes : refreshing[r].pc = "asking" => refreshing[r].token <= issued
LeavingOK == leaving \in LogoutStates
RequestOK == request \in [Requests -> RequestStates]
ReplacedOK == spent \subseteq 1 .. issued /\ lost \in BOOLEAN

Typed == /\ BackendOK /\ ReplacedOK /\ MemoryOK /\ CallsOK /\ KeychainOK
         /\ RestoringOK /\ LoginOK /\ RefreshingOK /\ LeavingOK /\ RequestOK

(* The parts are the whole. *)
LEMMA TypedIsTyped == Typed <=> TypeOK /\ TokensKnown
<1> USE BoundsAssumption DEF BackendOK, AccountsOK, MemoryOK, CallsOK, KeychainOK, RestoringOK,
        LoginOK, RefreshingOK, LeavingOK, RequestOK, ReplacedOK
<1>1. Typed => TypeOK
  BY DEF Typed, TypeOK, Tokens
<1>2. Typed => TokensKnown
  BY DEF Typed, TokensKnown
<1>3. TypeOK /\ TokensKnown => Typed
  BY DEF TypeOK, TokensKnown, Typed
<1>4. QED BY <1>1, <1>2, <1>3

(* A credential has a token exactly if it has a mode. *)
LEMMA CredentialHasToken ==
  ASSUME NEW c \in Credential
  PROVE  /\ c.token \in 0 .. MaxTokens
         /\ c # NoCredential => c.token \in Tokens /\ c.mode \in {"refresh", "access"}
         /\ c.mode \in {"refresh", "access"} => c.token \in Tokens
BY BoundsAssumption DEF Credential, NoCredential, Tokens

(* A token that is given out belongs to the user it is given to. *)
LEMMA IssueTypes ==
  ASSUME BackendOK, NEW u \in Users, Issue(u)
  PROVE  /\ BackendOK' /\ issued' = issued + 1 /\ owner'[issued'] = u
         /\ \A t \in 1 .. issued : owner'[t] = owner[t]
BY BoundsAssumption DEF BackendOK, Issue, Tokens

(* Who used what the backend exchanges is one of its users.                *)
LEMMA KnownOwners ==
  ASSUME Typed
  PROVE  /\ restoring.pc = "asking" =>
              restoring.saved \in Credential /\ restoring.saved.token \in 1 .. issued
              /\ restoring.account \in Users /\ restoring.saved.mode \in {"refresh", "access"}
              /\ restoring.from \in {"setting", "legacy"}
         /\ \A l \in Logins : login[l].pc \in {"requirements", "password", "totp"} => login[l].user \in Users
         /\ \A r \in Refreshes : refreshing[r].pc = "asking" =>
              refreshing[r].token \in 1 .. issued /\ refreshing[r].account \in Users
         /\ \A t \in 1 .. issued : owner[t] \in Users
<1>1. restoring.pc = "asking" =>
        /\ restoring.saved \in Credential /\ restoring.saved.token \in 1 .. issued
        /\ restoring.account \in Users /\ restoring.saved.mode \in {"refresh", "access"}
        /\ restoring.from \in {"setting", "legacy"}
  BY CredentialHasToken, BoundsAssumption DEF Typed, RestoringOK, BackendOK, RestoreStates, Idle, Tokens
<1>2. \A l \in Logins : login[l].pc \in {"requirements", "password", "totp"} => login[l].user \in Users
  BY DEF Typed, LoginOK, LoginStates, Idle
<1>3. \A r \in Refreshes : refreshing[r].pc = "asking" =>
        refreshing[r].token \in 1 .. issued /\ refreshing[r].account \in Users
  BY BoundsAssumption DEF Typed, RefreshingOK, BackendOK, RefreshStates, Idle, Tokens
<1>4. QED BY <1>1, <1>2, <1>3 DEF Typed, BackendOK

(* Whatever happens, the backend gives a token to one of its users, or     *)
(* none.                                                                   *)
LEMMA IssuesOrNot ==
  ASSUME Typed, [Next]_vars
  PROVE  (\E u \in Users : Issue(u)) \/ UNCHANGED backendVars
<1>1. CASE RestoreGoesOn
  BY <1>1, KnownOwners DEF RestoreGoesOn, RestoreBegins, RestoreAnswered, RestoreRefused, RestoreFails
<1>2. CASE LoginGoesOn
  BY <1>2, KnownOwners DEF LoginGoesOn, RequirementsChecked, LoginFails, PasswordAccepted,
     TotpRequired, TotpAccepted, TotpTooLate, LoggedIn
<1>3. CASE RefreshEnds
  BY <1>3, KnownOwners DEF RefreshEnds, RefreshAnswered, RefreshFails
<1>4. CASE RequestGoesOn \/ \E q \in Requests : RequestBegins(q)
  BY <1>4 DEF RequestGoesOn, RequestEnds, RequestRefused, RequestBegins, requestUnchanged
<1>5. CASE LogoutAnswered \/ LogoutBegins \/ PendingGivenUp \/ TokenExpires \/ Restart \/ UNCHANGED vars
           \/ \E l \in Logins : LoginBegins(l) \/ TotpSubmitted(l)
  BY <1>5 DEF LogoutAnswered, LoginBegins, TotpSubmitted, LogoutBegins, PendingGivenUp,
     TokenExpires, Restart, vars
<1>6. QED BY <1>1, <1>2, <1>3, <1>4, <1>5 DEF Next

(* The backend only gives out tokens. *)
LEMMA BackendSteps ==
  ASSUME Typed, [Next]_vars
  PROVE  /\ BackendOK' /\ issued <= issued' /\ issued \in Nat /\ issued' \in Nat
         /\ \A t \in 1 .. issued : owner'[t] = owner[t]
<1>1. issued \in Nat
  BY BoundsAssumption DEF Typed, BackendOK
<1>2. CASE UNCHANGED backendVars
  BY <1>1, <1>2 DEF Typed, BackendOK, backendVars
<1>3. ASSUME NEW u \in Users, Issue(u)
      PROVE  BackendOK' /\ issued' = issued + 1 /\ \A t \in 1 .. issued : owner'[t] = owner[t]
  BY <1>3, IssueTypes DEF Typed
<1>4. QED BY <1>1, <1>2, <1>3, IssuesOrNot
-----------------------------------------------------------------------------
(* What is kept, by the helpers that change it.                            *)

(* Later tokens do not matter to what is known of the earlier ones. *)
LEMMA StoreKept ==
  ASSUME Typed, issued' \in Nat, issued <= issued'
  PROVE  /\ keychain' = keychain => KeychainOK'
         /\ UNCHANGED <<access, refresh, credentials, user, account, setting, legacy>>
              /\ fresh' \in BOOLEAN => MemoryOK'
<1>1. \A u \in Users : keychain[u].token \in 0 .. MaxTokens
  BY CredentialHasToken DEF Typed, KeychainOK
<1>2. issued \in Nat
  BY BoundsAssumption DEF Typed, BackendOK
<1>3. keychain' = keychain => KeychainOK'
  BY <1>1, <1>2, BoundsAssumption DEF Typed, KeychainOK
<1>4. ASSUME UNCHANGED <<access, refresh, credentials, user, account, setting, legacy>>, fresh' \in BOOLEAN
      PROVE  MemoryOK'
  BY <1>2, <1>4 DEF Typed, MemoryOK, AccountsOK
<1>5. QED BY <1>3, <1>4

(* A new credential is saved under its user, and the others are dropped.   *)
LEMMA SaveTypes ==
  ASSUME Typed, BackendOK', issued <= issued', NEW u \in Users, NEW m \in {"refresh", "access"},
         NEW token \in 1 .. issued', NEW new \in 1 .. issued', SaveAndActivate(u, m, token, new)
  PROVE  KeychainOK' /\ MemoryOK'
<1>1. \A v \in Users : keychain[v].token \in 0 .. MaxTokens
  BY CredentialHasToken DEF Typed, KeychainOK
<1>2. token \in Tokens /\ issued \in Nat /\ issued' \in Nat
  BY BoundsAssumption DEF Typed, BackendOK, Tokens
<1>3. keychain' \in [Users -> Credential]
  BY <1>2 DEF SaveAndActivate, Typed, KeychainOK, Credential
<1>4. \A v \in Users : keychain'[v].token <= issued'
  BY <1>1, <1>2, BoundsAssumption DEF SaveAndActivate, Typed, KeychainOK, NoCredential
<1>5. access' \in 0 .. issued' /\ refresh' \in 0 .. issued' /\ credentials' = m /\ account' = u /\ fresh' = TRUE
  BY <1>2 DEF SaveAndActivate
<1>6. AccountsOK'
  BY DEF SaveAndActivate, AccountsOK
<1>7. QED BY <1>3, <1>4, <1>5, <1>6 DEF KeychainOK, MemoryOK

(* Some credentials may be dropped. *)
LEMMA DropTypes ==
  ASSUME Typed, UNCHANGED backendVars, NEW S,
         keychain' = [u \in Users |-> IF u \in S THEN NoCredential ELSE keychain[u]]
  PROVE  KeychainOK'
<1>1. NoCredential \in Credential /\ NoCredential.token = 0 /\ 0 <= issued
  BY BoundsAssumption DEF NoCredential, Credential, Typed, BackendOK
<1>2. keychain' \in [Users -> Credential]
  BY <1>1 DEF Typed, KeychainOK
<1>3. \A u \in Users : keychain'[u].token <= issued'
  BY <1>1 DEF Typed, KeychainOK, backendVars
<1>4. QED BY <1>2, <1>3 DEF KeychainOK

(* The memory may be forgotten. *)
LEMMA ResetTypes ==
  ASSUME Typed, UNCHANGED backendVars, ResetMemory,
         setting' \in {setting, NoUser}, legacy' \in {legacy, NoUser}
  PROVE  MemoryOK'
<1>1. 0 \in 0 .. issued /\ issued' = issued
  BY BoundsAssumption DEF Typed, BackendOK, backendVars
<1>2. AccountsOK'
  BY DEF Typed, MemoryOK, AccountsOK, ResetMemory
<1>3. QED BY <1>1, <1>2 DEF ResetMemory, MemoryOK

(* Both of them. *)
LEMMA ClearTypes ==
  ASSUME Typed, UNCHANGED backendVars, Clear
  PROVE  KeychainOK' /\ MemoryOK'
<1>1. KeychainOK'
  BY DropTypes DEF Clear
<1>2. MemoryOK'
  BY ResetTypes DEF Clear
<1>3. QED BY <1>1, <1>2

(* What is kept of a session is well-typed after every step.               *)
LEMMA StoreSteps ==
  ASSUME Typed, [Next]_vars
  PROVE  KeychainOK' /\ MemoryOK'
<1>0. BackendOK' /\ issued <= issued' /\ issued' \in Nat
  BY BackendSteps
<1>9. issued \in Nat /\ issued' \in 1 .. issued'
  BY <1>0 DEF Typed, BackendOK
<1>1. UNCHANGED <<tokenVars, storeVars>> => KeychainOK' /\ MemoryOK'
  <2>1. UNCHANGED <<tokenVars, storeVars>> =>
          keychain' = keychain /\ UNCHANGED <<access, refresh, credentials, user, account, setting, legacy>>
          /\ fresh' = fresh
    BY DEF tokenVars, storeVars
  <2>2. fresh \in BOOLEAN
    BY DEF Typed, MemoryOK
  <2>3. QED BY <1>0, <2>1, <2>2, StoreKept
<1>2. CASE RestoreGoesOn
  <2>1. CASE RestoreBegins
    <3>1. keychain' = keychain /\ UNCHANGED <<access, refresh, credentials, fresh, user, account>>
          /\ setting' \in {setting, NoUser} /\ legacy' \in {legacy, NoUser} /\ issued' = issued
      BY <2>1 DEF RestoreBegins, storeVars, memoryVars, tokenVars, backendVars
    <3>2. KeychainOK'
      BY <1>0, <3>1, StoreKept
    <3>3. AccountsOK'
      BY <3>1 DEF Typed, MemoryOK, AccountsOK
    <3>4. QED BY <3>1, <3>2, <3>3 DEF Typed, MemoryOK
  <2>2. CASE RestoreAnswered
    <3>1. /\ restoring.saved.token \in 1 .. issued' /\ owner[restoring.saved.token] \in Users
          /\ restoring.saved.mode \in {"refresh", "access"}
      BY <1>0, <1>9, <2>2, KnownOwners DEF RestoreAnswered
    <3>2. QED BY <1>0, <1>9, <2>2, <3>1, SaveTypes DEF RestoreAnswered
  <2>3. CASE RestoreRefused
    <3>1. keychain' = [u \in Users |-> IF u \in {restoring.account} THEN NoCredential ELSE keychain[u]]
      BY <2>3 DEF RestoreRefused, Typed, KeychainOK
    <3>2. UNCHANGED backendVars
      BY <2>3 DEF RestoreRefused
    <3>3. KeychainOK'
      BY <3>1, <3>2, DropTypes
    <3>4. QED BY <2>3, <3>3, ResetTypes DEF RestoreRefused
  <2>4. CASE RestoreFails
    <3>1. KeychainOK'
      BY <1>0, <2>4, StoreKept DEF RestoreFails, storeVars
    <3>2. QED BY <2>4, <3>1, ResetTypes DEF RestoreFails, storeVars
  <2>5. QED BY <1>2, <2>1, <2>2, <2>3, <2>4 DEF RestoreGoesOn
<1>3. ASSUME NEW l \in Logins, LoggedIn(l), login[l].user \in Users PROVE KeychainOK' /\ MemoryOK'
  BY <1>0, <1>9, <1>3, SaveTypes DEF LoggedIn
<1>4. CASE LoginGoesOn
  BY <1>1, <1>3, <1>4, KnownOwners DEF LoginGoesOn, RequirementsChecked, LoginFails, PasswordAccepted,
     TotpRequired, TotpAccepted, TotpTooLate
<1>5. ASSUME NEW r \in Refreshes, RefreshAnswered(r) PROVE KeychainOK' /\ MemoryOK'
  <2>1. refreshing[r].token \in 1 .. issued /\ refreshing[r].account \in Users
        /\ owner[refreshing[r].token] \in Users
    BY <1>5, KnownOwners DEF RefreshAnswered
  <2>2. access' = issued' /\ fresh' = TRUE /\ user' \in {user, owner[refreshing[r].token]}
        /\ refresh' \in {refreshing[r].token, issued'}
        /\ UNCHANGED <<credentials, account, setting, legacy>>
    BY <1>5 DEF RefreshAnswered
  <2>3. refresh' \in 1 .. issued' /\ refresh' \in Tokens
    BY <1>0, <1>9, <2>1, <2>2, BoundsAssumption DEF BackendOK, Tokens
  <2>4. MemoryOK'
    <3>1. AccountsOK'
      BY <2>1, <2>2 DEF Typed, MemoryOK, AccountsOK
    <3>2. QED BY <1>9, <2>2, <2>3, <3>1 DEF Typed, MemoryOK
  <2>5. CASE keychain' = keychain
    BY <1>0, <2>4, <2>5, StoreKept
  <2>6. CASE keychain' = [keychain EXCEPT ![refreshing[r].account] = [mode |-> "refresh", token |-> refresh']]
    <3>1. keychain' \in [Users -> Credential]
      BY <2>3, <2>6 DEF Typed, KeychainOK, Credential
    <3>2. \A u \in Users : keychain[u].token \in 0 .. MaxTokens
      BY CredentialHasToken DEF Typed, KeychainOK
    <3>3. \A u \in Users : keychain'[u].token <= issued'
      BY <1>0, <1>9, <2>3, <2>6, <3>2, BoundsAssumption DEF Typed, KeychainOK
    <3>4. QED BY <2>4, <3>1, <3>3 DEF KeychainOK
  <2>7. QED BY <1>5, <2>5, <2>6 DEF RefreshAnswered
<1>10. CASE RefreshEnds
  BY <1>5, <1>10, ClearTypes DEF RefreshEnds, RefreshFails
<1>6. CASE RequestGoesOn \/ \E q \in Requests : RequestBegins(q)
  BY <1>1, <1>6, ClearTypes DEF RequestGoesOn, RequestEnds, RequestRefused, RequestBegins, requestUnchanged,
     AskToken, memoryVars
<1>7. CASE LogoutAnswered \/ LogoutBegins \/ PendingGivenUp \/ TokenExpires \/ Restart \/ UNCHANGED vars
           \/ \E l \in Logins : LoginBegins(l) \/ TotpSubmitted(l)
  <2>1. CASE LogoutAnswered \/ LogoutBegins
    BY <1>1, <2>1, ClearTypes DEF LogoutAnswered, LogoutBegins, memoryVars
  <2>2. CASE TokenExpires
    BY <1>0, <2>2, StoreKept DEF TokenExpires, storeVars
  <2>3. CASE Restart
    <3>1. KeychainOK'
      BY <1>0, <2>3, StoreKept DEF Restart, storeVars
    <3>2. QED BY <2>3, <3>1, ResetTypes DEF Restart, storeVars
  <2>4. CASE UNCHANGED vars \/ PendingGivenUp \/ \E l \in Logins : LoginBegins(l) \/ TotpSubmitted(l)
    BY <1>1, <2>4 DEF PendingGivenUp, LoginBegins, TotpSubmitted, vars, memoryVars
  <2>5. QED BY <1>7, <2>1, <2>2, <2>3, <2>4
<1>8. QED BY <1>2, <1>4, <1>10, <1>6, <1>7 DEF Next
-----------------------------------------------------------------------------
(* What is in flight.                                                      *)

(* Every step begins, moves or ends what it is about, and leaves the rest. *)
LEMMA Moves ==
  ASSUME [Next]_vars
  PROVE  /\ RestoreBegins \/ restoring' \in {restoring, Idle, [pc |-> "done"]}
         /\ LogoutBegins \/ leaving' \in {leaving, Idle}
         /\ \/ login' = login \/ login' = [l \in Logins |-> Idle]
            \/ \E l \in Logins : LoginBegins(l) \/ TotpSubmitted(l) \/ RequirementsChecked(l) \/ LoginDone(l)
         /\ \/ refreshing' = refreshing \/ refreshing' = [r \in Refreshes |-> Idle]
            \/ \E r \in Refreshes : RefreshDone(r)
            \/ \E q \in Requests, again \in BOOLEAN :
                  Refreshable(again) /\ WaitForRefresh(q, again) /\ UNCHANGED backendVars
         /\ \/ request' = request \/ request' = [q \in Requests |-> Idle]
            \/ \E r \in Refreshes : Resume(r, 0) \/ Resume(r, issued')
            \/ \E q \in Requests : request' = [request EXCEPT ![q] = Idle]
            \/ \E q \in Requests, again \in BOOLEAN : AskToken(q, again) /\ UNCHANGED backendVars
<1>1. CASE RestoreGoesOn
  BY <1>1 DEF RestoreGoesOn, RestoreBegins, RestoreAnswered, RestoreRefused, RestoreFails, requestVars
<1>2. CASE LoginGoesOn \/ \E l \in Logins : LoginBegins(l) \/ TotpSubmitted(l)
  BY <1>2 DEF LoginGoesOn, RequirementsChecked, LoginFails, PasswordAccepted, TotpRequired,
     TotpAccepted, TotpTooLate, LoggedIn, LoginBegins, TotpSubmitted, loginUnchanged, requestVars
<1>3. CASE RefreshEnds
  BY <1>3 DEF RefreshEnds, RefreshAnswered, RefreshFails, refreshUnchanged
<1>4. CASE RequestGoesOn \/ \E q \in Requests : RequestBegins(q)
  <2>1. PICK q \in Requests : RequestEnds(q) \/ RequestRefused(q) \/ RequestBegins(q)
    BY <1>4 DEF RequestGoesOn
  <2>2. UNCHANGED <<backendVars, restoring, login, leaving>>
    BY <2>1 DEF RequestEnds, RequestRefused, RequestBegins, requestUnchanged
  <2>3. \/ refreshing' = refreshing /\ request' = [request EXCEPT ![q] = Idle]
        \/ AskToken(q, FALSE) \/ AskToken(q, TRUE)
    BY <2>1 DEF RequestEnds, RequestRefused, RequestBegins
  <2>4. QED BY <2>2, <2>3 DEF AskToken
<1>5. CASE LogoutAnswered \/ LogoutBegins \/ PendingGivenUp \/ TokenExpires \/ Restart \/ UNCHANGED vars
  BY <1>5 DEF LogoutAnswered, LogoutBegins, PendingGivenUp, TokenExpires, Restart, vars, flightVars, requestVars
<1>6. QED BY <1>1, <1>2, <1>3, <1>4, <1>5 DEF Next

(* What is in flight is well-typed after every step. *)
LEMMA FlightSteps ==
  ASSUME Typed, [Next]_vars
  PROVE  RestoringOK' /\ LoginOK' /\ RefreshingOK' /\ LeavingOK'
<1>0. issued \in Nat /\ issued' \in Nat /\ issued <= issued'
  BY BackendSteps
<1>1. RestoringOK'
  <2>1. CASE RestoreBegins
    <3>1. \A c \in Candidates : c[1] \in Users /\ c[2] \in {"setting", "legacy"}
      BY DEF Candidates, Typed, MemoryOK, AccountsOK
    <3>2. \/ restoring' \in {restoring, [pc |-> "done"]}
          \/ \E c \in Candidates : keychain[c[1]] # NoCredential
               /\ restoring' = [pc |-> "asking", account |-> c[1], from |-> c[2], saved |-> keychain[c[1]]]
      BY <2>1 DEF RestoreBegins
    <3>3. restoring.pc # "asking" /\ issued' = issued
      BY <2>1 DEF RestoreBegins, Idle, backendVars
    <3>4. QED BY <3>1, <3>2, <3>3 DEF Typed, RestoringOK, KeychainOK, RestoreStates
  <2>2. CASE restoring' \in {restoring, Idle, [pc |-> "done"]}
    BY <1>0, <2>2, KnownOwners DEF Typed, RestoringOK, RestoreStates, Idle
  <2>3. QED BY <2>1, <2>2, Moves
<1>2. LoginOK'
  <2>0. \A l \in Logins : login[l].pc = "totp" => login[l].attempt \in Nat
    BY BoundsAssumption DEF Typed, LoginOK, LoginStates, Idle, Tokens
  <2>1. login' = login => LoginOK'
    BY <1>0, <2>0 DEF Typed, LoginOK
  <2>2. login' = [l \in Logins |-> Idle] => LoginOK'
    BY DEF LoginOK, LoginStates, Idle
  <2>3. ASSUME NEW l \in Logins, LoginDone(l) PROVE LoginOK'
    BY <1>0, <2>0, <2>3 DEF Typed, LoginOK, LoginDone, LoginStates, Idle
  <2>4. ASSUME NEW l \in Logins, LoginBegins(l) PROVE LoginOK'
    BY <1>0, <2>0, <2>4 DEF Typed, LoginOK, LoginBegins, LoginStates
  <2>5. ASSUME NEW l \in Logins, TotpSubmitted(l) PROVE LoginOK'
    <3>1. pending \in Tokens /\ owner[pending] \in Users /\ pending <= issued
      BY <2>5, BoundsAssumption DEF TotpSubmitted, Typed, CallsOK, BackendOK, Tokens
    <3> DEFINE x == [pc |-> "totp", user |-> owner[pending], attempt |-> pending]
    <3>2. x \in LoginStates
      BY <3>1 DEF LoginStates
    <3>3. x.attempt = pending /\ pending \in Nat /\ login' = [login EXCEPT ![l] = x]
      BY <2>5, <3>1, BoundsAssumption DEF TotpSubmitted, Tokens
    <3> HIDE DEF x
    <3>4. QED BY <1>0, <2>0, <3>1, <3>2, <3>3 DEF Typed, LoginOK
  <2>6. ASSUME NEW l \in Logins, RequirementsChecked(l) PROVE LoginOK'
    BY <1>0, <2>0, <2>3, <2>6 DEF Typed, LoginOK, RequirementsChecked, LoginStates, Idle
  <2>7. QED BY <2>1, <2>2, <2>3, <2>4, <2>5, <2>6, Moves
<1>3. RefreshingOK'
  <2>0. \A r \in Refreshes : refreshing[r].pc = "asking" => refreshing[r].token \in Nat
    BY BoundsAssumption DEF Typed, RefreshingOK, RefreshStates, Idle, Tokens
  <2>1. refreshing' = refreshing => RefreshingOK'
    BY <1>0, <2>0 DEF Typed, RefreshingOK
  <2>2. refreshing' = [r \in Refreshes |-> Idle] => RefreshingOK'
    BY DEF RefreshingOK, RefreshStates, Idle
  <2>3. ASSUME NEW r \in Refreshes, RefreshDone(r) PROVE RefreshingOK'
    BY <1>0, <2>0, <2>3 DEF Typed, RefreshingOK, RefreshDone, RefreshStates, Idle
  <2>4. ASSUME NEW q \in Requests, NEW again \in BOOLEAN, Refreshable(again), WaitForRefresh(q, again)
        PROVE  RefreshingOK'
    <3>1. refresh \in Tokens /\ refresh <= issued /\ account \in Users
      BY <2>4, BoundsAssumption DEF Refreshable, Typed, MemoryOK, BackendOK, Tokens
    <3>2. \/ refreshing' = refreshing
          \/ \E r \in Refreshes : refreshing' = [refreshing EXCEPT ![r] =
               [pc |-> "asking", token |-> refresh, account |-> account]]
      BY <2>4 DEF WaitForRefresh
    <3>3. ASSUME NEW r \in Refreshes, refreshing' = [refreshing EXCEPT ![r] =
                   [pc |-> "asking", token |-> refresh, account |-> account]]
          PROVE  RefreshingOK'
      <4> DEFINE x == [pc |-> "asking", token |-> refresh, account |-> account]
      <4>1. x \in RefreshStates
        BY <3>1 DEF RefreshStates
      <4>2. x.token = refresh /\ refresh \in Nat /\ refreshing' = [refreshing EXCEPT ![r] = x]
        BY <3>1, <3>3, BoundsAssumption DEF Tokens
      <4> HIDE DEF x
      <4>3. QED BY <1>0, <2>0, <3>1, <4>1, <4>2 DEF Typed, RefreshingOK
    <3>4. QED BY <2>1, <3>2, <3>3
  <2>5. QED BY <2>1, <2>2, <2>3, <2>4, Moves
<1>4. LeavingOK'
  <2>1. CASE LogoutBegins
    BY <2>1, BoundsAssumption DEF LogoutBegins, Typed, LeavingOK, LogoutStates, MemoryOK, BackendOK, Tokens
  <2>2. QED BY <2>1, Moves DEF Typed, LeavingOK, LogoutStates, Idle
<1>5. QED BY <1>1, <1>2, <1>3, <1>4

(* What the session remembers of its calls. *)
CallsMoved ==
  /\ pending' \in {pending, 0, issued'} /\ busy' \in {busy, TRUE, FALSE}
  /\ overlapped' = overlapped \/ Overlaps
  /\ promise' \in {promise, "none"} \/ promise' \in Refreshes

(* An overlap is only noted where something begins. *)
LEMMA CallMoves ==
  ASSUME [Next]_vars
  PROVE  CallsMoved
<1>1. CASE RestoreGoesOn
  BY <1>1 DEF CallsMoved, RestoreGoesOn, RestoreBegins, RestoreAnswered, RestoreRefused, RestoreFails,
     ResetMemory, memoryVars
<1>2. CASE LoginGoesOn \/ \E l \in Logins : LoginBegins(l) \/ TotpSubmitted(l)
  BY <1>2 DEF CallsMoved, LoginGoesOn, RequirementsChecked, LoginFails, PasswordAccepted, TotpRequired,
     TotpAccepted, TotpTooLate, LoggedIn, LoginBegins, TotpSubmitted, LoginDone
<1>3. CASE RefreshEnds
  BY <1>3 DEF CallsMoved, RefreshEnds, RefreshAnswered, RefreshFails, refreshUnchanged, Clear, ResetMemory
<1>4. ASSUME NEW q \in Requests, NEW again \in BOOLEAN, AskToken(q, again)
      PROVE  CallsMoved
  BY <1>4 DEF CallsMoved, AskToken, WaitForRefresh, Clear, ResetMemory, memoryVars
<1>5. CASE RequestGoesOn \/ \E q \in Requests : RequestBegins(q)
  BY <1>4, <1>5 DEF CallsMoved, RequestGoesOn, RequestEnds, RequestRefused, RequestBegins, memoryVars
<1>6. CASE LogoutAnswered \/ LogoutBegins \/ PendingGivenUp \/ TokenExpires \/ Restart \/ UNCHANGED vars
  BY <1>6 DEF CallsMoved, LogoutAnswered, LogoutBegins, PendingGivenUp, TokenExpires, Restart, vars, memoryVars,
     Clear, ResetMemory
<1>7. QED BY <1>1, <1>2, <1>3, <1>5, <1>6 DEF Next

(* So are the requests and the calls of the session. *)
LEMMA CallSteps ==
  ASSUME Typed, [Next]_vars
  PROVE  RequestOK' /\ CallsOK'
<1>0. issued \in Nat /\ issued' \in Tokens /\ issued <= issued'
  BY BackendSteps, BoundsAssumption DEF BackendOK, Tokens
<1>1. RequestOK'
  <2>1. request' = request \/ request' = [q \in Requests |-> Idle] => RequestOK'
    BY DEF Typed, RequestOK, RequestStates
  <2>2. ASSUME NEW r \in Refreshes, NEW token \in {0, issued'}, Resume(r, token) PROVE RequestOK'
    BY <1>0, <2>2 DEF Typed, RequestOK, RequestStates, Resume, Idle, Tokens
  <2>3. ASSUME NEW q \in Requests, request' = [request EXCEPT ![q] = Idle] PROVE RequestOK'
    BY <2>3 DEF Typed, RequestOK, RequestStates
  <2>4. ASSUME NEW q \in Requests, NEW again \in BOOLEAN, AskToken(q, again) PROVE RequestOK'
    <3>1. TokenAtHand(again) => access \in Tokens
      BY BoundsAssumption DEF TokenAtHand, Typed, MemoryOK, BackendOK, Tokens
    <3>2. \/ TokenAtHand(again) /\ request' = [request EXCEPT ![q] = [pc |-> "sent", token |-> access, again |-> again]]
          \/ \E r \in Refreshes : request' = [request EXCEPT ![q] = [pc |-> "waiting", on |-> r, again |-> again]]
          \/ request' = [request EXCEPT ![q] = Idle]
      BY <2>4 DEF AskToken, WaitForRefresh
    <3>3. QED BY <3>1, <3>2 DEF Typed, RequestOK, RequestStates
  <2>5. QED BY <2>1, <2>2, <2>3, <2>4, Moves
<1>2. CallsMoved
  BY CallMoves
<1>3. pending' \in 0 .. issued'
  BY <1>0, <1>2, BoundsAssumption DEF CallsMoved, Typed, CallsOK, Tokens
<1>4. busy' \in BOOLEAN /\ overlapped' \in BOOLEAN
  BY <1>2 DEF CallsMoved, Overlaps, Typed, CallsOK
<1>5. promise' \in Refreshes \union {"none"}
  BY <1>2 DEF CallsMoved, Typed, CallsOK
<1>6. QED BY <1>1, <1>3, <1>4, <1>5 DEF CallsOK

(* A token is only replaced where its exchange was under way. *)
Replaces ==
  /\ spent \subseteq spent' /\ spent' \subseteq spent \union RestoringToken \union RefreshingTokens
  /\ lost' = lost \/ lost' = (lost \/ spent' # spent)

LEMMA ReplacingSteps ==
  ASSUME [Next]_vars
  PROVE  Replaces
<1>1. CASE RestoreGoesOn
  <2>1. CASE RestoreBegins
    BY <2>1 DEF RestoreBegins, replacedVars, Replaces
  <2>2. CASE RestoreAnswered
    BY <2>2 DEF RestoreAnswered, RestoringToken, Replaces
  <2>3. CASE RestoreRefused \/ RestoreFails
    BY <2>3 DEF RestoreRefused, RestoreFails, MayReplace, Replaces
  <2>4. QED BY <1>1, <2>1, <2>2, <2>3 DEF RestoreGoesOn
<1>2. CASE LoginGoesOn \/ \E l \in Logins : LoginBegins(l) \/ TotpSubmitted(l)
  BY <1>2 DEF LoginGoesOn, RequirementsChecked, LoginFails, PasswordAccepted, TotpRequired, TotpAccepted,
     TotpTooLate, LoggedIn, LoginBegins, TotpSubmitted, loginUnchanged, replacedVars, Replaces
<1>3. CASE RefreshEnds
  BY <1>3 DEF RefreshEnds, RefreshAnswered, RefreshFails, RefreshingTokens, MayReplace, Replaces
<1>4. CASE RequestGoesOn \/ \E q \in Requests : RequestBegins(q)
  BY <1>4 DEF RequestGoesOn, RequestEnds, RequestRefused, RequestBegins, requestUnchanged, replacedVars, Replaces
<1>5. CASE LogoutAnswered \/ LogoutBegins \/ PendingGivenUp \/ TokenExpires \/ Restart \/ UNCHANGED vars
  BY <1>5 DEF LogoutAnswered, LogoutBegins, PendingGivenUp, TokenExpires, Restart, MayReplace, vars,
     replacedVars, Replaces
<1>6. QED BY <1>1, <1>2, <1>3, <1>4, <1>5 DEF Next

(* So it is one the backend has issued. *)
LEMMA ReplacedSteps ==
  ASSUME Typed, [Next]_vars
  PROVE  ReplacedOK'
<1>1. RestoringToken \union RefreshingTokens \subseteq 1 .. issued
  BY KnownOwners DEF RestoringToken, RefreshingTokens
<1>2. 1 .. issued \subseteq 1 .. issued'
  BY BackendSteps
<1>3. lost' \in BOOLEAN
  BY ReplacingSteps DEF Replaces, Typed, ReplacedOK
<1>4. QED BY <1>1, <1>2, <1>3, ReplacingSteps DEF Replaces, Typed, ReplacedOK

(* The initial states are well-typed. *)
LEMMA InitTyped == Init => Typed
<1> SUFFICES ASSUME Init PROVE Typed
  OBVIOUS
<1>1. 1 \in Tokens /\ NoCredential \in Credential /\ NoCredential.token = 0
  BY BoundsAssumption DEF Tokens, NoCredential, Credential
<1>2. BackendOK /\ owner[1] \in Users
  <2>1. PICK u \in Users : owner = [t \in Tokens |-> IF t = 1 THEN u ELSE NoUser]
    BY DEF Init
  <2>2. issued = 1 /\ owner[1] = u
    BY <1>1, <2>1 DEF Init
  <2>3. issued \in 1 .. MaxTokens /\ \A t \in 1 .. issued : t = 1
    BY <2>2, BoundsAssumption
  <2>4. owner \in [Tokens -> Users \union {NoUser}]
    BY <2>1
  <2>5. \A t \in 1 .. issued : owner[t] \in Users
    BY <2>2, <2>3
  <2>6. QED BY <2>2, <2>3, <2>4, <2>5 DEF BackendOK
<1>3. CallsOK /\ MemoryOK
  <2>1. setting \in {NoUser, owner[1]} /\ legacy \in {NoUser, owner[1]}
    BY DEF Init
  <2>2. AccountsOK
    BY <1>2, <2>1 DEF Init, AccountsOK
  <2>3. issued = 1 /\ access = 0 /\ refresh = 0 /\ pending = 0 /\ credentials = "none" /\ fresh = FALSE
        /\ busy = FALSE /\ overlapped = FALSE /\ promise = "none"
    BY DEF Init
  <2>4. 0 \in 0 .. issued /\ FALSE \in BOOLEAN
    BY <2>3
  <2>5. CallsOK
    BY <2>3, <2>4 DEF CallsOK
  <2>6. MemoryOK
    BY <2>2, <2>3, <2>4 DEF MemoryOK
  <2>7. QED BY <2>5, <2>6
<1>4. PICK m \in {"none", "refresh", "access"} :
        keychain = [v \in Users |-> IF v = owner[1] /\ m # "none" THEN [mode |-> m, token |-> 1] ELSE NoCredential]
  BY DEF Init
<1>5. \A v \in Users : keychain[v] \in Credential /\ keychain[v].token <= 1
  BY <1>1, <1>4 DEF Credential
<1>6. KeychainOK
  BY <1>4, <1>5 DEF Init, KeychainOK
<1>7. RestoringOK /\ LeavingOK /\ LoginOK /\ RefreshingOK /\ RequestOK
  BY DEF Init, RestoringOK, RestoreStates, LeavingOK, LogoutStates, LoginOK, LoginStates,
     RefreshingOK, RefreshStates, RequestOK, RequestStates, Idle
<1>8. ReplacedOK
  BY DEF Init, ReplacedOK
<1>9. QED BY <1>2, <1>3, <1>6, <1>7, <1>8 DEF Typed

(* Whatever overlaps, fails or restarts: every variable of the session     *)
(* keeps its type, and no token is remembered that the backend has not     *)
(* issued.                                                                 *)
THEOREM SessionTyped == Spec => [](TypeOK /\ TokensKnown)
<1>1. Init => Typed
  BY InitTyped
<1>2. Typed /\ [Next]_vars => Typed'
  BY BackendSteps, StoreSteps, FlightSteps, CallSteps, ReplacedSteps DEF Typed
<1>3. Typed => TypeOK /\ TokensKnown
  BY TypedIsTyped
<1>4. QED BY <1>1, <1>2, <1>3, PTL DEF Spec
-----------------------------------------------------------------------------
(* The session is one piece. *)

Whole == OneAtATime /\ Remembered /\ OnePiece
Quiet == restoring.pc # "asking" /\ leaving = Idle /\ NoLogin /\ NoRefresh

(* What is in flight is asking the backend something. *)
LEMMA InFlightPc ==
  ASSUME Typed
  PROVE  /\ restoring.pc = "idle" <=> restoring = Idle
         /\ restoring.pc \in {"idle", "asking", "done"}
         /\ leaving.pc \in {"idle", "asking"} /\ (leaving.pc = "idle" <=> leaving = Idle)
         /\ \A l \in Logins : login[l].pc \in {"idle", "requirements", "password", "totp"}
                              /\ (login[l].pc = "idle" <=> login[l] = Idle)
         /\ \A r \in Refreshes : refreshing[r].pc \in {"idle", "asking"}
                              /\ (refreshing[r].pc = "idle" <=> refreshing[r] = Idle)
<1>1. /\ restoring.pc = "idle" <=> restoring = Idle
      /\ restoring.pc \in {"idle", "asking", "done"}
  BY DEF Typed, RestoringOK, RestoreStates, Idle
<1>2. leaving.pc \in {"idle", "asking"} /\ (leaving.pc = "idle" <=> leaving = Idle)
  BY DEF Typed, LeavingOK, LogoutStates, Idle
<1>3. \A l \in Logins : login[l].pc \in {"idle", "requirements", "password", "totp"}
                       /\ (login[l].pc = "idle" <=> login[l] = Idle)
  BY DEF Typed, LoginOK, LoginStates, Idle
<1>4. \A r \in Refreshes : refreshing[r].pc \in {"idle", "asking"}
                           /\ (refreshing[r].pc = "idle" <=> refreshing[r] = Idle)
  BY DEF Typed, RefreshingOK, RefreshStates, Idle
<1>5. QED BY <1>1, <1>2, <1>3, <1>4

(* What begins without overlapping finds nothing in flight. *)
LEMMA BeginsQuiet ==
  ASSUME Typed, Overlaps, ~overlapped'
  PROVE  Quiet
<1>1. InFlight = {}
  BY DEF Overlaps
<1>2. restoring.pc # "asking" /\ leaving.pc # "asking"
      /\ (\A l \in Logins : login[l].pc = "idle" \/ login[l].pc = "done")
      /\ \A r \in Refreshes : refreshing[r].pc = "idle" \/ refreshing[r].pc = "done"
  BY <1>1 DEF InFlight
<1>3. QED BY <1>2, InFlightPc DEF Quiet, NoLogin, NoRefresh

(* Once two operations have overlapped, that is remembered.                *)
LEMMA OverlapStays ==
  ASSUME [Next]_vars, ~overlapped'
  PROVE  ~overlapped
BY CallMoves DEF CallsMoved, Overlaps

(* Clearing a session that is whole leaves nothing of it.                  *)
LEMMA ClearWhole ==
  ASSUME Typed, OnePiece, ~overlapped, Clear, NoRefresh'
  PROVE  OnePiece' /\ MemoryEmpty' /\ \A u \in Users : keychain'[u] = NoCredential
<1>1. MemoryEmpty' /\ setting' = NoUser /\ legacy' = NoUser
  BY DEF Clear, ResetMemory, MemoryEmpty
<1>2. ASSUME NEW u \in Users PROVE keychain'[u] = NoCredential
  <2>1. u # NoUser
    BY NamesAssumption
  <2>2. u \notin Accounts => keychain[u] = NoCredential
    BY <2>1 DEF Accounts, OnePiece
  <2>3. QED BY <2>2 DEF Clear
<1>3. \A r \in Refreshes : refreshing'[r].pc # "asking"
  BY DEF NoRefresh, Idle
<1>4. QED BY <1>1, <1>2, <1>3 DEF OnePiece, MemoryEmpty

(* Saving a credential makes a whole of it. *)
LEMMA SaveWhole ==
  ASSUME Typed, OnePiece, ~overlapped, NoRefresh', NEW u \in Users,
         NEW m \in {"refresh", "access"}, NEW token, NEW new,
         SaveAndActivate(u, m, token, new), owner'[new] = u, owner'[token] = u
  PROVE  OnePiece' /\ (new # 0 /\ refresh' # 0 => access' # 0 /\ owner'[refresh'] = user')
<1>1. ASSUME NEW v \in Users PROVE keychain'[v] # NoCredential => v = u
  <2>1. v # NoUser
    BY NamesAssumption
  <2>2. v \notin Accounts => keychain[v] = NoCredential
    BY <2>1 DEF Accounts, OnePiece
  <2>3. QED BY <2>2 DEF SaveAndActivate
<1>2. keychain'[u] = [mode |-> m, token |-> token]
  BY DEF SaveAndActivate
<1>3. \A r \in Refreshes : refreshing'[r].pc # "asking"
  BY DEF NoRefresh, Idle
<1>4. access' = new /\ user' = u /\ account' = u /\ setting' = u
      /\ refresh' = (IF m = "refresh" THEN token ELSE 0)
  BY DEF SaveAndActivate
<1>5. QED BY <1>1, <1>2, <1>3, <1>4 DEF OnePiece

(* The restoration. *)
LEMMA RestoreWhole ==
  ASSUME Typed, Whole, ~overlapped, ~overlapped', RestoreGoesOn
  PROVE  Whole'
<1> USE DEF Whole
<1>0. restoring.pc # "done" /\ MemoryEmpty /\ leaving = Idle /\ NoLogin /\ NoRefresh
  BY DEF RestoreGoesOn, RestoreBegins, RestoreAnswered, RestoreRefused, RestoreFails, OneAtATime, Idle
<1>1. leaving' = Idle /\ NoLogin' /\ NoRefresh'
  BY <1>0 DEF RestoreGoesOn, RestoreBegins, RestoreAnswered, RestoreRefused, RestoreFails, NoLogin, NoRefresh
<1>2. \A r \in Refreshes : refreshing'[r].pc # "asking"
  BY <1>1 DEF NoRefresh, Idle
<1>3. restoring'.pc = "done" \/ MemoryEmpty' => OneAtATime'
  BY <1>1 DEF OneAtATime, NoLogin, NoRefresh
<1>4. CASE RestoreBegins
  <2>1. MemoryEmpty' /\ UNCHANGED <<user, keychain>> /\ owner' = owner
    BY <1>0, <1>4 DEF RestoreBegins, MemoryEmpty, memoryVars, tokenVars, storeVars, backendVars
  <2>2. Remembered'
    BY <1>2, <1>4, <2>1, NamesAssumption DEF RestoreBegins, MemoryEmpty, Remembered, Candidates, storeVars, Idle
  <2>3. \A u \in Users : keychain'[u] # NoCredential => u \in {setting', legacy'}
    BY <1>4, <2>1, NamesAssumption DEF RestoreBegins, OnePiece, Candidates, storeVars
  <2>4. OnePiece'
    BY <1>2, <2>1, <2>3 DEF OnePiece, MemoryEmpty
  <2>5. QED BY <1>3, <2>1, <2>2, <2>4
<1>5. CASE RestoreAnswered
  <2>1. OneAtATime'
    BY <1>3, <1>5 DEF RestoreAnswered
  <2>2. /\ restoring.saved.token \in 1 .. issued /\ owner[restoring.saved.token] \in Users
        /\ restoring.saved.mode \in {"refresh", "access"}
    BY <1>5, KnownOwners DEF RestoreAnswered
  <2>3. OnePiece' /\ (refresh' # 0 => access' # 0 /\ owner'[refresh'] = user')
    <3>1. CASE restoring.saved.mode = "access"
      BY <1>1, <1>5, <2>2, <3>1, SaveWhole DEF RestoreAnswered, backendVars
    <3>2. CASE restoring.saved.mode = "refresh"
      <4>1. Issue(owner[restoring.saved.token])
        BY <1>5, <3>2 DEF RestoreAnswered
      <4>2. issued' = issued + 1 /\ owner'[issued'] = owner[restoring.saved.token]
            /\ owner'[restoring.saved.token] = owner[restoring.saved.token] /\ issued' # 0
        BY <2>2, <4>1, IssueTypes, BoundsAssumption DEF Typed, BackendOK
      <4>3. QED BY <1>1, <1>5, <2>2, <3>2, <4>2, SaveWhole DEF RestoreAnswered
    <3>3. QED BY <2>2, <3>1, <3>2
  <2>4. Remembered'
    BY <1>2, <1>5, <2>3 DEF RestoreAnswered, Remembered
  <2>5. QED BY <2>1, <2>3, <2>4
<1>6. CASE RestoreRefused
  <2>1. MemoryEmpty' /\ restoring' = Idle
    BY <1>6 DEF RestoreRefused, MemoryEmpty, ResetMemory
  <2>2. Remembered'
    BY <1>2, <2>1 DEF MemoryEmpty, Remembered, Idle
  <2>3. \A u \in Users : keychain'[u] # NoCredential => u \in {setting', legacy'}
    <3>1. restoring.account \in Users /\ restoring.from \in {"setting", "legacy"}
          /\ (restoring.from = "setting" => setting = restoring.account)
          /\ (restoring.from = "legacy" => legacy = restoring.account)
      BY <1>6, KnownOwners DEF RestoreRefused, Remembered
    <3>2. QED BY <1>6, <3>1 DEF RestoreRefused, OnePiece, Typed, KeychainOK
  <2>4. OnePiece'
    BY <1>2, <2>1, <2>3 DEF OnePiece, MemoryEmpty
  <2>5. QED BY <1>3, <2>1, <2>2, <2>4
<1>7. CASE RestoreFails
  <2>1. MemoryEmpty' /\ restoring'.pc = "done" /\ UNCHANGED storeVars
    BY <1>7 DEF RestoreFails, MemoryEmpty, ResetMemory
  <2>2. Remembered' /\ OnePiece'
    BY <1>2, <2>1 DEF MemoryEmpty, Remembered, OnePiece, storeVars
  <2>3. QED BY <1>3, <2>1, <2>2
<1>8. QED BY <1>4, <1>5, <1>6, <1>7 DEF RestoreGoesOn

(* A step that leaves the session and its refreshes alone keeps it whole.  *)
LEMMA KeptWhole ==
  ASSUME Whole, ~overlapped, UNCHANGED <<owner, refreshing, promise>>,
         UNCHANGED <<access, refresh, user, credentials, account, keychain, setting, legacy>>,
         restoring' = restoring
  PROVE  Remembered' /\ OnePiece'
BY DEF Whole, Remembered, OnePiece

(* The logins. *)
LEMMA LoginWhole ==
  ASSUME Typed, Whole, ~overlapped, ~overlapped', NEW l \in Logins,
         \/ RequirementsChecked(l) \/ LoginFails(l) \/ PasswordAccepted(l)
         \/ TotpRequired(l) \/ TotpAccepted(l) \/ TotpTooLate(l)
         \/ LoginBegins(l) \/ TotpSubmitted(l)
  PROVE  Whole'
<1> USE DEF Whole
<1>1. /\ restoring.pc = "done" /\ leaving = Idle /\ NoRefresh
      /\ \A k \in Logins : k # l => login[k] = Idle
  <2>1. CASE LoginBegins(l) \/ TotpSubmitted(l)
    <3>1. Quiet
      BY <2>1, BeginsQuiet DEF LoginBegins, TotpSubmitted
    <3>2. QED BY <2>1, <3>1 DEF LoginBegins, TotpSubmitted, Quiet, Ready, NoLogin
  <2>2. CASE login[l] # Idle
    BY <2>2 DEF OneAtATime, NoLogin
  <2>3. login[l] = Idle => LoginBegins(l) \/ TotpSubmitted(l)
    BY DEF RequirementsChecked, LoginFails, PasswordAccepted, TotpRequired, TotpAccepted, TotpTooLate, Idle
  <2>4. QED BY <2>1, <2>2, <2>3
<1>2. UNCHANGED <<restoring, leaving, refreshing>> /\ \A k \in Logins : k # l => login'[k] = login[k]
  BY DEF RequirementsChecked, LoginFails, PasswordAccepted, TotpRequired, TotpAccepted, TotpTooLate,
     LoginBegins, TotpSubmitted, LoggedIn, LoginDone, loginUnchanged, Typed, LoginOK
<1>3. NoRefresh' /\ OneAtATime'
  BY <1>1, <1>2 DEF OneAtATime, NoRefresh, NoLogin
<1>4. CASE PasswordAccepted(l) \/ TotpAccepted(l)
  <2>1. login[l].user \in Users /\ LoggedIn(l) /\ Issue(login[l].user)
    BY <1>4, KnownOwners DEF LoggedIn, PasswordAccepted, TotpAccepted
  <2>2. owner'[issued'] = login[l].user /\ issued' # 0
    BY <2>1, IssueTypes, BoundsAssumption DEF Typed, BackendOK
  <2>3. OnePiece' /\ (refresh' # 0 => access' # 0 /\ owner'[refresh'] = user')
    BY <1>3, <2>1, <2>2, SaveWhole DEF LoggedIn
  <2>4. QED BY <1>1, <1>2, <1>3, <2>3 DEF Remembered, NoRefresh, Idle
<1>5. CASE ~(PasswordAccepted(l) \/ TotpAccepted(l))
  <2>1. UNCHANGED <<tokenVars, promise, storeVars>>
    BY <1>5 DEF RequirementsChecked, LoginFails, PasswordAccepted, TotpRequired, TotpAccepted, TotpTooLate,
       LoginBegins, TotpSubmitted
  <2>2. CASE owner' = owner
    BY <1>2, <1>3, <2>1, <2>2, KeptWhole DEF tokenVars, storeVars
  <2>3. CASE TotpRequired(l)
    <3>1. \A t \in 1 .. issued : owner'[t] = owner[t]
      BY <2>3, IssueTypes, KnownOwners DEF TotpRequired, Typed
    <3>2. access # 0 => owner'[access] = owner[access]
      BY <3>1 DEF Typed, MemoryOK
    <3>3. refresh # 0 => owner'[refresh] = owner[refresh]
      BY <3>1 DEF Typed, MemoryOK
    <3>4. Remembered'
      BY <1>2, <2>1, <3>3 DEF Remembered, tokenVars, storeVars
    <3>5. OnePiece'
      BY <1>2, <2>1, <3>2 DEF OnePiece, tokenVars, storeVars
    <3>6. QED BY <1>3, <3>4, <3>5
  <2>4. owner' = owner \/ TotpRequired(l)
    BY <1>5 DEF RequirementsChecked, LoginFails, PasswordAccepted, TotpAccepted, TotpTooLate,
       LoginBegins, TotpSubmitted, backendVars
  <2>5. QED BY <2>2, <2>3, <2>4
<1>6. QED BY <1>4, <1>5

(* The refreshes. *)
LEMMA RefreshWhole ==
  ASSUME Typed, Whole, ~overlapped, ~overlapped', NEW r \in Refreshes,
         RefreshAnswered(r) \/ RefreshFails(r)
  PROVE  Whole'
<1> USE DEF Whole
<1>1. /\ refreshing[r].pc = "asking" /\ refreshing[r] # Idle
      /\ restoring.pc = "done" /\ leaving = Idle /\ NoLogin
      /\ promise = r /\ \A s \in Refreshes : s # r => refreshing[s] = Idle
  <2>1. refreshing[r].pc = "asking" /\ refreshing[r] # Idle
    BY DEF RefreshAnswered, RefreshFails, Idle
  <2>2. QED BY <2>1 DEF OneAtATime, NoLogin, NoRefresh
<1>2. UNCHANGED <<restoring, leaving, login>> /\ NoRefresh'
  BY <1>1 DEF RefreshAnswered, RefreshFails, RefreshDone, refreshUnchanged, NoRefresh, Typed, RefreshingOK
<1>3. OneAtATime' /\ \A s \in Refreshes : refreshing'[s].pc # "asking"
  BY <1>1, <1>2 DEF OneAtATime, NoRefresh, NoLogin, Idle
<1>4. CASE RefreshAnswered(r)
  <2>1. /\ refreshing[r].token \in 1 .. issued /\ refreshing[r].token = refresh
        /\ refreshing[r].account \in Users /\ refreshing[r].account = account
        /\ refresh # 0 /\ owner[refresh] = user /\ owner[refresh] \in Users /\ access # 0
        /\ account = user /\ setting = user
    BY <1>1, KnownOwners, BoundsAssumption DEF Remembered, OnePiece, Typed, BackendOK
  <2>2. Issue(owner[refresh])
    BY <1>4, <2>1 DEF RefreshAnswered
  <2>3. owner'[issued'] = user /\ issued' # 0 /\ owner'[refresh] = user
    BY <2>1, <2>2, IssueTypes, BoundsAssumption DEF Typed, BackendOK
  <2>4. /\ access' = issued' /\ user' = user /\ refresh' \in {refresh, issued'}
        /\ UNCHANGED <<credentials, account, setting, legacy>>
        /\ keychain' = IF refresh' = refresh THEN keychain
                       ELSE [keychain EXCEPT ![account] = [mode |-> "refresh", token |-> refresh']]
    BY <1>4, <2>1 DEF RefreshAnswered
  <2>5. Remembered'
    BY <1>1, <1>2, <1>3, <2>3, <2>4 DEF Remembered
  <2>6. keychain'[account] = [mode |-> "refresh", token |-> refresh']
    BY <2>1, <2>4 DEF OnePiece, Typed, KeychainOK
  <2>7. \A u \in Users : keychain'[u] # NoCredential => u \in {setting', legacy'}
    BY <2>1, <2>4 DEF OnePiece, Typed, KeychainOK
  <2>8. OnePiece'
    BY <1>3, <2>1, <2>3, <2>4, <2>6, <2>7 DEF OnePiece
  <2>9. QED BY <1>3, <2>5, <2>8
<1>5. CASE RefreshFails(r)
  <2>1. OnePiece' /\ MemoryEmpty'
    BY <1>2, <1>5, ClearWhole DEF RefreshFails
  <2>2. QED BY <1>1, <1>2, <1>3, <2>1 DEF MemoryEmpty, Remembered
<1>6. QED BY <1>4, <1>5

(* A request for a token. *)
LEMMA AskTokenWhole ==
  ASSUME Typed, Whole, ~overlapped, ~overlapped', UNCHANGED <<backendVars, restoring, login, leaving>>,
         NEW q \in Requests, NEW again \in BOOLEAN, AskToken(q, again)
  PROVE  Whole'
<1> USE DEF Whole
<1>1. CASE UNCHANGED <<memoryVars, storeVars, refreshing, overlapped>>
  <2>1. Remembered' /\ OnePiece'
    BY <1>1, KeptWhole DEF backendVars, memoryVars, tokenVars, storeVars
  <2>2. OneAtATime'
    BY <1>1 DEF OneAtATime, MemoryEmpty, NoLogin, NoRefresh, memoryVars, tokenVars
  <2>3. QED BY <2>1, <2>2
<1>2. CASE Refreshable(again) /\ WaitForRefresh(q, again) /\ UNCHANGED <<tokenVars, pending, busy, storeVars>>
  <2>1. PICK r \in Refreshes :
          IF promise # "none"
            THEN r = promise /\ UNCHANGED <<promise, refreshing, overlapped>>
            ELSE /\ refreshing[r] = Idle /\ promise' = r
                 /\ refreshing' = [refreshing EXCEPT ![r] =
                                     [pc |-> "asking", token |-> refresh, account |-> account]]
                 /\ Overlaps
    BY <1>2 DEF WaitForRefresh
  <2>2. CASE UNCHANGED <<promise, refreshing, overlapped>>
    <3>1. Remembered' /\ OnePiece'
      BY <1>2, <2>2, KeptWhole DEF backendVars, tokenVars, storeVars
    <3>2. OneAtATime'
      BY <1>2, <2>2 DEF OneAtATime, MemoryEmpty, NoLogin, NoRefresh, tokenVars
    <3>3. QED BY <3>1, <3>2
  <2>3. CASE /\ promise' = r /\ Overlaps
             /\ refreshing' = [refreshing EXCEPT ![r] =
                                 [pc |-> "asking", token |-> refresh, account |-> account]]
    <3>1. Quiet
      BY <2>3, BeginsQuiet
    <3>2. credentials = "refresh" /\ refresh # 0
      BY <1>2 DEF Refreshable
    <3>3. restoring.pc = "done"
      BY <3>2 DEF OneAtATime, MemoryEmpty
    <3>4. \A s \in Refreshes : s # r => refreshing'[s] = Idle
      BY <2>3, <3>1 DEF Quiet, NoRefresh, Typed, RefreshingOK
    <3>5. OneAtATime'
      BY <2>3, <3>1, <3>3, <3>4 DEF OneAtATime, Quiet, NoLogin
    <3>6. refreshing'[r] = [pc |-> "asking", token |-> refresh, account |-> account]
      BY <2>3 DEF Typed, RefreshingOK
    <3>7. UNCHANGED <<owner, access, refresh, user, credentials, account, keychain, setting, legacy, restoring>>
      BY <1>2 DEF backendVars, tokenVars, storeVars
    <3>8. Remembered'
      BY <3>2, <3>4, <3>6, <3>7 DEF Remembered, Idle
    <3>9. OnePiece'
      BY <2>3, <3>4, <3>7 DEF OnePiece, Idle
    <3>10. QED BY <3>5, <3>8, <3>9
  <2>4. QED BY <2>1, <2>2, <2>3
<1>3. CASE CannotRefresh(again) /\ Clear /\ UNCHANGED <<refreshing, overlapped>>
  <2>1. credentials = "access"
    BY <1>3 DEF CannotRefresh
  <2>2. NoRefresh /\ NoRefresh'
    BY <1>3, <2>1, InFlightPc DEF Remembered, NoRefresh
  <2>3. OnePiece' /\ MemoryEmpty'
    BY <1>3, <2>2, ClearWhole
  <2>4. restoring'.pc = "done"
    BY <2>1 DEF OneAtATime, MemoryEmpty
  <2>5. OneAtATime'
    BY <2>2, <2>4 DEF OneAtATime, NoRefresh, NoLogin
  <2>6. Remembered'
    BY <2>2, <2>3, <2>4 DEF Remembered, MemoryEmpty, NoRefresh, Idle
  <2>7. QED BY <2>3, <2>5, <2>6
<1>4. QED BY <1>1, <1>2, <1>3 DEF AskToken

(* Everything else. *)
LEMMA RestWhole ==
  ASSUME Typed, Whole, ~overlapped, ~overlapped',
         \/ LogoutAnswered \/ LogoutBegins \/ PendingGivenUp \/ TokenExpires \/ Restart
         \/ UNCHANGED vars \/ \E q \in Requests : RequestEnds(q)
  PROVE  Whole'
<1> USE DEF Whole
<1>1. CASE LogoutAnswered \/ (LogoutBegins /\ Clear)
  <2>1. NoRefresh /\ NoLogin /\ (leaving = Idle \/ restoring.pc = "done") /\ leaving' = Idle
        /\ restoring.pc # "asking" /\ Clear
    <3>1. CASE LogoutAnswered
      BY <3>1 DEF LogoutAnswered, OneAtATime, Idle
    <3>2. CASE LogoutBegins /\ Clear
      <4>1. leaving = Idle /\ leaving' = Idle /\ Overlaps
        BY <3>2 DEF LogoutBegins, Clear, ResetMemory, memoryVars, tokenVars
      <4>2. QED BY <3>2, <4>1, BeginsQuiet DEF Quiet
    <3>3. QED BY <1>1, <3>1, <3>2
  <2>2. NoRefresh' /\ NoLogin' /\ restoring' = restoring
    BY <1>1, <2>1 DEF LogoutAnswered, LogoutBegins, NoRefresh, NoLogin
  <2>3. OnePiece' /\ MemoryEmpty'
    BY <2>1, <2>2, ClearWhole
  <2>4. OneAtATime'
    BY <2>1, <2>2, <2>3 DEF OneAtATime, NoRefresh, NoLogin
  <2>5. Remembered'
    BY <2>1, <2>2, <2>3 DEF Remembered, MemoryEmpty, NoRefresh, Idle
  <2>6. QED BY <2>3, <2>4, <2>5
<1>2. CASE LogoutBegins /\ leaving' = [pc |-> "asking", token |-> refresh] /\ credentials = "refresh"
           /\ Overlaps /\ UNCHANGED <<memoryVars, storeVars>>
  <2>1. Quiet /\ restoring.pc = "done"
    BY <1>2, BeginsQuiet DEF OneAtATime, MemoryEmpty
  <2>2. UNCHANGED <<backendVars, restoring, login, refreshing>>
    BY <1>2 DEF LogoutBegins
  <2>3. Remembered' /\ OnePiece'
    BY <1>2, <2>2, KeptWhole DEF backendVars, memoryVars, tokenVars, storeVars
  <2>4. OneAtATime'
    BY <2>1, <2>2 DEF OneAtATime, Quiet, NoLogin, NoRefresh
  <2>5. QED BY <2>3, <2>4
<1>3. CASE PendingGivenUp \/ TokenExpires \/ UNCHANGED vars \/ \E q \in Requests : RequestEnds(q)
  <2>1. UNCHANGED <<owner, refreshing, promise, restoring, login, leaving,
                    access, refresh, user, credentials, account, keychain, setting, legacy>>
    BY <1>3 DEF PendingGivenUp, TokenExpires, RequestEnds, vars, backendVars, tokenVars, memoryVars,
       storeVars, flightVars, requestUnchanged
  <2>2. Remembered' /\ OnePiece'
    BY <2>1, KeptWhole
  <2>3. OneAtATime'
    BY <2>1 DEF OneAtATime, MemoryEmpty, NoLogin, NoRefresh
  <2>4. QED BY <2>2, <2>3
<1>4. CASE Restart
  <2>1. MemoryEmpty' /\ NoRefresh' /\ NoLogin' /\ leaving' = Idle /\ restoring' = Idle /\ UNCHANGED storeVars
    BY <1>4 DEF Restart, MemoryEmpty, ResetMemory, NoRefresh, NoLogin
  <2>2. OneAtATime' /\ Remembered'
    BY <2>1 DEF OneAtATime, Remembered, MemoryEmpty, NoRefresh, NoLogin, Idle
  <2>3. OnePiece'
    BY <2>1 DEF OnePiece, MemoryEmpty, NoRefresh, storeVars, Idle
  <2>4. QED BY <2>2, <2>3
<1>5. LogoutBegins => Clear \/ (/\ leaving' = [pc |-> "asking", token |-> refresh] /\ credentials = "refresh"
                                 /\ Overlaps /\ UNCHANGED <<memoryVars, storeVars>>)
  BY DEF LogoutBegins
<1>6. QED BY <1>1, <1>2, <1>3, <1>4, <1>5

-----------------------------------------------------------------------------
(* No token is exchanged again once it has been replaced.                  *)

Asking == {r \in Refreshes : refreshing[r].pc = "asking"}

(* The exchanges under way are apart from each other and from the token at *)
(* hand, and know where their answer is to be saved.                       *)
Apart ==
  /\ setting = NoUser \/ legacy = NoUser
  /\ account # NoUser => setting = account
  /\ legacy # NoUser => credentials = "none" /\ Asking = {}
  /\ restoring.pc # "done" =>
       credentials = "none" /\ account = NoUser /\ refresh = 0 /\ Asking = {} /\ NoLogin
  /\ restoring.pc = "asking" =>
       /\ restoring.from = "setting" => legacy = NoUser
       /\ restoring.from = "legacy" => setting = NoUser
  /\ \A r \in Asking :
       /\ refreshing[r].token = refresh => promise = r
       /\ setting # NoUser /\ keychain[setting].mode = "refresh"
            /\ keychain[setting].token = refreshing[r].token => refreshing[r].account = setting
       /\ \A s \in Asking : s # r => refreshing[s].token # refreshing[r].token

(* Nothing that is kept for a later exchange was replaced, *)
KeptUnspent ==
  \A u \in {setting, legacy} \ {NoUser} : keychain[u].mode = "refresh" => keychain[u].token \notin spent
(* nor the token at hand or one that is being exchanged. *)
Unspent == ~lost => refresh \notin spent /\ NoneSentAgain /\ KeptUnspent

(* What is under way changes its tokens by beginning or ending only. *)
LEMMA SameExchanges ==
  ASSUME Typed, Apart, Unspent,
         UNCHANGED <<account, credentials, refresh, promise, keychain, setting, legacy, restoring, refreshing>>,
         UNCHANGED replacedVars, restoring.pc = "done" \/ login' = login
  PROVE  Apart' /\ Unspent'
<1>1. Asking' = Asking
  BY DEF Asking
<1>2. Apart'
  BY <1>1 DEF Apart, NoLogin
<1>3. RestoringToken' = RestoringToken /\ RefreshingTokens' = RefreshingTokens
  BY DEF RestoringToken, RefreshingTokens
<1>4. Unspent'
  BY <1>3 DEF Unspent, NoneSentAgain, KeptUnspent, replacedVars
<1>5. QED BY <1>2, <1>4

(* A refresh in flight has one of the tokens the backend has issued, and so *)
(* has what was replaced.                                                  *)
LEMMA AskingTokens ==
  ASSUME Typed
  PROVE  /\ \A r \in Asking : refreshing[r].token \in 1 .. issued /\ refreshing[r].account \in Users
         /\ 0 \notin spent /\ spent \subseteq 1 .. issued /\ issued \in Nat
         /\ RefreshingTokens = {refreshing[r].token : r \in Asking}
<1>1. \A r \in Asking : refreshing[r].token \in 1 .. issued /\ refreshing[r].account \in Users
  BY KnownOwners DEF Asking
<1>2. 0 \notin spent /\ spent \subseteq 1 .. issued /\ issued \in Nat
  BY BoundsAssumption DEF Typed, ReplacedOK, BackendOK
<1>3. RefreshingTokens = {refreshing[r].token : r \in Asking}
  BY DEF RefreshingTokens, Asking
<1>4. QED BY <1>1, <1>2, <1>3

(* After a clear there is nothing to exchange but what is under way. *)
LEMMA ClearApart ==
  ASSUME Typed, Apart, Unspent, Clear, restoring' = restoring, login' = login,
         Asking' \subseteq Asking, \A r \in Asking' : refreshing'[r] = refreshing[r],
         lost' = lost, spent \subseteq spent',
         \A t \in spent' \ spent : t \notin RestoringToken /\ \A r \in Asking' : refreshing[r].token # t,
         spent' \subseteq spent \union {refreshing[r].token : r \in Asking}
  PROVE  Apart' /\ Unspent'
<1>1. account' = NoUser /\ setting' = NoUser /\ legacy' = NoUser /\ refresh' = 0 /\ credentials' = "none"
  BY DEF Clear, ResetMemory
<1>2. \A r \in Asking : refreshing[r].token # 0
  BY AskingTokens
<1>3. Apart'
  BY <1>1, <1>2 DEF Apart, NoLogin
<1>4. refresh' \notin spent'
  BY <1>1, <1>2, AskingTokens
<1>5. ASSUME ~lost PROVE NoneSentAgain'
  <2>1. RestoringToken' = RestoringToken
    BY DEF RestoringToken
  <2>2. \A t \in RefreshingTokens' : \E r \in Asking' : t = refreshing[r].token
    BY DEF RefreshingTokens, Asking
  <2>3. \A t \in RestoringToken \union RefreshingTokens : t \notin spent
    BY <1>5 DEF Unspent, NoneSentAgain
  <2>4. \A r \in Asking : refreshing[r].token \in RefreshingTokens
    BY AskingTokens
  <2>5. \A t \in RestoringToken' \union RefreshingTokens' : t \notin spent'
    BY <2>1, <2>2, <2>3, <2>4
  <2>6. QED BY <2>5 DEF NoneSentAgain
<1>6. KeptUnspent'
  BY <1>1 DEF KeptUnspent
<1>7. QED BY <1>3, <1>4, <1>5, <1>6 DEF Unspent

(* A credential is saved whose token is new to those under way. *)
LEMMA SaveApart ==
  ASSUME Typed, Apart, Unspent, NEW u \in Users, NEW m \in {"refresh", "access"}, NEW token, NEW new,
         SaveAndActivate(u, m, token, new), refreshing' = refreshing, UNCHANGED <<promise, lost>>,
         restoring'.pc = "done",
         \A r \in Asking : refreshing[r].token # token /\ refreshing[r].token \notin spent' \ spent,
         ~lost => token \notin spent', 0 \notin spent'
  PROVE  Apart' /\ Unspent'
<1>1. /\ account' = u /\ setting' = u /\ legacy' = NoUser /\ credentials' = m
      /\ refresh' = IF m = "refresh" THEN token ELSE 0
      /\ keychain'[u] = [mode |-> m, token |-> token]
  BY DEF SaveAndActivate
<1>2. Asking' = Asking
  BY DEF Asking
<1>3. \A r \in Asking : refreshing[r].token # 0
  BY AskingTokens
<1>4. Apart'
  BY <1>1, <1>2, <1>3, NamesAssumption DEF Apart
<1>5. ASSUME ~lost PROVE NoneSentAgain'
  <2>1. RestoringToken' = {}
    BY DEF RestoringToken
  <2>2. \A t \in RefreshingTokens' : \E r \in Asking : t = refreshing[r].token
    BY DEF RefreshingTokens, Asking
  <2>3. \A r \in Asking : refreshing[r].token \notin spent
    BY <1>5, AskingTokens DEF Unspent, NoneSentAgain
  <2>4. \A t \in RefreshingTokens' : t \notin spent'
    BY <2>2, <2>3
  <2>5. QED BY <2>1, <2>4 DEF NoneSentAgain
<1>6. ~lost => KeptUnspent'
  BY <1>1 DEF KeptUnspent
<1>7. ~lost => refresh' \notin spent'
  BY <1>1
<1>8. QED BY <1>4, <1>5, <1>6, <1>7 DEF Unspent

(* The restoration, *)
LEMMA RestoreApart ==
  ASSUME Typed, Apart, Unspent, RestoreGoesOn
  PROVE  Apart' /\ Unspent'
<1>1. /\ credentials = "none" /\ account = NoUser /\ refresh = 0 /\ Asking = {} /\ NoLogin
      /\ restoring.pc \in {"idle", "asking"}
  BY InFlightPc DEF RestoreGoesOn, RestoreBegins, RestoreAnswered, RestoreRefused, RestoreFails, Apart, Idle
<1>2. UNCHANGED <<refreshing, login>>
  BY DEF RestoreGoesOn, RestoreBegins, RestoreAnswered, RestoreRefused, RestoreFails
<1>3. Asking' = {} /\ NoLogin' /\ RefreshingTokens' = {}
  <2>1. Asking' = {} /\ NoLogin'
    BY <1>1, <1>2 DEF Asking, NoLogin
  <2>2. QED BY <2>1 DEF Asking, RefreshingTokens
<1>4. 0 \notin spent'
  <2>1. Typed' => 0 \notin spent'
    BY DEF Typed, ReplacedOK, BackendOK
  <2>2. Next
    BY DEF Next
  <2>3. QED BY <2>1, <2>2, BackendSteps, StoreSteps, FlightSteps, CallSteps, ReplacedSteps DEF Typed
<1>5. CASE RestoreBegins
  <2>1. UNCHANGED <<credentials, account, refresh, keychain, spent, lost>>
    BY <1>5 DEF RestoreBegins, memoryVars, tokenVars, storeVars, replacedVars
  <2>2. /\ setting' \in {setting, NoUser} /\ legacy' \in {legacy, NoUser}
        /\ \/ restoring' \in {Idle, [pc |-> "done"]}
           \/ /\ UNCHANGED <<setting, legacy>>
              /\ \E c \in Candidates : restoring' = [pc |-> "asking", account |-> c[1], from |-> c[2],
                                                      saved |-> keychain[c[1]]]
    BY <1>5 DEF RestoreBegins, storeVars
  <2>3. CASE restoring' \in {Idle, [pc |-> "done"]}
    <3>1. RestoringToken' = {} /\ restoring'.pc # "asking"
      BY <2>3 DEF RestoringToken, Idle
    <3>2. Apart'
      BY <1>1, <1>3, <2>1, <2>2, <3>1 DEF Apart
    <3>3. ~lost => KeptUnspent'
      BY <2>1, <2>2 DEF Unspent, KeptUnspent
    <3>4. QED BY <1>1, <1>3, <2>1, <3>1, <3>2, <3>3 DEF Unspent, NoneSentAgain
  <2>4. ASSUME NEW c \in Candidates, UNCHANGED <<setting, legacy>>,
               restoring' = [pc |-> "asking", account |-> c[1], from |-> c[2], saved |-> keychain[c[1]]]
        PROVE  Apart' /\ Unspent'
    <3>1. \/ c[1] = setting /\ c[2] = "setting" /\ setting # NoUser
          \/ c[1] = legacy /\ c[2] = "legacy" /\ setting = NoUser /\ legacy # NoUser
      BY DEF Candidates
    <3>2. restoring'.from = c[2] /\ restoring'.saved = keychain[c[1]]
      BY <2>4
    <3>3. Apart'
      BY <1>1, <1>3, <2>1, <2>4, <3>1, <3>2 DEF Apart
    <3>4. ~lost => KeptUnspent' /\ (keychain[c[1]].mode = "refresh" => keychain[c[1]].token \notin spent)
      BY <2>1, <2>4, <3>1 DEF Unspent, KeptUnspent
    <3>5. RestoringToken' = IF keychain[c[1]].mode = "refresh" THEN {keychain[c[1]].token} ELSE {}
      BY <2>4, <3>2 DEF RestoringToken
    <3>6. ~lost => NoneSentAgain'
      BY <1>3, <2>1, <3>4, <3>5 DEF NoneSentAgain
    <3>7. QED BY <1>1, <1>4, <2>1, <3>3, <3>4, <3>6 DEF Unspent
  <2>5. QED BY <2>2, <2>3, <2>4
<1>6. CASE RestoreAnswered
  <2>1. /\ restoring.saved.token \in 1 .. issued /\ owner[restoring.saved.token] \in Users
        /\ restoring.saved.mode \in {"refresh", "access"} /\ spent \subseteq 1 .. issued /\ issued \in Nat
    BY <1>6, KnownOwners, AskingTokens DEF RestoreAnswered
  <2>2. restoring'.pc = "done" /\ UNCHANGED <<promise, lost>>
    BY <1>6 DEF RestoreAnswered
  <2>3. ~lost /\ restoring.saved.mode = "refresh" => restoring.saved.token \notin spent
    BY <1>6 DEF RestoreAnswered, RestoringToken, Unspent, NoneSentAgain
  <2>4. CASE restoring.saved.mode = "refresh"
    <3>1. PICK token \in {restoring.saved.token, issued'} :
            /\ SaveAndActivate(owner[restoring.saved.token], "refresh", token, issued')
            /\ spent' = spent \union ({restoring.saved.token} \ {token})
      BY <1>6, <2>4 DEF RestoreAnswered
    <3>2. issued' = issued + 1
      BY <1>6, <2>4 DEF RestoreAnswered, Issue
    <3>3. ~lost => token \notin spent'
      BY <2>1, <2>3, <2>4, <3>1, <3>2
    <3>4. QED BY <1>1, <1>2, <1>4, <2>1, <2>2, <3>1, <3>3, SaveApart
  <2>5. CASE restoring.saved.mode = "access" /\ restoring.saved.token \in spent
    <3>1. /\ SaveAndActivate(owner[restoring.saved.token], "access", restoring.saved.token, restoring.saved.token)
          /\ spent' = spent
      BY <1>6, <2>5 DEF RestoreAnswered
    <3>2. /\ account' = setting' /\ legacy' = NoUser /\ refresh' = 0
          /\ setting' \in Users /\ keychain'[setting'].mode = "access"
      BY <2>1, <3>1 DEF SaveAndActivate
    <3>3. Apart'
      BY <1>3, <2>2, <3>2, NamesAssumption DEF Apart
    <3>4. KeptUnspent' /\ RestoringToken' = {}
      BY <2>2, <3>2 DEF KeptUnspent, RestoringToken
    <3>5. QED BY <1>3, <1>4, <3>2, <3>3, <3>4 DEF Unspent, NoneSentAgain
  <2>6. CASE restoring.saved.mode = "access" /\ restoring.saved.token \notin spent
    <3>1. /\ SaveAndActivate(owner[restoring.saved.token], "access", restoring.saved.token, restoring.saved.token)
          /\ spent' = spent
      BY <1>6, <2>6 DEF RestoreAnswered
    <3>2. QED BY <1>1, <1>2, <1>4, <2>1, <2>2, <2>6, <3>1, SaveApart
  <2>7. QED BY <2>1, <2>4, <2>5, <2>6
<1>7. CASE RestoreRefused
  <2>1. /\ account' = NoUser /\ credentials' = "none" /\ refresh' = 0 /\ restoring' = Idle /\ lost' = lost
        /\ setting' \in {setting, NoUser} /\ legacy' \in {legacy, NoUser}
        /\ IF restoring.from = "setting" THEN setting' = NoUser ELSE legacy' = NoUser
        /\ restoring.pc = "asking"
    BY <1>7 DEF RestoreRefused, ResetMemory
  <2>2. restoring.from \in {"setting", "legacy"}
    BY <2>1, KnownOwners
  <2>3. setting' = NoUser /\ legacy' = NoUser
    BY <2>1, <2>2 DEF Apart
  <2>4. Apart'
    BY <1>3, <2>1, <2>3 DEF Apart, Idle
  <2>5. KeptUnspent' /\ RestoringToken' = {}
    BY <2>1, <2>3 DEF KeptUnspent, RestoringToken, Idle
  <2>6. QED BY <1>3, <1>4, <2>1, <2>4, <2>5 DEF Unspent, NoneSentAgain
<1>8. CASE RestoreFails
  <2>1. /\ account' = NoUser /\ credentials' = "none" /\ refresh' = 0 /\ restoring' = [pc |-> "done"]
        /\ UNCHANGED <<keychain, setting, legacy>> /\ lost' = (lost \/ spent' # spent)
    BY <1>8 DEF RestoreFails, ResetMemory, storeVars
  <2>2. Apart'
    BY <1>3, <2>1 DEF Apart
  <2>3. RestoringToken' = {}
    BY <2>1 DEF RestoringToken
  <2>4. ~lost' => KeptUnspent'
    BY <2>1 DEF Unspent, KeptUnspent
  <2>5. QED BY <1>3, <1>4, <2>1, <2>2, <2>3, <2>4 DEF Unspent, NoneSentAgain
<1>9. QED BY <1>5, <1>6, <1>7, <1>8 DEF RestoreGoesOn

(* the end of a refresh, whoever it belongs to,                            *)
LEMMA RefreshApart ==
  ASSUME Typed, Apart, Unspent, NEW r \in Refreshes, RefreshAnswered(r) \/ RefreshFails(r)
  PROVE  Apart' /\ Unspent'
<1>1. /\ r \in Asking /\ restoring' = restoring /\ login' = login /\ lost' = lost
      /\ refreshing' = [refreshing EXCEPT ![r] = Idle]
  BY DEF RefreshAnswered, RefreshFails, RefreshDone, refreshUnchanged, Asking
<1>2. refreshing'[r] = Idle /\ \A s \in Refreshes : s # r => refreshing'[s] = refreshing[s]
  BY <1>1 DEF Typed, RefreshingOK
<1>3. Asking' = Asking \ {r} /\ \A s \in Asking' : refreshing'[s] = refreshing[s]
  <2>1. \A s \in Refreshes : s \in Asking' <=> s \in Asking /\ s # r
    BY <1>2 DEF Asking, Idle
  <2>2. QED BY <1>2, <2>1 DEF Asking
<1>4. /\ restoring.pc = "done" /\ legacy = NoUser /\ RestoringToken = {}
      /\ \A s \in Asking' : refreshing[s].token # refreshing[r].token
  BY <1>1, <1>3 DEF Apart, RestoringToken
<1>5. CASE RefreshFails(r)
  <2>1. Clear /\ spent \subseteq spent' /\ spent' \subseteq spent \union {refreshing[r].token}
    BY <1>5 DEF RefreshFails, MayReplace
  <2>2. QED BY <1>1, <1>3, <1>4, <2>1, ClearApart
<1>6. CASE RefreshAnswered(r)
  <2> DEFINE used == refreshing[r].token
  <2>1. /\ UNCHANGED <<credentials, account, setting, legacy>> /\ promise' = "none"
        /\ refresh' \in {used, issued'}
        /\ spent' = spent \union ({used} \ {refresh'})
        /\ keychain' = IF refresh' = used THEN keychain
                       ELSE [keychain EXCEPT ![refreshing[r].account] = [mode |-> "refresh", token |-> refresh']]
    BY <1>6 DEF RefreshAnswered
  <2>2. issued' = issued + 1
    BY <1>6 DEF RefreshAnswered, Issue
  <2>3. /\ used \in 1 .. issued /\ refreshing[r].account \in Users /\ issued \in Nat
        /\ \A s \in Asking' : refreshing[s].token \in 1 .. issued
        /\ spent \subseteq 1 .. issued
    BY <1>1, <1>3, AskingTokens
  <2>4. \A s \in Asking' : refreshing[s].token # refresh'
    BY <1>4, <2>1, <2>2, <2>3
  <2>5. setting # NoUser => setting \in Users
    BY DEF Typed, MemoryOK, AccountsOK
  <2>6. setting # NoUser =>
          \/ /\ keychain'[setting] = keychain[setting]
             /\ refresh' = used \/ refreshing[r].account # setting
          \/ keychain'[setting] = [mode |-> "refresh", token |-> refresh'] /\ refresh' = issued'
    BY <2>1, <2>3, <2>5 DEF Typed, KeychainOK
  <2> HIDE DEF used
  <2>7. Apart'
    <3>1. \A s \in Asking' : setting' # NoUser /\ keychain'[setting'].mode = "refresh"
            /\ keychain'[setting'].token = refreshing[s].token => refreshing[s].account = setting'
      BY <1>3, <2>1, <2>4, <2>6 DEF Apart
    <3>2. \A s \in Asking' : \A t \in Asking' : t # s => refreshing[t].token # refreshing[s].token
      BY <1>3 DEF Apart
    <3>3. QED BY <1>1, <1>3, <1>4, <2>1, <2>4, <3>1, <3>2 DEF Apart
  <2>8. ASSUME ~lost PROVE refresh' \notin spent' /\ NoneSentAgain' /\ KeptUnspent'
    <3>1. used \notin spent /\ \A s \in Asking : refreshing[s].token \notin spent
      BY <1>1, <2>8, AskingTokens DEF Unspent, NoneSentAgain, used
    <3>2. refresh' \notin spent'
      BY <2>1, <2>2, <2>3, <3>1
    <3>3. \A s \in Asking' : refreshing[s].token \notin spent'
      BY <1>3, <1>4, <2>1, <3>1 DEF used
    <3>4. NoneSentAgain'
      <4>1. RestoringToken' = {}
        BY <1>1, <1>4 DEF RestoringToken
      <4>2. \A t \in RefreshingTokens' : \E s \in Asking' : t = refreshing[s].token
        BY <1>3 DEF RefreshingTokens, Asking
      <4>3. QED BY <3>3, <4>1, <4>2 DEF NoneSentAgain
    <3>5. setting # NoUser /\ keychain[setting].mode = "refresh" => keychain[setting].token \notin spent
      BY <2>8 DEF Unspent, KeptUnspent
    <3>6. setting # NoUser /\ keychain[setting].mode = "refresh" /\ refreshing[r].account # setting
            => keychain[setting].token # used
      BY <1>1 DEF Apart, used
    <3>7. setting # NoUser /\ keychain'[setting].mode = "refresh" => keychain'[setting].token \notin spent'
      BY <2>1, <2>6, <3>2, <3>5, <3>6
    <3>8. QED BY <1>4, <2>1, <3>2, <3>4, <3>7 DEF KeptUnspent
  <2>9. QED BY <1>1, <2>7, <2>8 DEF Unspent
<1>7. QED BY <1>5, <1>6

(* a request for a token,                                                  *)
LEMMA AskTokenApart ==
  ASSUME Typed, Apart, Unspent, UNCHANGED <<backendVars, replacedVars, restoring, login, leaving>>,
         NEW q \in Requests, NEW again \in BOOLEAN, AskToken(q, again)
  PROVE  Apart' /\ Unspent'
<1>1. CASE UNCHANGED <<memoryVars, storeVars, refreshing>>
  BY <1>1, SameExchanges DEF memoryVars, tokenVars, storeVars
<1>2. CASE CannotRefresh(again) /\ Clear /\ refreshing' = refreshing
  <2>1. Asking' = Asking
    BY <1>2 DEF Asking
  <2>2. QED BY <1>2, <2>1, ClearApart DEF replacedVars
<1>3. CASE Refreshable(again) /\ WaitForRefresh(q, again) /\ UNCHANGED <<tokenVars, pending, busy, storeVars>>
  <2>1. UNCHANGED <<account, credentials, refresh, keychain, setting, legacy, spent, lost>>
    BY <1>3 DEF tokenVars, storeVars, replacedVars
  <2>2. CASE UNCHANGED <<promise, refreshing>>
    BY <2>1, <2>2, SameExchanges DEF replacedVars
  <2>3. ASSUME NEW r \in Refreshes, promise = "none", promise' = r,
               refreshing' = [refreshing EXCEPT ![r] =
                                [pc |-> "asking", token |-> refresh, account |-> account]]
        PROVE  Apart' /\ Unspent'
    <3>1. credentials = "refresh" /\ refresh # 0 /\ account # NoUser /\ account \in Users
      BY <1>3, NamesAssumption DEF Refreshable, Typed, MemoryOK
    <3>2. restoring.pc = "done" /\ legacy = NoUser /\ setting = account
      BY <3>1 DEF Apart
    <3>3. refreshing'[r].token = refresh /\ refreshing'[r].account = account /\ refreshing'[r].pc = "asking"
          /\ \A s \in Refreshes : s # r => refreshing'[s] = refreshing[s]
      BY <2>3 DEF Typed, RefreshingOK
    <3>4. r \in Asking' /\ Asking' \subseteq Asking \union {r}
      BY <3>3 DEF Asking
    <3>5. \A s \in Asking : refreshing[s].token # refresh
      BY <2>3, NamesAssumption DEF Apart, Asking
    <3>6. \A s \in Asking' \ {r} : s \in Asking /\ refreshing'[s] = refreshing[s]
      BY <3>3, <3>4 DEF Asking
    <3>7. Apart'
      <4>1. \A s \in Asking' : refreshing'[s].token = refresh => s = r
        BY <3>5, <3>6
      <4>2. \A s \in Asking' : setting # NoUser /\ keychain[setting].mode = "refresh"
              /\ keychain[setting].token = refreshing'[s].token => refreshing'[s].account = setting
        BY <3>2, <3>3, <3>6 DEF Apart
      <4>3. \A s \in Asking' : \A t \in Asking' : t # s => refreshing'[t].token # refreshing'[s].token
        BY <3>3, <3>5, <3>6 DEF Apart
      <4>4. QED BY <2>1, <2>3, <3>1, <3>2, <4>1, <4>2, <4>3 DEF Apart
    <3>8. ASSUME ~lost PROVE NoneSentAgain'
      <4>1. RestoringToken' = {}
        BY <3>2 DEF RestoringToken
      <4>2. \A t \in RefreshingTokens' : \E s \in Asking' : t = refreshing'[s].token
        BY DEF RefreshingTokens, Asking
      <4>3. \A s \in Asking : refreshing[s].token \notin spent
        BY <3>8, AskingTokens DEF Unspent, NoneSentAgain
      <4>4. refresh \notin spent
        BY <3>8 DEF Unspent
      <4>5. QED BY <2>1, <3>3, <3>6, <4>1, <4>2, <4>3, <4>4 DEF NoneSentAgain
    <3>9. ~lost => KeptUnspent'
      BY <2>1 DEF Unspent, KeptUnspent
    <3>10. QED BY <2>1, <3>7, <3>8, <3>9 DEF Unspent
  <2>4. QED BY <1>3, <2>2, <2>3 DEF WaitForRefresh
<1>4. QED BY <1>1, <1>2, <1>3 DEF AskToken

(* and everything else: a login gets a token nobody else has.              *)
LEMMA RestApart ==
  ASSUME Typed, Apart, Unspent,
         \/ LoginGoesOn \/ \E l \in Logins : LoginBegins(l) \/ TotpSubmitted(l)
         \/ LogoutAnswered \/ LogoutBegins \/ PendingGivenUp \/ TokenExpires \/ Restart
         \/ UNCHANGED vars \/ \E q \in Requests : RequestEnds(q)
  PROVE  Apart' /\ Unspent'
<1>1. ASSUME NEW l \in Logins, PasswordAccepted(l) \/ TotpAccepted(l) PROVE Apart' /\ Unspent'
  <2>1. /\ LoggedIn(l) /\ login[l].user \in Users /\ login[l] # Idle /\ issued' = issued + 1
        /\ SaveAndActivate(login[l].user, "refresh", issued', issued')
        /\ UNCHANGED <<promise, restoring, refreshing, spent, lost>>
    BY <1>1, KnownOwners DEF PasswordAccepted, TotpAccepted, LoggedIn, loginUnchanged, replacedVars, Issue, Idle
  <2>2. restoring.pc = "done"
    BY <2>1 DEF Apart, NoLogin
  <2>3. issued' \notin spent /\ 0 \notin spent /\ \A r \in Asking : refreshing[r].token # issued'
    BY <2>1, AskingTokens
  <2>4. QED BY <2>1, <2>2, <2>3, SaveApart
<1>2. ASSUME NEW l \in Logins,
             \/ RequirementsChecked(l) \/ LoginFails(l) \/ TotpRequired(l) \/ TotpTooLate(l)
             \/ LoginBegins(l) \/ TotpSubmitted(l)
      PROVE  Apart' /\ Unspent'
  <2>1. UNCHANGED <<tokenVars, promise, storeVars, restoring, refreshing, replacedVars>>
    BY <1>2 DEF RequirementsChecked, LoginFails, TotpRequired, TotpTooLate, LoginBegins, TotpSubmitted,
       loginUnchanged
  <2>2. restoring.pc = "done"
    BY <1>2 DEF RequirementsChecked, LoginFails, TotpRequired, TotpTooLate, LoginBegins, TotpSubmitted,
       Ready, Apart, NoLogin, Idle
  <2>3. QED BY <2>1, <2>2, SameExchanges DEF tokenVars, storeVars
<1>3. CASE Clear /\ (LogoutAnswered \/ LogoutBegins)
  <2>1. UNCHANGED <<restoring, login, refreshing, spent, lost>>
    BY <1>3 DEF LogoutAnswered, LogoutBegins, replacedVars
  <2>2. Asking' = Asking
    BY <2>1 DEF Asking
  <2>3. QED BY <1>3, <2>1, <2>2, ClearApart
<1>4. CASE \/ PendingGivenUp \/ TokenExpires \/ UNCHANGED vars \/ \E q \in Requests : RequestEnds(q)
           \/ (LogoutBegins /\ UNCHANGED <<memoryVars, storeVars>>)
  <2>1. /\ UNCHANGED <<account, credentials, refresh, promise, keychain, setting, legacy, restoring, refreshing>>
        /\ UNCHANGED <<replacedVars, login>>
    BY <1>4 DEF PendingGivenUp, TokenExpires, RequestEnds, LogoutBegins, vars, tokenVars, memoryVars,
       storeVars, flightVars, requestUnchanged, replacedVars
  <2>2. QED BY <2>1, SameExchanges
<1>5. CASE Restart
  <2>1. /\ account' = NoUser /\ credentials' = "none" /\ refresh' = 0 /\ restoring' = Idle
        /\ NoLogin' /\ refreshing' = [r \in Refreshes |-> Idle]
        /\ UNCHANGED <<keychain, setting, legacy>> /\ lost' = (lost \/ spent' # spent)
    BY <1>5 DEF Restart, ResetMemory, storeVars, NoLogin
  <2>2. Asking' = {} /\ RefreshingTokens' = {} /\ RestoringToken' = {}
    BY <2>1 DEF Asking, RefreshingTokens, RestoringToken, Idle
  <2>3. Apart'
    BY <2>1, <2>2 DEF Apart, Idle
  <2>4. ~lost' => KeptUnspent' /\ 0 \notin spent'
    BY <2>1, AskingTokens DEF Unspent, KeptUnspent
  <2>5. QED BY <2>1, <2>2, <2>3, <2>4 DEF Unspent, NoneSentAgain
<1>6. LogoutAnswered \/ LogoutBegins => Clear \/ (LogoutBegins /\ UNCHANGED <<memoryVars, storeVars>>)
  BY DEF LogoutAnswered, LogoutBegins
<1>7. QED BY <1>1, <1>2, <1>3, <1>4, <1>5, <1>6 DEF LoginGoesOn

(* The exchanges stay apart, whatever overlaps, fails or restarts.         *)
LEMMA ApartSteps ==
  ASSUME Typed, Apart, Unspent, [Next]_vars
  PROVE  Apart' /\ Unspent'
<1>1. ASSUME NEW q \in Requests, RequestRefused(q) \/ RequestBegins(q) PROVE Apart' /\ Unspent'
  <2>1. RequestEnds(q) \/ AskToken(q, FALSE) \/ AskToken(q, TRUE)
    BY <1>1 DEF RequestEnds, RequestRefused, RequestBegins
  <2>2. UNCHANGED <<backendVars, replacedVars, restoring, login, leaving>>
    BY <1>1 DEF RequestRefused, RequestBegins, requestUnchanged
  <2>3. QED BY <2>1, <2>2, AskTokenApart, RestApart
<1>2. CASE RefreshEnds
  BY <1>2, RefreshApart DEF RefreshEnds
<1>3. CASE RestoreGoesOn
  BY <1>3, RestoreApart
<1>4. CASE \/ LoginGoesOn \/ \E l \in Logins : LoginBegins(l) \/ TotpSubmitted(l)
           \/ LogoutAnswered \/ LogoutBegins \/ PendingGivenUp \/ TokenExpires \/ Restart
           \/ UNCHANGED vars \/ \E q \in Requests : RequestEnds(q)
  BY <1>4, RestApart
<1>5. QED BY <1>1, <1>2, <1>3, <1>4 DEF Next, RequestGoesOn
-----------------------------------------------------------------------------
(* Unless two of its operations overlap, the session stays one piece: its  *)
(* tokens belong to the user it shows and the keychain holds what the next *)
(* start needs and nothing else.  Even when they overlap, no refresh token *)
(* that was replaced is exchanged again, unless the new one was lost       *)
(* (manager.ts: saveAndActivate, refreshAccessToken, restoreCredential).   *)
THEOREM SessionWhole == Spec => []SessionIsWhole
<1>1. Init => Typed /\ (~overlapped => Whole) /\ Apart /\ Unspent
  <2>1. Init => Typed
    BY InitTyped
  <2>2. Init => OneAtATime /\ Remembered
    BY DEF Init, OneAtATime, Remembered, MemoryEmpty, NoLogin, NoRefresh, Idle
  <2>3. Init => OnePiece
    BY DEF Init, OnePiece, Idle, NoCredential
  <2>4. Init => Apart
    BY DEF Init, Apart, Asking, NoLogin, Idle
  <2>5. Init => Unspent
    BY DEF Init, Unspent, NoneSentAgain, KeptUnspent
  <2>6. QED BY <2>1, <2>2, <2>3, <2>4, <2>5 DEF Whole
<1>2. Typed /\ (~overlapped => Whole) /\ [Next]_vars => Typed' /\ (~overlapped' => Whole')
  <2> SUFFICES ASSUME Typed, ~overlapped => Whole, [Next]_vars
               PROVE  Typed' /\ (~overlapped' => Whole')
    OBVIOUS
  <2>1. Typed'
    BY BackendSteps, StoreSteps, FlightSteps, CallSteps, ReplacedSteps DEF Typed
  <2>2. ASSUME ~overlapped' PROVE ~overlapped
    BY <2>2, OverlapStays
  <2>3. ASSUME ~overlapped' PROVE Whole'
    <3>1. Whole /\ ~overlapped
      BY <2>2, <2>3
    <3>2. CASE RestoreGoesOn
      BY <2>3, <3>1, <3>2, RestoreWhole
    <3>3. CASE LoginGoesOn \/ \E l \in Logins : LoginBegins(l) \/ TotpSubmitted(l)
      BY <2>3, <3>1, <3>3, LoginWhole DEF LoginGoesOn
    <3>4. CASE RefreshEnds
      BY <2>3, <3>1, <3>4, RefreshWhole DEF RefreshEnds
    <3>5. ASSUME NEW q \in Requests, RequestRefused(q) \/ RequestBegins(q) PROVE Whole'
      <4>1. CASE RequestEnds(q)
        BY <2>3, <3>1, <4>1, RestWhole
      <4>2. RequestEnds(q) \/ AskToken(q, FALSE) \/ AskToken(q, TRUE)
        BY <3>5 DEF RequestEnds, RequestRefused, RequestBegins
      <4>3. UNCHANGED <<backendVars, restoring, login, leaving>>
        BY <3>5 DEF RequestRefused, RequestBegins, requestUnchanged
      <4>4. QED BY <2>3, <3>1, <4>1, <4>2, <4>3, AskTokenWhole
    <3>6. CASE \/ LogoutAnswered \/ LogoutBegins \/ PendingGivenUp \/ TokenExpires \/ Restart
               \/ UNCHANGED vars \/ \E q \in Requests : RequestEnds(q)
      BY <2>3, <3>1, <3>6, RestWhole
    <3>7. QED BY <3>2, <3>3, <3>4, <3>5, <3>6 DEF Next, RequestGoesOn
  <2>4. QED BY <2>1, <2>3
<1>3. Typed /\ Apart /\ Unspent /\ [Next]_vars => Apart' /\ Unspent'
  BY ApartSteps
<1>4. (~overlapped => Whole) /\ Unspent => SessionIsWhole
  BY DEF Whole, SessionIsWhole, Unspent
<1>5. QED BY <1>1, <1>2, <1>3, <1>4, PTL DEF Spec

(* A login is authenticated by nothing but an attempt that is still wanted:*)
(* after a code that comes too late the session is as before               *)
(* (completeTotp compares the attempt with #pendingTotp).                  *)
THEOREM GivenUp == Spec => GivenUpStaysOut
<1>1. ASSUME Typed, [Next]_vars, NEW l \in Logins,
             login[l].pc = "totp", login'[l] = Idle, pending # login[l].attempt
      PROVE  UNCHANGED tokenVars \/ access' = 0
  <2>1. login'[l] # login[l]
    BY <1>1 DEF Idle
  <2>2. CASE Restart
    BY <2>2 DEF Restart, ResetMemory
  <2>3. ASSUME NEW k \in Logins,
               \/ RequirementsChecked(k) \/ LoginFails(k) \/ PasswordAccepted(k)
               \/ TotpRequired(k) \/ TotpAccepted(k) \/ TotpTooLate(k)
               \/ LoginBegins(k) \/ TotpSubmitted(k)
        PROVE  UNCHANGED tokenVars \/ access' = 0
    <3>1. k = l
      BY <1>1, <2>1, <2>3 DEF RequirementsChecked, LoginFails, PasswordAccepted, TotpRequired, TotpAccepted,
         TotpTooLate, LoginBegins, TotpSubmitted, LoggedIn, LoginDone, Typed, LoginOK
    <3>2. QED BY <1>1, <2>3, <3>1 DEF RequirementsChecked, LoginFails, PasswordAccepted, TotpRequired,
         TotpAccepted, TotpTooLate, LoginBegins, TotpSubmitted
  <2>4. CASE RestoreGoesOn \/ RefreshEnds \/ RequestGoesOn \/ \E q \in Requests : RequestBegins(q)
    BY <2>1, <2>4 DEF RestoreGoesOn, RestoreBegins, RestoreAnswered, RestoreRefused, RestoreFails,
       RefreshEnds, RefreshAnswered, RefreshFails, refreshUnchanged, RequestGoesOn, RequestEnds,
       RequestRefused, RequestBegins, requestUnchanged
  <2>5. CASE LogoutAnswered \/ LogoutBegins \/ PendingGivenUp \/ TokenExpires \/ UNCHANGED vars
    BY <2>1, <2>5 DEF LogoutAnswered, LogoutBegins, PendingGivenUp, TokenExpires, vars, flightVars
  <2>6. QED BY <1>1, <2>2, <2>3, <2>4, <2>5 DEF Next, LoginGoesOn
<1>2. Init => Typed
  BY InitTyped
<1>3. Typed /\ [Next]_vars => Typed'
  BY BackendSteps, StoreSteps, FlightSteps, CallSteps, ReplacedSteps DEF Typed
<1>4. Typed /\ [Next]_vars =>
        [\A l \in Logins :
           login[l].pc = "totp" /\ login'[l] = Idle /\ pending # login[l].attempt
           => UNCHANGED tokenVars \/ access' = 0]_vars
  BY <1>1
<1>5. QED BY <1>2, <1>3, <1>4, PTL DEF Spec, GivenUpStaysOut
=============================================================================
