------------------------------- MODULE TaskRun -------------------------------
(***************************************************************************)
(* One account task from its start to its end: TaskOrchestrator.execute    *)
(* and finishConfirmedDeactivation, with the calls of AccountReauthorizer, *)
(* AccountCreator and AccountDeactivationManager they await, the requests  *)
(* a person may make meanwhile (cancel, take over, release), the browser   *)
(* window the person may close, and a crash of the service.                *)
(*                                                                         *)
(* Node.js runs the code between two awaits without interruption, so an    *)
(* action is one segment from an await to the next, pc names the await the *)
(* run is suspended at, and everything else interleaves at those points.   *)
(* The transitions a segment makes are the path given to Advance.          *)
(***************************************************************************)
EXTENDS TaskStages, FiniteSets

CONSTANTS
  Inputs,        \* the task inputs considered, a set of records, see InputType
  Sessions,      \* OAuth session ids the backend may hand out
  NoSession      \* no session has been generated yet

(* The part of a task's input that decides its course.  "attempts" is the  *)
(* number of sightings after which an account counts as deactivated, read  *)
(* from the settings once, when the task starts; "fallbacks" the number of *)
(* alternative passwords; "retries" says that the proxy is a dynamic one,  *)
(* "direct" that no proxy has to be resolved.                              *)
InputType ==
  [operation  : {"create", "reauthorize"},
   material   : {"email_otp", "password_totp"},
   proxy      : {"direct", "fixed", "dynamic"},
   allowDuplicateCreation : BOOLEAN,
   fallbacks  : Nat,
   attempts   : 1 .. 10]

ASSUME InputsAssumption == Inputs \subseteq InputType
ASSUME SessionsAssumption == NoSession \notin Sessions

EmailOtpRoundLimit == 3
DynamicProxyConnectionAttempts == 3
OtpResendAttempts == 2

VARIABLES
  input,      \* the input of the task, fixed
  stage,      \* machine.current.stage, as saved in the database
  code,       \* the class of the error a failed task ended with
  pc,         \* the await the run is suspended at
  gated,      \* it still waits at the takeover gate in front of that call
  kind,       \* the write beforeBackendWrite has admitted, or "none"
  sent,       \* requests of that write put on the wire
  outcome,    \* what became of the write at the backend
  twin,       \* the backend has an account of this email that is not ours
  aborted,    \* abortController.signal.aborted
  gate,       \* ManualTakeoverGate.#active
  opened,     \* authorization.browserOpenedAt is set
  chrome,     \* Chrome processes of this task that are running
  held,       \* the browserSession variable of execute is defined
  page,       \* the session's page is open
  captured,   \* the page was sent to the callback address
  session,    \* previousGeneratedAuth
  sightings,  \* sessions in which account_deactivated was seen
  detected,   \* deactivationDetectedCount
  proxyTry,   \* proxyAttempt
  round,      \* the OTP round
  resends,    \* #otpResendAttempts of the current browser session
  tries,      \* TOTP codes or passwords submitted so far on this page
  target      \* loadTarget has returned

taskVars == <<stage, code, pc, gated, kind>>
writeVars == <<sent, outcome>>
windowVars == <<chrome, held, page, captured>>
loginVars == <<round, resends, tries>>
oauthVars == <<session, sightings, detected, proxyTry, opened>>
humanVars == <<aborted, gate>>
vars == <<input, taskVars, writeVars, twin, windowVars, loginVars, oauthVars,
          humanVars, target>>

Reauthorizing == input.operation = "reauthorize"
Creating == input.operation = "create"
WithMail == input.material = "email_otp"
Terminal == stage \in TerminalStages

(* The calls execute makes only after it has passed the takeover gate.     *)
PageActions == {"submit_email", "resend", "submit_otp", "submit_password",
                "submit_totp", "submit_consent"}
(* The awaits at which the open page is read or driven. *)
PageCalls == PageActions \union {"classify", "manual_wait"}
(* Mutant: waitForCallback is not given the signal. *)
AbortAwareButCallback == {"resolve_material", "mail_baseline", "browser_start",
                          "wait_otp", "totp_next", "manual_wait"}
(* The awaits that reject when the abort signal fires. *)
AbortAware == {"resolve_material", "mail_baseline", "browser_start",
               "wait_otp", "totp_next", "manual_wait", "wait_callback"}
(* The awaits of the backend writes, see BackendWrites below. *)
Requests == {"apply_put", "create_post", "ban_put", "note_put"}
WriteCalls ==
  Requests \union
  {"write_gate", "apply_read", "apply_confirm", "create_get", "create_lookup",
   "ban_read", "ban_confirm", "note_load", "note_confirm"}
Awaits ==
  {"resolve_material", "load_target", "load_options", "mixed_channel",
   "find_existing", "mail_baseline", "resolve_proxy", "next_proxy",
   "generate_url", "browser_start", "browser_ready", "wait_otp", "totp_next",
   "wait_callback", "retry_close", "locate", "exchange", "reload_target",
   "find_duplicate", "closing", "ended"}
  \union PageCalls \union WriteCalls

WriteKinds == {"create", "apply", "ban", "note"}
Codes == {"none", "error", "needs_note", "session_reused", "illegal",
          "already_started", "refused", "uncertain", "banned"}

TaskTypeOK ==
  /\ stage \in TaskStages
  /\ code \in Codes
  /\ pc \in Awaits
  /\ gated \in BOOLEAN
  /\ kind \in WriteKinds \union {"none"}

RunTypeOK ==
  /\ input \in Inputs
  /\ sent \in Nat
  /\ outcome \in {"unsent", "flying", "limbo", "applied", "refused"}
  /\ twin \in BOOLEAN /\ target \in BOOLEAN
  /\ aborted \in BOOLEAN /\ gate \in BOOLEAN
  /\ opened \in BOOLEAN /\ held \in BOOLEAN
  /\ page \in BOOLEAN /\ captured \in BOOLEAN
  /\ chrome \in Nat
  /\ session \in Sessions \union {NoSession}
  /\ sightings \subseteq Sessions \union {NoSession}
  /\ detected \in 0 .. input.attempts
  /\ proxyTry \in 1 .. DynamicProxyConnectionAttempts
  /\ round \in 1 .. EmailOtpRoundLimit
  /\ resends \in 0 .. OtpResendAttempts
  /\ tries \in 0 .. input.fallbacks + 1

(* The counters of the run stay within the limits the code sets them: the  *)
(* sightings, the proxy attempts, the OTP rounds, the resends, the codes.  *)
TypeOK == TaskTypeOK /\ RunTypeOK
-----------------------------------------------------------------------------
(* How a segment ends. *)

(* Mutant: the outer catch fails a task without looking whether it ended.  *)
FailEnded(c) ==
  /\ stage' = "failed" /\ code' = c
  /\ pc' = "closing" /\ gated' = FALSE /\ kind' = kind

(* machine.transition('failed', ...) in the outer catch: it throws, and    *)
(* leaves the stage alone, when the task has already ended.  In both cases *)
(* the finally clause comes next.                                          *)
Fail(c) ==
  /\ stage' = IF Terminal THEN stage ELSE "failed"
  /\ code' = IF Terminal THEN code ELSE c
  /\ pc' = "closing"
  /\ gated' = FALSE
  /\ kind' = kind

(* beforeBackendWrite, after the transitions in path: one write per task.  *)
AdmitWrite(path, k) ==
  /\ stage' = EndOf(stage, path)
  /\ code' = code
  /\ pc' = "write_gate"
  /\ gated' = FALSE
  /\ kind' = k

(* An error reaches the outer catch of execute.  A task that has ended is  *)
(* left as it is; an error that makes the account of a reauthorization     *)
(* unusable is noted in the account's name first; any other error fails    *)
(* the task.  (TASK_CANCELLED is thrown only after the task was cancelled, *)
(* so the branch that cancels here again never has anything to do.)        *)
Throw(c) ==
  IF c = "needs_note" /\ Reauthorizing /\ target /\ ~Terminal
    THEN IF kind = "none" THEN AdmitWrite(<< >>, "note") ELSE Fail("already_started")
    ELSE Fail(c)

(* The segment makes the transitions in path and suspends at the await     *)
(* next, behind the gate if wait holds.  A transition the state machine    *)
(* refuses, as it does after a cancellation, throws.                       *)
Arrive(path, next, wait) ==
  IF CanFollow(stage, path)
    THEN /\ stage' = EndOf(stage, path)
         /\ pc' = next
         /\ gated' = wait
         /\ UNCHANGED <<code, kind>>
    ELSE Throw("illegal")

Advance(path, next) == Arrive(path, next, FALSE)
(* Mutant: the call is made without asking the gate. *)
AdvancePastGate(path, next) == Arrive(path, next, FALSE)

(* ManualTakeoverGate.wait: it lets the run through while nobody has taken *)
(* over, and only looks at the abort signal when somebody has.             *)
AdvanceToGate(path, next) ==
  IF gate /\ aborted THEN Throw("error") ELSE Arrive(path, next, gate)

(* The segment ends the task with the last stage of path. *)
Finish(path) == Advance(path, "closing")

BeginWrite(path, k) ==
  IF ~CanFollow(stage, path) THEN Throw("illegal")
  ELSE IF kind # "none" THEN Fail("already_started")
  ELSE AdmitWrite(path, k)

(* The call the run awaits has been made. *)
At(p) == pc = p /\ ~gated
Waiting(p) == At(p) /\ (p \in AbortAware => ~aborted)

Init ==
  /\ input \in Inputs
  /\ stage = "validating" /\ code = "none"
  /\ pc = "resolve_material" /\ gated = FALSE
  /\ kind = "none" /\ sent = 0 /\ outcome = "unsent" /\ twin \in BOOLEAN
  /\ aborted = FALSE /\ gate = FALSE
  /\ opened = FALSE /\ chrome = 0 /\ held = FALSE /\ page = FALSE /\ captured = FALSE
  /\ session = NoSession /\ sightings = {} /\ detected = 0 /\ proxyTry = 1
  /\ round = 1 /\ resends = 0 /\ tries = 0
  /\ target = FALSE
-----------------------------------------------------------------------------
(* Preparation: material, target account, options, duplicates, mail        *)
(* baseline, proxy.                                                        *)

prepUnchanged == UNCHANGED <<input, writeVars, twin, windowVars, loginVars,
                             oauthVars, humanVars>>

(* The end of every preparation: the proxy.  A reauthorization without a   *)
(* proxy awaits no resolver.                                               *)
AdvanceToProxy(path) ==
  IF Reauthorizing /\ input.proxy = "direct"
    THEN Advance(path \o <<"resolving_proxy", "generating_auth_url">>, "generate_url")
    ELSE Advance(path \o <<"resolving_proxy">>, "resolve_proxy")

AdvanceToMail(path) ==
  IF WithMail THEN Advance(path \o <<"mail_baseline">>, "mail_baseline")
              ELSE AdvanceToProxy(path)

MaterialResolved ==
  /\ Waiting("resolve_material")
  /\ IF Reauthorizing THEN Advance(<<"loading_target_account">>, "load_target")
                      ELSE Advance(<<"loading_options">>, "load_options")
  /\ UNCHANGED target /\ prepUnchanged

TargetLoaded ==
  /\ Waiting("load_target")
  /\ target' = TRUE
  /\ IF input.proxy = "direct" THEN AdvanceToMail(<<"loading_options">>)
                               ELSE Advance(<<"loading_options">>, "load_options")
  /\ prepUnchanged

OptionsLoaded ==
  /\ Waiting("load_options")
  /\ IF Creating THEN Advance(<<"checking_existing">>, "mixed_channel")
                 ELSE AdvanceToMail(<< >>)
  /\ UNCHANGED target /\ prepUnchanged

MixedChannelChecked ==
  /\ Waiting("mixed_channel")
  /\ IF input.allowDuplicateCreation THEN AdvanceToMail(<< >>)
                                     ELSE Advance(<< >>, "find_existing")
  /\ UNCHANGED target /\ prepUnchanged

ExistingChecked ==
  /\ Waiting("find_existing")
  /\ IF twin THEN Finish(<<"already_exists">>) ELSE AdvanceToMail(<< >>)
  /\ UNCHANGED target /\ prepUnchanged

BaselineEstablished ==
  /\ Waiting("mail_baseline")
  /\ AdvanceToProxy(<< >>)
  /\ UNCHANGED target /\ prepUnchanged

ProxyResolved ==
  /\ Waiting("resolve_proxy")
  /\ Advance(<<"generating_auth_url">>, "generate_url")
  /\ UNCHANGED target /\ prepUnchanged
-----------------------------------------------------------------------------
(* startAuthorizationAttempt and startAuthorizationWithProxyRetries.       *)

(* Mutant: a session is not compared with any other. *)
AnySession(s) == FALSE

(* From the second authorization on a generated session is compared with   *)
(* the one generated just before it.                                       *)
SessionReused(s) == detected > 0 /\ s = session

UrlGenerated(s) ==
  /\ Waiting("generate_url")
  /\ IF SessionReused(s)
       THEN Throw("session_reused") /\ UNCHANGED <<session, opened>>
       ELSE /\ session' = s
            /\ opened' = FALSE
            /\ Advance(<<"authorization_url_received">>, "browser_start")
  /\ UNCHANGED <<input, writeVars, twin, windowVars, loginVars, sightings,
                 detected, proxyTry, humanVars, target>>

(* Chrome runs and onBrowserStarted is called.                             *)
BrowserStarted ==
  /\ Waiting("browser_start") /\ chrome = 0
  /\ stage = "authorization_url_received"
  /\ chrome' = chrome + 1 /\ opened' = TRUE
  /\ Advance(<<"browser_started">>, "browser_start")
  /\ UNCHANGED <<input, writeVars, twin, held, page, captured, loginVars,
                 session, sightings, detected, proxyTry, humanVars, target>>

(* The first navigation ends and onAuthorizationUrlOpened is called: it    *)
(* does nothing when the task has been cancelled meanwhile.  The driver    *)
(* does not look at the signal again before it returns the session.        *)
UrlOpened ==
  /\ At("browser_start") /\ chrome = 1
  /\ page' = TRUE
  /\ IF stage = "browser_started"
       THEN Advance(<<"authorization_url_opened">>, "browser_ready")
       ELSE Advance(<< >>, "browser_ready")
  /\ UNCHANGED <<input, writeVars, twin, chrome, held, captured, loginVars,
                 oauthVars, humanVars, target>>

(* browser.start returns and the main loop asks the gate before the email. *)
BrowserReady ==
  /\ At("browser_ready")
  /\ held' = TRUE
  /\ resends' = 0
  /\ AdvanceToGate(<< >>, "submit_email")
  /\ UNCHANGED <<input, writeVars, twin, chrome, page, captured, round, tries,
                 oauthVars, humanVars, target>>

(* Mutant: one attempt too many. *)
ProxyReplaceableOnceMore ==
  /\ Creating /\ input.proxy = "dynamic"
  /\ proxyTry <= DynamicProxyConnectionAttempts

(* A dynamic proxy that cannot connect is replaced, twice at most. *)
ProxyReplaceable ==
  /\ Creating /\ input.proxy = "dynamic"
  /\ proxyTry < DynamicProxyConnectionAttempts

(* browser.start fails and closes what it had opened.                      *)
BrowserStartFails(proxyFailed) ==
  /\ At("browser_start") \/ (At("browser_ready") /\ ~proxyFailed)
  /\ chrome' = 0 /\ page' = FALSE /\ captured' = FALSE
  /\ IF proxyFailed /\ ~aborted /\ ProxyReplaceable
       THEN Advance(<<"resolving_proxy">>, "next_proxy")
       ELSE Throw("error")
  /\ UNCHANGED <<input, writeVars, twin, held, loginVars, oauthVars, humanVars,
                 target>>

NextProxyFound ==
  /\ Waiting("next_proxy")
  /\ proxyTry' = proxyTry + 1
  /\ Advance(<<"generating_auth_url">>, "generate_url")
  /\ UNCHANGED <<input, writeVars, twin, windowVars, loginVars, session,
                 sightings, detected, opened, humanVars, target>>
-----------------------------------------------------------------------------
(* The main loop: email, OTP or password and TOTP, consent, callback.      *)

loginUnchanged == UNCHANGED <<input, writeVars, twin, windowVars, oauthVars,
                              humanVars, target>>

AskHuman == Advance(<<"manual_intervention">>, "manual_wait")
AdvanceToConsent(path) ==
  AdvanceToGate(path \o <<"waiting_for_consent">>, "submit_consent")
AdvanceToCallback(path) ==
  AdvanceToGate(path \o <<"waiting_for_callback">>, "wait_callback")

(* A page call can succeed while the page is there or once the callback    *)
(* has been captured.                                                      *)
PageAnswers(p) == Waiting(p) /\ (page \/ captured)

EmailSubmitted ==
  /\ PageAnswers("submit_email")
  /\ IF WithMail
       THEN /\ round' = 1 /\ UNCHANGED tries
            /\ Advance(<<"email_submitted", "waiting_for_otp">>, "wait_otp")
       ELSE /\ tries' = 0 /\ UNCHANGED round
            /\ AdvanceToGate(<<"email_submitted", "waiting_for_password">>, "submit_password")
  /\ UNCHANGED resends /\ loginUnchanged

OtpFound ==
  /\ Waiting("wait_otp")
  /\ AdvanceToGate(<< >>, "submit_otp")
  /\ UNCHANGED loginVars /\ loginUnchanged

OtpRoundEnds ==
  /\ Waiting("wait_otp")
  /\ IF round = EmailOtpRoundLimit THEN AskHuman
     ELSE AdvanceToGate(<<IF round = 1 THEN "resending_otp" ELSE "resending_otp_second">>, "resend")
  /\ UNCHANGED loginVars /\ loginUnchanged

(* resendOtp: at most OtpResendAttempts times per browser session, a       *)
(* person has to help after that.  The code may turn out to be accepted    *)
(* already; otherwise the next round of polling starts.                    *)
ResendAnswered ==
  /\ PageAnswers("resend")
  /\ resends < OtpResendAttempts
  /\ resends' = resends + 1
  /\ \/ captured /\ AdvanceToCallback(<< >>) /\ UNCHANGED round
     \/ page /\ AdvanceToConsent(<<"otp_submitted">>) /\ UNCHANGED round
     \/ page /\ AskHuman /\ UNCHANGED round
     \/ /\ page
        /\ round' = round + 1
        /\ Advance(<<IF round = 1 THEN "waiting_for_otp_retry" ELSE "waiting_for_otp_third">>, "wait_otp")
  /\ UNCHANGED tries /\ loginUnchanged

ResendBudgetSpent ==
  /\ Waiting("resend") /\ resends = OtpResendAttempts
  /\ AskHuman
  /\ UNCHANGED loginVars /\ loginUnchanged

OtpAccepted ==
  /\ PageAnswers("submit_otp")
  /\ AdvanceToConsent(<<"otp_submitted">>)
  /\ UNCHANGED loginVars /\ loginUnchanged

PasswordAccepted ==
  /\ PageAnswers("submit_password")
  /\ Advance(<<"password_submitted">>, "classify")
  /\ UNCHANGED loginVars /\ loginUnchanged

(* submitNextPassword first updates the task's message, which throws once  *)
(* the task has ended.                                                     *)
PasswordRefused ==
  /\ Waiting("submit_password") /\ page
  /\ IF Terminal THEN Throw("illegal") /\ UNCHANGED tries
     ELSE IF tries < input.fallbacks
       THEN AdvanceToGate(<< >>, "submit_password") /\ tries' = tries + 1
       ELSE AskHuman /\ UNCHANGED tries
  /\ UNCHANGED <<round, resends>> /\ loginUnchanged

PageClassified ==
  /\ Waiting("classify")
  /\ \/ captured /\ AdvanceToCallback(<< >>) /\ UNCHANGED tries
     \/ page /\ AdvanceToConsent(<< >>) /\ UNCHANGED tries
     \/ page /\ Advance(<<"waiting_for_totp">>, "totp_next") /\ tries' = 0
  /\ UNCHANGED <<round, resends>> /\ loginUnchanged

TotpGenerated ==
  /\ Waiting("totp_next")
  /\ AdvanceToGate(<< >>, "submit_totp")
  /\ UNCHANGED loginVars /\ loginUnchanged

(* Mutant: one more code as long as the form is still there. *)
TotpRetriedForever ==
  /\ Waiting("submit_totp") /\ page
  /\ Advance(<< >>, "totp_next") /\ tries' = 1
  /\ UNCHANGED <<round, resends>> /\ loginUnchanged

(* The form is still there: one more code, from the next period.           *)
TotpStillActive ==
  /\ Waiting("submit_totp") /\ page
  /\ IF tries = 0 THEN Advance(<< >>, "totp_next") /\ tries' = 1
                  ELSE Throw("error") /\ UNCHANGED tries
  /\ UNCHANGED <<round, resends>> /\ loginUnchanged

(* Mutant: the stage totp_submitted is skipped. *)
TotpAcceptedSilently ==
  /\ PageAnswers("submit_totp")
  /\ AdvanceToConsent(<< >>)
  /\ UNCHANGED loginVars /\ loginUnchanged

TotpAccepted ==
  /\ PageAnswers("submit_totp")
  /\ AdvanceToConsent(<<"totp_submitted">>)
  /\ UNCHANGED loginVars /\ loginUnchanged

ConsentSubmitted ==
  /\ PageAnswers("submit_consent")
  /\ AdvanceToCallback(<<"consent_submitted">>)
  /\ UNCHANGED loginVars /\ loginUnchanged

(* Any page call may find a page it cannot handle. *)
PageNeedsHuman(p) ==
  /\ Waiting(p) /\ page
  /\ AskHuman
  /\ UNCHANGED loginVars /\ loginUnchanged

(* waitForManualProgress: the person has moved the page on.  A captured    *)
(* callback is awaited without asking the gate.                            *)
HumanProgressed ==
  /\ Waiting("manual_wait")
  /\ \/ captured /\ Advance(<<"waiting_for_callback">>, "wait_callback")
     \/ page /\ AdvanceToConsent(<< >>)
     \/ page /\ AdvanceToGate(<<"authorization_url_opened">>, "submit_email")
  /\ UNCHANGED loginVars /\ loginUnchanged

CallbackReceived ==
  /\ Waiting("wait_callback") /\ captured
  /\ Advance(<<"exchanging_code">>, "exchange")
  /\ UNCHANGED loginVars /\ loginUnchanged
-----------------------------------------------------------------------------
(* account_deactivated: the retry with a new session, or the confirmation. *)

deactivationUnchanged == UNCHANGED <<input, writeVars, twin, loginVars,
                                     humanVars, target>>

(* A page call or the monitor of waitForCallback reads account_deactivated *)
(* off the page.                                                           *)
DeactivationSeen(p) ==
  /\ Waiting(p) /\ page
  /\ p = "wait_callback" => ~captured
  /\ detected' = detected + 1
  /\ sightings' = sightings \union {session}
  /\ IF detected + 1 < input.attempts
       THEN Advance(<<"account_deactivated_retrying">>, "retry_close")
       ELSE LET confirmed == <<"account_deactivated_confirmed",
                               "locating_deactivated_account">>
            IN IF Creating
                 THEN Advance(confirmed, "locate")
                 ELSE BeginWrite(confirmed \o <<"marking_account_banned">>, "ban")
  /\ UNCHANGED <<windowVars, session, proxyTry, opened>> /\ deactivationUnchanged

(* Mutant: the session is dropped without being closed. *)
SessionForgotten ==
  /\ held' = FALSE /\ page' = FALSE /\ captured' = FALSE /\ chrome' = chrome

(* OAuthBrowserSession.close, and the variable that held the session.      *)
SessionClosed ==
  /\ held' = FALSE /\ page' = FALSE /\ captured' = FALSE /\ chrome' = 0

RetryClosed ==
  /\ At("retry_close")
  /\ SessionClosed
  /\ proxyTry' = 1
  /\ Advance(<<"generating_auth_url">>, "generate_url")
  /\ UNCHANGED <<session, sightings, detected, opened>> /\ deactivationUnchanged

(* locateCreateTarget finds exactly one account of this email; none or     *)
(* several fail the task (CallFails).                                      *)
BanTargetLocated ==
  /\ Waiting("locate")
  /\ BeginWrite(<<"marking_account_banned">>, "ban")
  /\ UNCHANGED <<windowVars, oauthVars>> /\ deactivationUnchanged
-----------------------------------------------------------------------------
(* After the callback: code exchange, last checks, the write.              *)

exchangeUnchanged == UNCHANGED <<input, windowVars, loginVars, oauthVars,
                                 humanVars, target>>

CodeExchanged ==
  /\ Waiting("exchange")
  /\ IF Reauthorizing THEN Advance(<< >>, "reload_target")
     ELSE IF input.allowDuplicateCreation
       THEN BeginWrite(<<"checking_duplicate", "creating_account">>, "create")
       ELSE Advance(<<"checking_duplicate">>, "find_duplicate")
  /\ UNCHANGED <<writeVars, twin>> /\ exchangeUnchanged

TargetReloaded ==
  /\ Waiting("reload_target")
  /\ BeginWrite(<<"applying_oauth_credentials">>, "apply")
  /\ UNCHANGED <<writeVars, twin>> /\ exchangeUnchanged

DuplicateChecked ==
  /\ Waiting("find_duplicate")
  /\ IF twin THEN Finish(<<"already_exists">>)
             ELSE BeginWrite(<<"creating_account">>, "create")
  /\ UNCHANGED <<writeVars, twin>> /\ exchangeUnchanged

(* The write request goes out; its fate is open until the reply. *)
Send(request) ==
  /\ Advance(<< >>, request)
  /\ sent' = sent + 1
  /\ outcome' = "flying"

(* Mutant: the credentials are reported as written when the hook agreed.   *)
WriteSkipped ==
  /\ Waiting("write_gate") /\ kind = "apply"
  /\ Finish(<<"confirming_reauthorization", "completed">>)
  /\ UNCHANGED <<writeVars, twin>> /\ exchangeUnchanged

(* The hook given to beforeBackendWrite agrees.  A ban and a note read the *)
(* account before they write.                                              *)
WriteAdmitted ==
  /\ Waiting("write_gate")
  /\ \/ kind = "apply" /\ Send("apply_put")
     \/ kind = "create" /\ Send("create_post")
     \/ kind = "ban" /\ Advance(<< >>, "ban_read") /\ UNCHANGED writeVars
     \/ kind = "note" /\ Advance(<< >>, "note_load") /\ UNCHANGED writeVars
  /\ UNCHANGED twin /\ exchangeUnchanged

(* AccountReauthorizer.applyAndConfirm: one PUT.  Only a reply that leaves *)
(* the result open is followed by a confirming GET; after a good reply the *)
(* account is read again and whatever that gives is ignored.               *)
ApplyReplied ==
  /\ Waiting("apply_put")
  /\ \/ outcome' = "applied" /\ Advance(<<"confirming_reauthorization">>, "apply_read")
     \/ outcome' = "refused" /\ Fail("refused")
     \/ outcome' = "limbo" /\ Advance(<<"reauthorization_result_uncertain">>, "apply_confirm")
     \/ outcome' = "limbo" /\ Fail("uncertain")     \* the reply names another account
  /\ UNCHANGED <<sent, twin>> /\ exchangeUnchanged

ApplyRead ==
  /\ Waiting("apply_read")
  /\ Finish(<<"completed">>)
  /\ UNCHANGED <<writeVars, twin>> /\ exchangeUnchanged

(* Mutant: an unconfirmed update is sent again. *)
ApplyResent ==
  /\ Waiting("apply_confirm")
  /\ \/ outcome = "applied" /\ Finish(<<"completed">>) /\ UNCHANGED writeVars
     \/ Send("apply_put")
  /\ UNCHANGED twin /\ exchangeUnchanged

ApplyConfirmed ==
  /\ Waiting("apply_confirm")
  /\ \/ outcome = "applied" /\ Finish(<<"completed">>)
     \/ Fail("uncertain")
  /\ UNCHANGED <<writeVars, twin>> /\ exchangeUnchanged

(* AccountCreator.createAndConfirm: a POST and a GET of the new account.   *)
(* Only a network error or a timeout of one of the two counts as           *)
(* uncertain (isUncertainCreateError); a 5xx status or an unreadable body  *)
(* fails the task like a refusal.                                          *)
CreateUncertain ==
  IF input.allowDuplicateCreation
    THEN Fail("uncertain")
    ELSE Advance(<<"create_result_uncertain">>, "create_lookup")

CreateReplied ==
  /\ Waiting("create_post")
  /\ \/ outcome' = "applied" /\ Advance(<< >>, "create_get")
     \/ outcome' = "refused" /\ Fail("refused")
     \/ outcome' = "limbo" /\ Throw("error")
     \/ outcome' = "limbo" /\ CreateUncertain
  /\ UNCHANGED <<sent, twin>> /\ exchangeUnchanged

CreateRead ==
  /\ Waiting("create_get")
  /\ \/ Finish(<<"confirming_account", "completed">>)
     \/ Throw("error")
     \/ CreateUncertain
  /\ UNCHANGED <<writeVars, twin>> /\ exchangeUnchanged

CreateLookedUp ==
  /\ Waiting("create_lookup")
  /\ \/ (outcome = "applied" \/ twin) /\ Finish(<<"completed">>)
     \/ Fail("uncertain")
  /\ UNCHANGED <<writeVars, twin>> /\ exchangeUnchanged

(* AccountDeactivationManager.markBanned: a GET, one PUT, and a GET that   *)
(* alone decides.  The task fails in every case; "banned" is the good end. *)
BanRead ==
  /\ Waiting("ban_read")
  /\ \/ Fail("banned") /\ UNCHANGED writeVars       \* it was banned already
     \/ Send("ban_put")
  /\ UNCHANGED twin /\ exchangeUnchanged

BanReplied ==
  /\ Waiting("ban_put")
  /\ \/ outcome' \in {"applied", "limbo"} /\ Advance(<< >>, "ban_confirm")
     \/ outcome' = "refused" /\ Fail("refused")
     \/ outcome' = "applied" /\ Fail("refused")     \* the reply names another account
  /\ UNCHANGED <<sent, twin>> /\ exchangeUnchanged

(* Mutant: the reply to the PUT is taken for the result. *)
BanBelieved ==
  /\ Waiting("ban_confirm") /\ Fail("banned")
  /\ UNCHANGED <<writeVars, twin>> /\ exchangeUnchanged

BanConfirmed ==
  /\ Waiting("ban_confirm")
  /\ \/ outcome = "applied" /\ Fail("banned")
     \/ Fail("uncertain")
  /\ UNCHANGED <<writeVars, twin>> /\ exchangeUnchanged

(* AccountReauthorizer.appendNameSuffix and updateName: a GET, one PUT     *)
(* unless the name is right already, and a confirming GET when the reply   *)
(* leaves the result open.                                                 *)
NoteLoaded ==
  /\ Waiting("note_load")
  /\ \/ Fail("needs_note") /\ UNCHANGED writeVars
     \/ Send("note_put")
  /\ UNCHANGED twin /\ exchangeUnchanged

NoteReplied ==
  /\ Waiting("note_put")
  /\ \/ outcome' = "applied" /\ Fail("needs_note")
     \/ outcome' = "refused" /\ Fail("refused")
     \/ outcome' = "limbo" /\ Advance(<< >>, "note_confirm")
  /\ UNCHANGED <<sent, twin>> /\ exchangeUnchanged

(* Mutant: an unconfirmed note is reported as refused. *)
NoteDenied ==
  /\ Waiting("note_confirm")
  /\ \/ outcome = "applied" /\ Fail("needs_note")
     \/ Fail("refused")
  /\ UNCHANGED <<writeVars, twin>> /\ exchangeUnchanged

NoteConfirmed ==
  /\ Waiting("note_confirm")
  /\ \/ outcome = "applied" /\ Fail("needs_note")
     \/ Fail("uncertain")
  /\ UNCHANGED <<writeVars, twin>> /\ exchangeUnchanged
-----------------------------------------------------------------------------
(* Failures, the end of the run, people and the environment.               *)

Fallible == {"resolve_material", "load_target", "load_options", "mixed_channel",
             "find_existing", "mail_baseline", "resolve_proxy", "next_proxy",
             "generate_url", "wait_otp", "totp_next", "locate", "exchange",
             "reload_target", "find_duplicate", "write_gate", "ban_read",
             "note_load", "wait_callback"} \union PageCalls
(* The waits that end only when a person or the provider acts.             *)
Waits == {"manual_wait", "wait_callback"}

(* The error classes an awaited call may reject with.  A mailbox that is   *)
(* gone shows while mail is read, a phone or mail verification on a page.  *)
FailureCodes(p) ==
  {"error"} \union
  (IF p \in {"mail_baseline", "wait_otp"} \/ (p \in PageCalls /\ page)
     THEN {"needs_note"} ELSE {})

(* waitForCallback rejects when CallbackCapture refused what was captured, *)
(* or when the page was closed while the monitor paused; BrowserPages has  *)
(* the closings that leave it without an end.                              *)
CallFails(p) ==
  /\ Waiting(p)
  /\ p = "wait_callback" => captured \/ ~page
  /\ \E c \in FailureCodes(p) : Throw(c)
  /\ UNCHANGED <<input, writeVars, twin, windowVars, loginVars, oauthVars,
                 humanVars, target>>

(* The abort signal ends the await.  browser.start closes what it opened,  *)
(* see BrowserStartFails.                                                  *)
AbortSeen(p) ==
  /\ aborted /\ At(p)
  /\ Throw("error")
  /\ UNCHANGED <<input, writeVars, twin, windowVars, loginVars, oauthVars,
                 humanVars, target>>

(* The finally clause closes the browser the run holds and the slot is     *)
(* free again.                                                             *)
Closed ==
  /\ At("closing")
  /\ pc' = "ended"
  /\ IF held THEN SessionClosed ELSE UNCHANGED windowVars
  /\ UNCHANGED <<input, stage, code, gated, kind, writeVars, twin, loginVars,
                 oauthVars, humanVars, target>>

(* TaskOrchestrator.cancel.  A run that waits at the gate is woken by the  *)
(* abort in the same turn of the event loop.                               *)
Cancel ==
  /\ pc # "ended" /\ CanCancel(stage)
  /\ stage' = "cancelled"
  /\ aborted' = TRUE
  /\ IF gated THEN pc' = "closing" /\ gated' = FALSE ELSE UNCHANGED <<pc, gated>>
  /\ UNCHANGED <<input, code, kind, writeVars, twin, windowVars, loginVars,
                 oauthVars, gate, target>>

TakeOver ==
  /\ pc # "ended" /\ opened /\ CanCancel(stage)
  /\ ~gate /\ gate' = TRUE
  /\ UNCHANGED <<input, taskVars, writeVars, twin, windowVars, loginVars,
                 oauthVars, aborted, target>>

(* The gate opens and the call behind it is made in the same turn. *)
ReleaseTakeover ==
  /\ pc # "ended" /\ gate /\ gate' = FALSE
  /\ gated' = FALSE
  /\ UNCHANGED <<input, stage, code, pc, kind, writeVars, twin, windowVars,
                 loginVars, oauthVars, aborted, target>>

UserClosesPage ==
  /\ page /\ page' = FALSE
  /\ UNCHANGED <<input, taskVars, writeVars, twin, chrome, held, captured,
                 loginVars, oauthVars, humanVars, target>>

(* The page is sent to the callback address of this session. *)
CallbackCaptured ==
  /\ page /\ ~captured /\ captured' = TRUE
  /\ UNCHANGED <<input, taskVars, writeVars, twin, chrome, held, page,
                 loginVars, oauthVars, humanVars, target>>

(* Somebody else creates an account with this email. *)
TwinAppears ==
  /\ Creating /\ ~twin /\ twin' = TRUE /\ pc # "ended"
  /\ UNCHANGED <<input, taskVars, writeVars, windowVars, loginVars, oauthVars,
                 humanVars, target>>

(* A write whose reply was lost takes effect after all. *)
LimboLands ==
  /\ outcome = "limbo" /\ outcome' = "applied"
  /\ UNCHANGED <<input, taskVars, sent, twin, windowVars, loginVars, oauthVars,
                 humanVars, target>>

(* The service stops at any point and starts again: markActiveTasks-       *)
(* Interrupted.  Chrome may survive; a request on the wire may arrive.     *)
Restart ==
  /\ pc # "ended" /\ pc' = "ended"
  /\ stage' = IF Terminal THEN stage ELSE "interrupted"
  /\ gated' = FALSE /\ gate' = FALSE /\ held' = FALSE
  /\ outcome' = IF outcome = "flying" THEN "limbo" ELSE outcome
  /\ chrome' \in {0, chrome} /\ page' = FALSE /\ captured' = FALSE
  /\ UNCHANGED <<input, code, kind, sent, twin, loginVars, oauthVars, aborted,
                 target>>

Terminated == pc = "ended" /\ UNCHANGED vars
-----------------------------------------------------------------------------
Preparation ==
  \/ MaterialResolved \/ TargetLoaded \/ OptionsLoaded \/ MixedChannelChecked
  \/ ExistingChecked \/ BaselineEstablished \/ ProxyResolved
  \/ \E s \in Sessions : UrlGenerated(s)
  \/ BrowserStarted \/ UrlOpened \/ BrowserReady
  \/ \E proxyFailed \in BOOLEAN : BrowserStartFails(proxyFailed)
  \/ NextProxyFound

Login ==
  \/ EmailSubmitted \/ OtpFound \/ OtpRoundEnds \/ ResendAnswered
  \/ ResendBudgetSpent \/ OtpAccepted \/ PasswordAccepted \/ PasswordRefused
  \/ PageClassified \/ TotpGenerated \/ TotpStillActive \/ TotpAccepted
  \/ ConsentSubmitted \/ CallbackReceived
  \/ \E p \in (PageActions \union {"classify"}) \ {"resend"} : PageNeedsHuman(p)
  \/ \E p \in PageActions \union {"classify"} : DeactivationSeen(p)

BackendWrites ==
  \/ RetryClosed \/ BanTargetLocated \/ CodeExchanged \/ TargetReloaded
  \/ DuplicateChecked \/ WriteAdmitted
  \/ ApplyReplied \/ ApplyRead \/ ApplyConfirmed
  \/ CreateReplied \/ CreateRead \/ CreateLookedUp
  \/ BanRead \/ BanReplied \/ BanConfirmed
  \/ NoteLoaded \/ NoteReplied \/ NoteConfirmed

(* What the service does by itself: every call it awaits here is bounded   *)
(* by a timeout or answers the abort signal.                               *)
Automation ==
  \/ Preparation \/ Login \/ BackendWrites \/ Closed
  \/ \E p \in Fallible \ Waits : CallFails(p)
  \/ \E p \in AbortAware \ {"browser_start"} : AbortSeen(p)

Provider ==
  \/ HumanProgressed
  \/ \E p \in Waits : CallFails(p) \/ DeactivationSeen(p)

People == Cancel \/ TakeOver \/ ReleaseTakeover \/ UserClosesPage
Environment == CallbackCaptured \/ TwinAppears \/ LimboLands \/ Restart

Next == Automation \/ Provider \/ People \/ Environment \/ Terminated

Spec == Init /\ [][Next]_vars

(* Nothing makes a person act, the provider answer or the service crash.   *)
(* waitForManualProgress notices by itself that the page is gone.          *)
Fairness ==
  /\ WF_vars(Automation)
  /\ WF_vars(CallFails("manual_wait") /\ ~page)

FairSpec == Spec /\ Fairness
-----------------------------------------------------------------------------
(* Safety.                                                                 *)

(* At most one write request leaves the service for the whole task, of     *)
(* whatever kind: no reply, however bad, makes it send again.              *)
WriteAtMostOnce == sent <= 1

(* A cancelled task has created, updated or banned no account; the one     *)
(* write that can stand beside a cancellation is the note in the name.     *)
CancelledWroteNothing == stage = "cancelled" => kind \in {"none", "note"}

(* A task that reports success has changed the backend: its own write took *)
(* effect, or another account of the same email is there, which the lookup *)
(* after an uncertain create cannot tell from its own.                     *)
SuccessIsReal ==
  /\ stage = "completed" => outcome = "applied" \/ (kind = "create" /\ twin)
  /\ code = "banned" /\ sent = 1 => outcome = "applied"

(* When a credential update or a note may have reached the backend, the    *)
(* failed task says so: it does not claim a refusal.                       *)
FailureIsHonest ==
  stage = "failed" /\ kind \in {"apply", "note"} /\ outcome \in {"applied", "limbo"}
    => code \in {"uncertain", "needs_note"}

(* The orchestrator never asks the state machine for a transition its      *)
(* table forbids, whatever the pages show and in whatever order.           *)
OnlyLegalTransitions == code # "illegal"

(* A ban is written only after as many sightings as the settings ask for,  *)
(* and with two sightings on a steady proxy they come from two sessions.   *)
BanIsConfirmed ==
  kind = "ban" =>
    /\ detected = input.attempts
    /\ input.attempts = 2 /\ input.proxy # "dynamic" => Cardinality(sightings) = 2

(* There is never a second Chrome, and while the run goes on somebody will *)
(* close the one there is: execute holds it or browser.start is active.    *)
ChromeIsOwned ==
  /\ chrome <= 1
  /\ chrome > 0 /\ pc # "ended" => held \/ pc \in {"browser_start", "browser_ready"}

(* Action properties.                                                      *)

PageActionBegins == /\ pc' \in PageActions /\ ~gated'
                    /\ pc' # pc \/ gated

(* While a person has taken over, the service types and clicks nothing     *)
(* new.                                                                    *)
TakeoverHoldsPageActions == [][gate /\ gate' => ~PageActionBegins]_vars

(* An ended task keeps its stage and its error. *)
EndIsFinal == [][Terminal => stage' = stage /\ code' = code]_vars

(* The task as those outside see it: TaskRun implements TaskLifecycle.     *)
StatusOf(s) ==
  CASE s \in {"completed", "already_exists"} -> "succeeded"
    [] s \in {"failed", "cancelled", "interrupted"} -> s
    [] OTHER -> "active"

Lifecycle == INSTANCE TaskLifecycle
  WITH Writes <- WriteKinds \ {"note"}, status <- StatusOf(stage), write <- kind

(* Every step of a run is one step of the promise or invisible in it: the  *)
(* write is chosen once and sent once, no end is taken back, success is    *)
(* never reported of a write that was not sent.                            *)
KeepsItsPromise == Lifecycle!LifecycleSpec

(* Liveness.                                                               *)

(* A cancelled run ends, wherever it was suspended and even at the gate.   *)
CancelEnds == aborted ~> pc = "ended"

(* The service never waits for nothing: again and again the run has ended  *)
(* or a person is in charge of the next step.                              *)
NeverStuck == []<>(pc = "ended" \/ gate \/ pc \in Waits)
=============================================================================
