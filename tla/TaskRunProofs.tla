--------------------------- MODULE TaskRunProofs ---------------------------
(***************************************************************************)
(* Theorems about TaskRun, for every set of inputs and of OAuth sessions.  *)
(*                                                                         *)
(* IInv strengthens the type invariant and the two safety properties until *)
(* they are inductive.  It says where the run can be while a counter has   *)
(* reached its limit, and how the admitted write, the requests on the wire *)
(* and the stage hang together.                                            *)
(***************************************************************************)
EXTENDS TaskRun, FiniteSetTheorems, TLAPS

(* Where a write has been admitted and its request is still to be sent. *)
BeforeRequest == {"write_gate", "ban_read", "note_load"}
AfterRun == {"closing", "ended"}

(* A counter that has reached its limit is not counted again. *)
CounterInv ==
  /\ detected = input.attempts => pc \in {"locate"} \union WriteCalls \union AfterRun
  /\ pc = "resend" => round < EmailOtpRoundLimit
  /\ pc = "next_proxy" => proxyTry < DynamicProxyConnectionAttempts

WriteInv ==
  /\ sent <= 1
  /\ kind = "none" => sent = 0 /\ pc \notin WriteCalls
  /\ kind # "none" => pc \in WriteCalls \union AfterRun
  /\ pc \in BeforeRequest => sent = 0
  /\ kind \in {"create", "apply", "ban"} =>
       stage \in WriteStages \union (TerminalStages \ {"cancelled"})

IInv == TypeOK /\ CounterInv /\ WriteInv
-----------------------------------------------------------------------------
(* What the helpers that end a segment do. *)

(* The run goes on at one of the awaits in N, or to its end. *)
Moved(N, S) ==
  /\ kind' = kind
  /\ pc' \in N \union {"closing"}
  /\ stage' \in S \union {stage, "failed"}

(* A write of kind k has been admitted, in a stage of S. *)
Admitted(k, S) ==
  /\ kind = "none" /\ kind' = k
  /\ pc' = "write_gate"
  /\ stage' \in S

(* An ended task is left alone. *)
KeepsEnd == Terminal => stage' = stage /\ code' = code

(* Failing a task types, leaves an ended one alone, and goes to the        *)
(* finally clause.                                                         *)
LEMMA FailFacts ==
  ASSUME TaskTypeOK, NEW c \in Codes, Fail(c)
  PROVE  TaskTypeOK' /\ KeepsEnd /\ Moved({}, {})
BY DEF TaskTypeOK, Fail, KeepsEnd, Moved, Terminal, Awaits, TaskStages,
       NonCancellableStages, TerminalStages

(* An error does the same, or sends the run to note it in the account's    *)
(* name.                                                                   *)
LEMMA ThrowFacts ==
  ASSUME TaskTypeOK, NEW c \in Codes, Throw(c)
  PROVE  /\ TaskTypeOK' /\ KeepsEnd
         /\ \/ Moved({}, {})
            \/ c = "needs_note" /\ Admitted("note", {stage})
<1>1. CASE Fail(c) \/ Fail("already_started")
  BY <1>1, FailFacts DEF Codes
<1>2. CASE AdmitWrite(<< >>, "note") /\ kind = "none" /\ ~Terminal /\ c = "needs_note"
  BY <1>2 DEF AdmitWrite, EndOf, Admitted, KeepsEnd, TaskTypeOK, Awaits,
              WriteCalls, WriteKinds
<1>3. QED BY <1>1, <1>2 DEF Throw

(* A path of stages ends in a stage.                                       *)
LEMMA EndOfType ==
  ASSUME NEW from \in TaskStages, NEW path \in Seq(TaskStages)
  PROVE  EndOf(from, path) \in TaskStages
BY DEF EndOf

(* A nonempty path cannot be followed from the end of a task. *)
LEMMA NoWayOn ==
  ASSUME NEW from, NEW path, path # << >>, CanFollow(from, path)
  PROVE  from \notin TerminalStages
BY DEF CanFollow, CanTransition

(* A segment reaches its await, or the end when the state machine refuses  *)
(* its path.                                                               *)
LEMMA ArriveFacts ==
  ASSUME TaskTypeOK, NEW path \in Seq(TaskStages), NEW next \in Awaits,
         NEW wait \in BOOLEAN, Arrive(path, next, wait)
  PROVE  /\ TaskTypeOK' /\ KeepsEnd
         /\ Moved({next}, {EndOf(stage, path)})
<1>1. CASE CanFollow(stage, path)
  <2>1. EndOf(stage, path) \in TaskStages
    BY EndOfType DEF TaskTypeOK
  <2>2. TaskTypeOK'
    BY <1>1, <2>1 DEF Arrive, TaskTypeOK
  <2>3. KeepsEnd
    BY <1>1, NoWayOn DEF Arrive, KeepsEnd, Terminal, EndOf
  <2>4. QED BY <1>1, <2>2, <2>3 DEF Arrive, Moved
<1>2. CASE ~CanFollow(stage, path)
  <2>1. Throw("illegal") BY <1>2 DEF Arrive
  <2>2. QED BY <2>1, ThrowFacts DEF Codes, Moved
<1>3. QED BY <1>1, <1>2

(* The same for a segment that does not ask the gate.                      *)
LEMMA AdvanceFacts ==
  ASSUME TaskTypeOK, NEW path \in Seq(TaskStages), NEW next \in Awaits,
         Advance(path, next)
  PROVE  /\ TaskTypeOK' /\ KeepsEnd
         /\ Moved({next}, {EndOf(stage, path)})
BY ArriveFacts DEF Advance

(* The same for a segment that does: an abort under takeover ends the run. *)
LEMMA AdvanceToGateFacts ==
  ASSUME TaskTypeOK, gate \in BOOLEAN, NEW path \in Seq(TaskStages), NEW next \in Awaits,
         AdvanceToGate(path, next)
  PROVE  /\ TaskTypeOK' /\ KeepsEnd
         /\ Moved({next}, {EndOf(stage, path)})
<1>1. CASE Throw("error")
  BY <1>1, ThrowFacts DEF Codes, Moved
<1>2. CASE Arrive(path, next, gate)
  BY <1>2, ArriveFacts
<1>3. QED BY <1>1, <1>2 DEF AdvanceToGate

(* Only a run that has admitted no write yet can admit one.                *)
LEMMA BeginWriteFacts ==
  ASSUME TaskTypeOK, NEW path \in Seq(TaskStages), path # << >>,
         NEW k \in WriteKinds, BeginWrite(path, k)
  PROVE  /\ TaskTypeOK' /\ KeepsEnd
         /\ Moved({}, {}) \/ Admitted(k, {EndOf(stage, path)})
<1>1. CASE ~CanFollow(stage, path)
  BY <1>1, ThrowFacts DEF BeginWrite, Codes
<1>2. CASE CanFollow(stage, path) /\ kind # "none"
  BY <1>2, FailFacts DEF BeginWrite, Codes
<1>3. CASE CanFollow(stage, path) /\ kind = "none"
  <2>1. ~Terminal
    BY <1>3, NoWayOn DEF Terminal
  <2>2. EndOf(stage, path) \in TaskStages
    BY EndOfType DEF TaskTypeOK
  <2>3. QED BY <1>3, <2>1, <2>2 DEF BeginWrite, AdmitWrite, TaskTypeOK, KeepsEnd,
                                    Admitted, Awaits, WriteCalls
<1>4. QED BY <1>1, <1>2, <1>3
-----------------------------------------------------------------------------
(* Before a write is admitted: the run moves on, ends, or is sent to write *)
(* a note.                                                                 *)
QuietAwaits == Awaits \ (WriteCalls \union AfterRun)

(* As long as no write is admitted, a step keeps the part of the invariant *)
(* on writes.                                                              *)
LEMMA QuietStep ==
  ASSUME IInv, pc \in QuietAwaits, sent' = sent,
         NEW N \in SUBSET QuietAwaits, NEW S,
         Moved(N \union {"ended"}, S) \/ Admitted("note", {stage})
  PROVE  WriteInv'
BY DEF IInv, WriteInv, Moved, Admitted, QuietAwaits, BeforeRequest, AfterRun,
       TypeOK, TaskTypeOK, RunTypeOK, WriteCalls, Requests, WriteKinds

(* Paths that are built in two pieces. *)
LEMMA LongerPath ==
  ASSUME NEW path \in Seq(TaskStages), NEW tail \in Seq(TaskStages), tail # << >>
  PROVE  /\ path \o tail \in Seq(TaskStages) /\ path \o tail # << >>
         /\ \A from : EndOf(from, path \o tail) = EndOf(from, tail)
BY DEF EndOf

(* Where the preparation goes once mail needs no baseline.                 *)
LEMMA AdvanceToProxyFacts ==
  ASSUME TaskTypeOK, NEW path \in Seq(TaskStages), AdvanceToProxy(path)
  PROVE  /\ TaskTypeOK' /\ KeepsEnd
         /\ Moved({"generate_url", "resolve_proxy"}, TaskStages)
<1>1. /\ <<"resolving_proxy", "generating_auth_url">> \in Seq(TaskStages)
      /\ <<"resolving_proxy">> \in Seq(TaskStages)
      /\ {"generate_url", "resolve_proxy"} \subseteq Awaits
  BY DEF TaskStages, Awaits
<1>2. CASE Advance(path \o <<"resolving_proxy", "generating_auth_url">>, "generate_url")
  BY <1>1, <1>2, LongerPath, AdvanceFacts DEF Moved, TaskTypeOK
<1>3. CASE Advance(path \o <<"resolving_proxy">>, "resolve_proxy")
  BY <1>1, <1>3, LongerPath, AdvanceFacts DEF Moved, TaskTypeOK
<1>4. QED BY <1>2, <1>3 DEF AdvanceToProxy

(* Where the preparation goes after the checks.                            *)
LEMMA AdvanceToMailFacts ==
  ASSUME TaskTypeOK, NEW path \in Seq(TaskStages), AdvanceToMail(path)
  PROVE  /\ TaskTypeOK' /\ KeepsEnd
         /\ Moved({"mail_baseline", "generate_url", "resolve_proxy"}, TaskStages)
<1>1. <<"mail_baseline">> \in Seq(TaskStages) /\ "mail_baseline" \in Awaits
  BY DEF TaskStages, Awaits
<1>2. CASE Advance(path \o <<"mail_baseline">>, "mail_baseline")
  BY <1>1, <1>2, LongerPath, AdvanceFacts DEF Moved, TaskTypeOK
<1>3. CASE AdvanceToProxy(path)
  BY <1>3, AdvanceToProxyFacts DEF Moved
<1>4. QED BY <1>2, <1>3 DEF AdvanceToMail
-----------------------------------------------------------------------------
(* The preparation. *)

(* The awaits between which a preparation moves; no counter is at stake.   *)
PrepAwaits == {"resolve_material", "load_target", "load_options", "mixed_channel",
               "find_existing", "mail_baseline", "resolve_proxy", "generate_url"}

(* A preparation step that moves between these awaits keeps the invariant. *)
LEMMA PrepStep ==
  ASSUME IInv, pc \in PrepAwaits, TaskTypeOK', prepUnchanged, target' \in BOOLEAN,
         Moved(PrepAwaits, TaskStages)
  PROVE  IInv'
<1>1. WriteInv'
  <2>1. pc \in QuietAwaits /\ PrepAwaits \in SUBSET QuietAwaits
    BY DEF PrepAwaits, QuietAwaits, Awaits, WriteCalls, Requests, AfterRun
  <2>2. Moved(PrepAwaits \union {"ended"}, TaskStages) /\ sent' = sent
    BY DEF Moved, prepUnchanged, writeVars
  <2>3. QED BY <2>1, <2>2, QuietStep
<1>2. RunTypeOK' /\ CounterInv'
  BY DEF IInv, TypeOK, RunTypeOK, CounterInv, prepUnchanged, writeVars, windowVars,
         loginVars, oauthVars, humanVars, Moved, PrepAwaits, WriteCalls, Requests,
         AfterRun
<1>3. QED BY <1>1, <1>2 DEF IInv, TypeOK

PreparationMoves ==
  \/ MaterialResolved \/ TargetLoaded \/ OptionsLoaded \/ MixedChannelChecked
  \/ ExistingChecked \/ BaselineEstablished \/ ProxyResolved

(* Every step of the preparation keeps the invariant.                      *)
LEMMA PreparationSteps ==
  ASSUME IInv, PreparationMoves
  PROVE  IInv' /\ KeepsEnd
<1> USE DEF Waiting, At
<1>0. /\ << >> \in Seq(TaskStages)
      /\ \A s \in TaskStages : <<s>> \in Seq(TaskStages) /\ EndOf(stage, <<s>>) = s
      /\ PrepAwaits \subseteq Awaits /\ "closing" \in Awaits
      /\ {"loading_target_account", "loading_options", "checking_existing",
          "already_exists", "generating_auth_url"} \subseteq TaskStages
      /\ EndOf(stage, << >>) \in TaskStages
      /\ TaskTypeOK
  BY DEF PrepAwaits, Awaits, TaskStages, NonCancellableStages, TerminalStages, EndOf,
         IInv, TypeOK, TaskTypeOK
<1>1. CASE MaterialResolved
  <2>1. TaskTypeOK' /\ KeepsEnd /\ Moved(PrepAwaits, TaskStages)
    BY <1>0, <1>1, AdvanceFacts DEF MaterialResolved, Moved, PrepAwaits
  <2>2. QED BY <1>1, <2>1, PrepStep DEF MaterialResolved, PrepAwaits, IInv, TypeOK, RunTypeOK
<1>2. CASE TargetLoaded
  <2>1. TaskTypeOK' /\ KeepsEnd /\ Moved(PrepAwaits, TaskStages)
    BY <1>0, <1>2, AdvanceFacts, AdvanceToMailFacts DEF TargetLoaded, Moved, PrepAwaits
  <2>2. QED BY <1>2, <2>1, PrepStep DEF TargetLoaded, PrepAwaits
<1>3. CASE OptionsLoaded
  <2>1. TaskTypeOK' /\ KeepsEnd /\ Moved(PrepAwaits, TaskStages)
    BY <1>0, <1>3, AdvanceFacts, AdvanceToMailFacts DEF OptionsLoaded, Moved, PrepAwaits
  <2>2. QED BY <1>3, <2>1, PrepStep DEF OptionsLoaded, PrepAwaits, IInv, TypeOK, RunTypeOK
<1>4. CASE MixedChannelChecked
  <2>1. TaskTypeOK' /\ KeepsEnd /\ Moved(PrepAwaits, TaskStages)
    BY <1>0, <1>4, AdvanceFacts, AdvanceToMailFacts DEF MixedChannelChecked, Moved, PrepAwaits
  <2>2. QED BY <1>4, <2>1, PrepStep DEF MixedChannelChecked, PrepAwaits, IInv, TypeOK, RunTypeOK
<1>5. CASE ExistingChecked
  <2>1. TaskTypeOK' /\ KeepsEnd /\ Moved(PrepAwaits, TaskStages)
    BY <1>0, <1>5, AdvanceFacts, AdvanceToMailFacts DEF ExistingChecked, Finish, Moved, PrepAwaits
  <2>2. QED BY <1>5, <2>1, PrepStep DEF ExistingChecked, PrepAwaits, IInv, TypeOK, RunTypeOK
<1>6. CASE BaselineEstablished
  <2>1. TaskTypeOK' /\ KeepsEnd /\ Moved(PrepAwaits, TaskStages)
    BY <1>0, <1>6, AdvanceToProxyFacts DEF BaselineEstablished, Moved, PrepAwaits
  <2>2. QED BY <1>6, <2>1, PrepStep DEF BaselineEstablished, PrepAwaits, IInv, TypeOK, RunTypeOK
<1>7. CASE ProxyResolved
  <2>1. TaskTypeOK' /\ KeepsEnd /\ Moved(PrepAwaits, TaskStages)
    BY <1>0, <1>7, AdvanceFacts DEF ProxyResolved, Moved, PrepAwaits
  <2>2. QED BY <1>7, <2>1, PrepStep DEF ProxyResolved, PrepAwaits, IInv, TypeOK, RunTypeOK
<1>8. QED BY <1>1, <1>2, <1>3, <1>4, <1>5, <1>6, <1>7 DEF PreparationMoves
-----------------------------------------------------------------------------
(* The login. *)

LoginAwaits == PageCalls \union {"wait_otp", "totp_next", "wait_callback", "exchange"}

(* The run goes on at one of the awaits in N, or to its end. *)
GoesOn(N) ==
  /\ TaskTypeOK' /\ KeepsEnd
  /\ kind' = kind
  /\ pc' \in N \union {"closing"}

(* A login step that counts within the limits keeps the invariant.         *)
LEMMA LoginStep ==
  ASSUME IInv, pc \in LoginAwaits, loginUnchanged,
         round' \in 1 .. 3, resends' \in 0 .. 2, tries' \in 0 .. input.fallbacks + 1,
         NEW N \in SUBSET LoginAwaits, GoesOn(N),
         "resend" \in N => round' < 3
  PROVE  IInv' /\ KeepsEnd
<1>0. pc' = "resend" => round' < 3
  BY DEF GoesOn
<1>1. WriteInv'
  <2>1. pc \in QuietAwaits /\ LoginAwaits \in SUBSET QuietAwaits
    BY DEF LoginAwaits, PageCalls, PageActions, QuietAwaits, Awaits, WriteCalls,
           Requests, AfterRun
  <2>2. Moved(LoginAwaits \union {"ended"}, {stage'}) /\ sent' = sent
    BY DEF Moved, GoesOn, loginUnchanged, writeVars
  <2>3. QED BY <2>1, <2>2, QuietStep
<1>2. detected # input.attempts
  BY DEF IInv, CounterInv, LoginAwaits, PageCalls, PageActions, WriteCalls, Requests,
         AfterRun
<1>3. RunTypeOK'
  BY DEF IInv, TypeOK, RunTypeOK, loginUnchanged, writeVars, windowVars, oauthVars,
         humanVars, EmailOtpRoundLimit, OtpResendAttempts
<1>4. CounterInv'
  <2>1. pc' # "next_proxy"
    BY DEF GoesOn, LoginAwaits, PageCalls, PageActions
  <2>2. QED BY <1>0, <1>2, <2>1 DEF CounterInv, loginUnchanged, oauthVars, EmailOtpRoundLimit
<1>5. QED BY <1>1, <1>3, <1>4 DEF IInv, TypeOK, GoesOn

(* The helpers that end a login segment, in the same terms.                *)
LEMMA LoginMove ==
  ASSUME TaskTypeOK, gate \in BOOLEAN, NEW path \in Seq(TaskStages),
         NEW next \in LoginAwaits, Advance(path, next) \/ AdvanceToGate(path, next)
  PROVE  GoesOn({next})
<1>1. next \in Awaits
  BY DEF LoginAwaits, PageCalls, PageActions, Awaits
<1>2. QED BY <1>1, AdvanceFacts, AdvanceToGateFacts DEF GoesOn, Moved

(* An error that is not noted ends a login.                                *)
LEMMA LoginThrow ==
  ASSUME TaskTypeOK, Throw("error") \/ Throw("illegal")
  PROVE  GoesOn({})
BY ThrowFacts DEF GoesOn, Moved, Codes

(* The way to the consent page.                                            *)
LEMMA AdvanceToConsentFacts ==
  ASSUME TaskTypeOK, gate \in BOOLEAN, NEW path \in Seq(TaskStages),
         AdvanceToConsent(path)
  PROVE  GoesOn({"submit_consent"})
<1>1. <<"waiting_for_consent">> \in Seq(TaskStages) /\ "submit_consent" \in LoginAwaits
  BY DEF TaskStages, AuthorizationStages, LoginAwaits, PageCalls, PageActions
<1>2. path \o <<"waiting_for_consent">> \in Seq(TaskStages)
  BY <1>1
<1>3. QED BY <1>1, <1>2, LoginMove DEF AdvanceToConsent

(* The way to the wait for the callback.                                   *)
LEMMA AdvanceToCallbackFacts ==
  ASSUME TaskTypeOK, gate \in BOOLEAN, NEW path \in Seq(TaskStages),
         AdvanceToCallback(path)
  PROVE  GoesOn({"wait_callback"})
<1>1. <<"waiting_for_callback">> \in Seq(TaskStages) /\ "wait_callback" \in LoginAwaits
  BY DEF TaskStages, AuthorizationStages, LoginAwaits
<1>2. path \o <<"waiting_for_callback">> \in Seq(TaskStages)
  BY <1>1
<1>3. QED BY <1>1, <1>2, LoginMove DEF AdvanceToCallback

(* The way to a person.                                                    *)
LEMMA AskHumanFacts ==
  ASSUME TaskTypeOK, gate \in BOOLEAN, AskHuman
  PROVE  GoesOn({"manual_wait"})
<1>1. <<"manual_intervention">> \in Seq(TaskStages) /\ "manual_wait" \in LoginAwaits
  BY DEF TaskStages, AuthorizationStages, LoginAwaits, PageCalls
<1>2. QED BY <1>1, LoginMove DEF AskHuman

LoginMoves ==
  \/ EmailSubmitted \/ OtpFound \/ OtpRoundEnds \/ ResendAnswered
  \/ ResendBudgetSpent \/ OtpAccepted \/ PasswordAccepted \/ PasswordRefused
  \/ PageClassified \/ TotpGenerated \/ TotpStillActive \/ TotpAccepted
  \/ ConsentSubmitted \/ CallbackReceived \/ HumanProgressed
  \/ \E p \in PageActions \union {"classify"} : PageNeedsHuman(p)

(* Every step of the login, by the person as well, keeps the invariant.    *)
LEMMA LoginSteps ==
  ASSUME IInv, LoginMoves
  PROVE  IInv' /\ KeepsEnd
<1> USE DEF Waiting, At, PageAnswers
<1>0. TaskTypeOK /\ gate \in BOOLEAN
  BY DEF IInv, TypeOK, RunTypeOK
<1>a. /\ << >> \in Seq(TaskStages)
      /\ <<"otp_submitted">> \in Seq(TaskStages)
      /\ <<"totp_submitted">> \in Seq(TaskStages)
      /\ <<"consent_submitted">> \in Seq(TaskStages)
      /\ <<"password_submitted">> \in Seq(TaskStages)
      /\ <<"waiting_for_totp">> \in Seq(TaskStages)
      /\ <<"resending_otp">> \in Seq(TaskStages)
      /\ <<"resending_otp_second">> \in Seq(TaskStages)
      /\ <<"waiting_for_otp_retry">> \in Seq(TaskStages)
      /\ <<"waiting_for_otp_third">> \in Seq(TaskStages)
      /\ <<"authorization_url_opened">> \in Seq(TaskStages)
      /\ <<"waiting_for_callback">> \in Seq(TaskStages)
      /\ <<"exchanging_code">> \in Seq(TaskStages)
      /\ <<"email_submitted", "waiting_for_otp">> \in Seq(TaskStages)
      /\ <<"email_submitted", "waiting_for_password">> \in Seq(TaskStages)
  BY DEF TaskStages, AuthorizationStages
<1>b. /\ {"submit_email", "wait_otp", "resend", "submit_otp", "submit_password", "classify",
          "totp_next", "submit_totp", "submit_consent", "manual_wait", "wait_callback",
          "exchange"} \subseteq LoginAwaits
      /\ PageActions \union {"classify"} \subseteq LoginAwaits
  BY DEF LoginAwaits, PageCalls, PageActions
<1>c. /\ round \in 1 .. 3 /\ resends \in 0 .. 2 /\ tries \in 0 .. input.fallbacks + 1
      /\ input.fallbacks \in Nat
      /\ pc = "resend" => round < 3
  BY InputsAssumption DEF IInv, TypeOK, RunTypeOK, CounterInv, InputType,
     EmailOtpRoundLimit, OtpResendAttempts
<1>1. CASE EmailSubmitted
  <2>1. GoesOn({"wait_otp", "submit_password"})
    BY <1>0, <1>1, <1>a, <1>b, LoginMove DEF EmailSubmitted, GoesOn
  <2>2. QED BY <1>1, <1>b, <1>c, <2>1, LoginStep DEF EmailSubmitted
<1>2. CASE OtpFound
  <2>1. GoesOn({"submit_otp"})
    BY <1>0, <1>2, <1>a, <1>b, LoginMove DEF OtpFound
  <2>2. QED BY <1>2, <1>b, <1>c, <2>1, LoginStep DEF OtpFound, loginVars
<1>3. CASE OtpRoundEnds
  <2>1. CASE AskHuman
    <3>1. GoesOn({"manual_wait"}) BY <1>0, <2>1, AskHumanFacts
    <3>2. QED BY <1>3, <1>b, <1>c, <3>1, LoginStep DEF OtpRoundEnds, loginVars
  <2>2. CASE ~AskHuman
    <3>1. GoesOn({"resend"}) /\ round # 3
      BY <1>0, <1>3, <1>a, <1>b, <2>2, LoginMove DEF OtpRoundEnds, EmailOtpRoundLimit
    <3>2. QED BY <1>3, <1>b, <1>c, <3>1, LoginStep DEF OtpRoundEnds, loginVars
  <2>3. QED BY <2>1, <2>2
<1>4. CASE ResendAnswered
  <2>1. GoesOn({"wait_callback", "submit_consent", "manual_wait", "wait_otp"})
    BY <1>0, <1>4, <1>a, <1>b, LoginMove, AskHumanFacts, AdvanceToConsentFacts,
       AdvanceToCallbackFacts DEF ResendAnswered, GoesOn
  <2>2. /\ round' \in 1 .. 3 /\ resends' \in 0 .. 2 /\ tries' = tries
        /\ loginUnchanged /\ pc = "resend"
    BY <1>4, <1>c DEF ResendAnswered, OtpResendAttempts
  <2>3. QED BY <1>b, <1>c, <2>1, <2>2, LoginStep
<1>5. CASE ResendBudgetSpent
  <2>1. GoesOn({"manual_wait"})
    BY <1>0, <1>5, AskHumanFacts DEF ResendBudgetSpent
  <2>2. QED BY <1>5, <1>b, <1>c, <2>1, LoginStep DEF ResendBudgetSpent, loginVars
<1>6. CASE OtpAccepted
  <2>1. GoesOn({"submit_consent"})
    BY <1>0, <1>6, <1>a, AdvanceToConsentFacts DEF OtpAccepted
  <2>2. QED BY <1>6, <1>b, <1>c, <2>1, LoginStep DEF OtpAccepted, loginVars
<1>7. CASE PasswordAccepted
  <2>1. GoesOn({"classify"})
    BY <1>0, <1>7, <1>a, <1>b, LoginMove DEF PasswordAccepted
  <2>2. QED BY <1>7, <1>b, <1>c, <2>1, LoginStep DEF PasswordAccepted, loginVars
<1>8. CASE PasswordRefused
  <2>1. GoesOn({"submit_password", "manual_wait"})
    BY <1>0, <1>8, <1>a, <1>b, LoginThrow, LoginMove, AskHumanFacts
       DEF PasswordRefused, GoesOn
  <2>2. /\ round' \in 1 .. 3 /\ resends' \in 0 .. 2 /\ tries' \in 0 .. input.fallbacks + 1
        /\ loginUnchanged /\ pc = "submit_password"
    BY <1>8, <1>c DEF PasswordRefused
  <2>3. QED BY <1>b, <2>1, <2>2, LoginStep
<1>9. CASE PageClassified
  <2>1. GoesOn({"wait_callback", "submit_consent", "totp_next"})
    BY <1>0, <1>9, <1>a, <1>b, LoginMove, AdvanceToConsentFacts, AdvanceToCallbackFacts
       DEF PageClassified, GoesOn
  <2>2. QED BY <1>9, <1>b, <1>c, <2>1, LoginStep DEF PageClassified
<1>10. CASE TotpGenerated
  <2>1. GoesOn({"submit_totp"})
    BY <1>0, <1>10, <1>a, <1>b, LoginMove DEF TotpGenerated
  <2>2. QED BY <1>10, <1>b, <1>c, <2>1, LoginStep DEF TotpGenerated, loginVars
<1>11. CASE TotpStillActive
  <2>1. GoesOn({"totp_next"})
    BY <1>0, <1>11, <1>a, <1>b, LoginThrow, LoginMove DEF TotpStillActive, GoesOn
  <2>2. QED BY <1>11, <1>b, <1>c, <2>1, LoginStep DEF TotpStillActive
<1>12. CASE TotpAccepted
  <2>1. GoesOn({"submit_consent"})
    BY <1>0, <1>12, <1>a, AdvanceToConsentFacts DEF TotpAccepted
  <2>2. QED BY <1>12, <1>b, <1>c, <2>1, LoginStep DEF TotpAccepted, loginVars
<1>13. CASE ConsentSubmitted
  <2>1. GoesOn({"wait_callback"})
    BY <1>0, <1>13, <1>a, AdvanceToCallbackFacts DEF ConsentSubmitted
  <2>2. QED BY <1>13, <1>b, <1>c, <2>1, LoginStep DEF ConsentSubmitted, loginVars
<1>14. CASE HumanProgressed
  <2>1. GoesOn({"wait_callback", "submit_consent", "submit_email"})
    BY <1>0, <1>14, <1>a, <1>b, LoginMove, AdvanceToConsentFacts
       DEF HumanProgressed, GoesOn
  <2>2. QED BY <1>14, <1>b, <1>c, <2>1, LoginStep DEF HumanProgressed, loginVars
<1>15. CASE CallbackReceived
  <2>1. GoesOn({"exchange"})
    BY <1>0, <1>15, <1>a, <1>b, LoginMove DEF CallbackReceived
  <2>2. QED BY <1>15, <1>b, <1>c, <2>1, LoginStep DEF CallbackReceived, loginVars
<1>16. ASSUME NEW p \in PageActions \union {"classify"}, PageNeedsHuman(p)
       PROVE  IInv' /\ KeepsEnd
  <2>1. GoesOn({"manual_wait"}) /\ pc \in LoginAwaits
    BY <1>0, <1>16, <1>b, AskHumanFacts DEF PageNeedsHuman
  <2>2. QED BY <1>16, <1>b, <1>c, <2>1, LoginStep DEF PageNeedsHuman, loginVars
<1>17. QED BY <1>1, <1>2, <1>3, <1>4, <1>5, <1>6, <1>7, <1>8, <1>9, <1>10, <1>11,
              <1>12, <1>13, <1>14, <1>15, <1>16 DEF LoginMoves
-----------------------------------------------------------------------------
(* The authorization attempts.                                             *)

(* A step before any write that counts no sighting keeps the invariant.    *)
LEMMA QuietMove ==
  ASSUME IInv, pc \in QuietAwaits \ {"locate"}, sent' = sent, detected' = detected,
         input' = input, RunTypeOK',
         NEW N \in SUBSET (QuietAwaits \ {"resend"}), GoesOn(N),
         "next_proxy" \in N => proxyTry' < 3
  PROVE  IInv' /\ KeepsEnd
<1>1. WriteInv'
  <2>1. Moved(N \union {"ended"}, {stage'}) /\ N \in SUBSET QuietAwaits
    BY DEF Moved, GoesOn
  <2>2. QED BY <2>1, QuietStep
<1>2. detected # input.attempts
  BY DEF IInv, CounterInv, QuietAwaits
<1>3. pc' # "resend" /\ (pc' = "next_proxy" => proxyTry' < 3)
  BY DEF GoesOn
<1>4. QED BY <1>1, <1>2, <1>3 DEF IInv, TypeOK, CounterInv, GoesOn,
                                  DynamicProxyConnectionAttempts

(* How an authorization segment ends.                                      *)
LEMMA AuthorizationMove ==
  ASSUME TaskTypeOK, gate \in BOOLEAN, NEW path \in Seq(TaskStages),
         NEW next \in QuietAwaits, Advance(path, next) \/ AdvanceToGate(path, next)
  PROVE  GoesOn({next})
<1>1. next \in Awaits
  BY DEF QuietAwaits
<1>2. QED BY <1>1, AdvanceFacts, AdvanceToGateFacts DEF GoesOn, Moved

(* An error or a reused session ends an authorization.                     *)
LEMMA AuthorizationThrow ==
  ASSUME TaskTypeOK, Throw("error") \/ Throw("session_reused")
  PROVE  GoesOn({})
BY ThrowFacts DEF GoesOn, Moved, Codes

AuthorizationMoves ==
  \/ \E s \in Sessions : UrlGenerated(s)
  \/ BrowserStarted \/ UrlOpened \/ BrowserReady
  \/ \E proxyFailed \in BOOLEAN : BrowserStartFails(proxyFailed)
  \/ NextProxyFound \/ RetryClosed

(* Every step from a generated URL to an opened page keeps the invariant.  *)
LEMMA AuthorizationSteps ==
  ASSUME IInv, AuthorizationMoves
  PROVE  IInv' /\ KeepsEnd
<1> USE DEF Waiting, At
<1>0. TaskTypeOK /\ RunTypeOK /\ gate \in BOOLEAN
  BY DEF IInv, TypeOK, RunTypeOK
<1>a. /\ << >> \in Seq(TaskStages)
      /\ <<"authorization_url_received">> \in Seq(TaskStages)
      /\ <<"browser_started">> \in Seq(TaskStages)
      /\ <<"authorization_url_opened">> \in Seq(TaskStages)
      /\ <<"resolving_proxy">> \in Seq(TaskStages)
      /\ <<"generating_auth_url">> \in Seq(TaskStages)
  BY DEF TaskStages, AuthorizationStages
<1>b. /\ {"generate_url", "browser_start", "browser_ready", "submit_email", "next_proxy",
          "retry_close"} \subseteq QuietAwaits \ {"locate", "resend"}
      /\ {} \subseteq QuietAwaits \ {"resend"}
  BY DEF QuietAwaits, Awaits, PageCalls, PageActions, WriteCalls, Requests, AfterRun
<1>1. ASSUME NEW s \in Sessions, UrlGenerated(s)
      PROVE  IInv' /\ KeepsEnd
  <2>1. CASE SessionReused(s)
    <3>1. GoesOn({}) BY <1>0, <1>1, <2>1, AuthorizationThrow DEF UrlGenerated
    <3>2. RunTypeOK'
      BY <1>0, <1>1, <2>1 DEF UrlGenerated, RunTypeOK, writeVars, windowVars, loginVars, humanVars
    <3>3. QED BY <1>1, <1>b, <3>1, <3>2, QuietMove DEF UrlGenerated, writeVars
  <2>2. CASE ~SessionReused(s)
    <3>1. GoesOn({"browser_start"})
      BY <1>0, <1>1, <1>a, <1>b, <2>2, AuthorizationMove DEF UrlGenerated
    <3>2. RunTypeOK'
      BY <1>0, <1>1, <2>2 DEF UrlGenerated, RunTypeOK, writeVars, windowVars, loginVars, humanVars
    <3>3. QED BY <1>1, <1>b, <3>1, <3>2, QuietMove DEF UrlGenerated, writeVars
  <2>3. QED BY <2>1, <2>2
<1>2. CASE BrowserStarted
  <2>1. GoesOn({"browser_start"})
    BY <1>0, <1>2, <1>a, <1>b, AuthorizationMove DEF BrowserStarted
  <2>2. RunTypeOK'
    BY <1>0, <1>2 DEF BrowserStarted, RunTypeOK, writeVars, loginVars, humanVars
  <2>3. QED BY <1>2, <1>b, <2>1, <2>2, QuietMove DEF BrowserStarted, writeVars
<1>3. CASE UrlOpened
  <2>1. GoesOn({"browser_ready"})
    BY <1>0, <1>3, <1>a, <1>b, AuthorizationMove DEF UrlOpened
  <2>2. RunTypeOK'
    BY <1>0, <1>3 DEF UrlOpened, RunTypeOK, writeVars, loginVars, humanVars, oauthVars
  <2>3. QED BY <1>3, <1>b, <2>1, <2>2, QuietMove DEF UrlOpened, writeVars, oauthVars
<1>4. CASE BrowserReady
  <2>1. GoesOn({"submit_email"})
    BY <1>0, <1>4, <1>a, <1>b, AuthorizationMove DEF BrowserReady
  <2>2. RunTypeOK'
    BY <1>0, <1>4 DEF BrowserReady, RunTypeOK, writeVars, humanVars, oauthVars, OtpResendAttempts
  <2>3. QED BY <1>4, <1>b, <2>1, <2>2, QuietMove DEF BrowserReady, writeVars, oauthVars
<1>5. ASSUME NEW proxyFailed \in BOOLEAN, BrowserStartFails(proxyFailed)
      PROVE  IInv' /\ KeepsEnd
  <2>1. RunTypeOK'
    BY <1>0, <1>5 DEF BrowserStartFails, RunTypeOK, writeVars, loginVars, humanVars, oauthVars
  <2>2. pc \in {"browser_start", "browser_ready"} /\ UNCHANGED <<input, writeVars, oauthVars>>
    BY <1>5 DEF BrowserStartFails
  <2>3. CASE Throw("error")
    <3>1. GoesOn({}) BY <1>0, <2>3, AuthorizationThrow
    <3>2. QED BY <1>b, <2>1, <2>2, <3>1, QuietMove DEF writeVars, oauthVars
  <2>4. CASE ~Throw("error")
    <3>1. GoesOn({"next_proxy"})
      BY <1>0, <1>5, <1>a, <1>b, <2>4, AuthorizationMove DEF BrowserStartFails
    <3>2. proxyTry < 3
      BY <1>5, <2>4 DEF BrowserStartFails, ProxyReplaceable, DynamicProxyConnectionAttempts
    <3>3. QED BY <1>b, <2>1, <2>2, <3>1, <3>2, QuietMove DEF writeVars, oauthVars
  <2>5. QED BY <2>3, <2>4
<1>6. CASE NextProxyFound
  <2>1. GoesOn({"generate_url"})
    BY <1>0, <1>6, <1>a, <1>b, AuthorizationMove DEF NextProxyFound
  <2>2. proxyTry' \in 1 .. DynamicProxyConnectionAttempts
    BY <1>0, <1>6 DEF NextProxyFound, IInv, CounterInv, RunTypeOK, DynamicProxyConnectionAttempts
  <2>3. RunTypeOK'
    BY <1>0, <1>6, <2>2 DEF NextProxyFound, RunTypeOK, writeVars, windowVars, loginVars, humanVars
  <2>4. QED BY <1>6, <1>b, <2>1, <2>3, QuietMove DEF NextProxyFound, writeVars
<1>7. CASE RetryClosed
  <2>1. GoesOn({"generate_url"})
    BY <1>0, <1>7, <1>a, <1>b, AuthorizationMove DEF RetryClosed
  <2>2. RunTypeOK'
    <3>1. /\ held' = FALSE /\ page' = FALSE /\ captured' = FALSE /\ chrome' = 0
          /\ proxyTry' = 1 /\ 1 \in 1 .. DynamicProxyConnectionAttempts
      BY <1>7 DEF RetryClosed, SessionClosed, DynamicProxyConnectionAttempts
    <3>2. /\ UNCHANGED <<input, sent, outcome, twin, round, resends, tries, aborted, gate>>
          /\ UNCHANGED <<target, session, sightings, detected, opened>>
      BY <1>7 DEF RetryClosed, deactivationUnchanged, writeVars, loginVars, humanVars
    <3>3. QED BY <1>0, <3>1, <3>2 DEF RunTypeOK
  <2>3. QED BY <1>7, <1>b, <2>1, <2>2, QuietMove DEF RetryClosed, deactivationUnchanged, writeVars
<1>8. QED BY <1>1, <1>2, <1>3, <1>4, <1>5, <1>6, <1>7 DEF AuthorizationMoves
-----------------------------------------------------------------------------
(* Where the login ends: a sighting, a write, an error.                    *)

(* A step that ends the run or admits its one write keeps the invariant.   *)
LEMMA BeginStep ==
  ASSUME IInv, pc \in QuietAwaits, sent' = sent, input' = input, RunTypeOK',
         TaskTypeOK', KeepsEnd, NEW k \in WriteKinds, NEW S \in SUBSET TaskStages,
         k # "note" => S \subseteq WriteStages,
         Moved({}, {}) \/ Admitted(k, S)
  PROVE  IInv' /\ KeepsEnd
<1>1. kind = "none" /\ sent = 0
  BY DEF IInv, WriteInv, QuietAwaits
<1>2. CASE Moved({}, {})
  BY <1>1, <1>2 DEF IInv, TypeOK, CounterInv, WriteInv, Moved, BeforeRequest, AfterRun,
                    WriteCalls, Requests
<1>3. CASE Admitted(k, S)
  <2>1. pc' = "write_gate" /\ kind' = k /\ stage' \in S /\ sent' = 0
    BY <1>1, <1>3 DEF Admitted
  <2>2. "write_gate" \in WriteCalls
    BY DEF WriteCalls
  <2>3. CounterInv'
    BY <2>1, <2>2 DEF CounterInv
  <2>4. WriteInv'
    BY <2>1, <2>2 DEF WriteInv, WriteKinds
  <2>5. QED BY <2>3, <2>4 DEF IInv, TypeOK
<1>4. QED BY <1>2, <1>3

(* An error that reaches the outer catch keeps the invariant, from a login *)
(* as well as from a write that has been admitted.                         *)
LEMMA ThrowStep ==
  ASSUME IInv, pc \notin AfterRun, NEW c \in Codes, Throw(c),
         UNCHANGED <<input, writeVars, twin, windowVars, loginVars, oauthVars,
                     humanVars, target>>
  PROVE  IInv' /\ KeepsEnd
<1>1. RunTypeOK' /\ sent' = sent /\ input' = input
  BY DEF IInv, TypeOK, RunTypeOK, writeVars, windowVars, loginVars, oauthVars, humanVars
<1>2. /\ TaskTypeOK' /\ KeepsEnd
      /\ Moved({}, {}) \/ Admitted("note", {stage})
  BY ThrowFacts DEF IInv, TypeOK
<1>3. pc \in Awaits /\ stage \in TaskStages /\ "note" \in WriteKinds
  BY DEF IInv, TypeOK, TaskTypeOK, WriteKinds
<1>4. CASE pc \in WriteCalls
  <2>1. ~Admitted("note", {stage})
    BY <1>4 DEF Admitted, IInv, WriteInv
  <2>2. kind' = kind /\ pc' = "closing" /\ stage' \in {stage, "failed"}
    BY <1>2, <2>1 DEF Moved
  <2>3. WriteInv'
    BY <1>1, <1>4, <2>2 DEF IInv, WriteInv, BeforeRequest, AfterRun, WriteCalls, Requests,
                            TerminalStages
  <2>4. CounterInv'
    BY <2>2 DEF CounterInv, AfterRun
  <2>5. QED BY <1>1, <1>2, <2>3, <2>4 DEF IInv, TypeOK
<1>5. CASE pc \in QuietAwaits
  BY <1>1, <1>2, <1>3, <1>5, BeginStep
<1>6. QED BY <1>3, <1>4, <1>5 DEF QuietAwaits

(* A sighting of account_deactivated is counted below the limit, and the   *)
(* last one sends the run to locate or to ban the account.                 *)
LEMMA SightingStep ==
  ASSUME IInv, NEW p \in PageActions \union {"classify", "manual_wait", "wait_callback"},
         DeactivationSeen(p)
  PROVE  IInv' /\ KeepsEnd
<1> USE DEF Waiting, At
<1>0. TaskTypeOK /\ RunTypeOK /\ gate \in BOOLEAN
  BY DEF IInv, TypeOK, RunTypeOK
<1>1. pc \in LoginAwaits /\ pc \in QuietAwaits
  BY DEF DeactivationSeen, LoginAwaits, PageCalls, PageActions, QuietAwaits, Awaits,
         WriteCalls, Requests, AfterRun
<1>2. detected # input.attempts
  BY <1>1 DEF IInv, CounterInv, QuietAwaits, LoginAwaits, PageCalls, PageActions
<1>3. detected \in Nat /\ input.attempts \in Nat /\ detected < input.attempts
  BY <1>0, <1>2, InputsAssumption DEF RunTypeOK, InputType
<1>4. RunTypeOK' /\ sent' = sent /\ input' = input
  <2>1. detected' \in 0 .. input.attempts /\ sightings' \subseteq Sessions \union {NoSession}
    BY <1>0, <1>3 DEF DeactivationSeen, RunTypeOK
  <2>2. UNCHANGED <<input, sent, outcome, twin, round, resends, tries, aborted, gate, target,
                    chrome, held, page, captured, session, proxyTry, opened>>
    BY DEF DeactivationSeen, deactivationUnchanged, writeVars, loginVars, humanVars, windowVars
  <2>3. QED BY <1>0, <2>1, <2>2 DEF RunTypeOK
<1> DEFINE confirmed == <<"account_deactivated_confirmed", "locating_deactivated_account">>
           banning == <<"marking_account_banned">>
<1>5. /\ <<"account_deactivated_retrying">> \in Seq(TaskStages)
      /\ confirmed \in Seq(TaskStages) /\ banning \in Seq(TaskStages) /\ banning # << >>
      /\ {"retry_close", "locate"} \subseteq QuietAwaits
  BY DEF TaskStages, AuthorizationStages, NonCancellableStages, WriteStages, QuietAwaits,
         Awaits, WriteCalls, Requests, AfterRun
<1>a. /\ confirmed \o banning \in Seq(TaskStages) /\ confirmed \o banning # << >>
      /\ EndOf(stage, confirmed \o banning) = "marking_account_banned"
  <2>1. EndOf(stage, banning) = "marking_account_banned"
    BY DEF EndOf
  <2>2. QED BY <1>5, <2>1, LongerPath
<1>6. CASE detected + 1 < input.attempts
  <2>1. GoesOn({"retry_close"})
    BY <1>0, <1>5, <1>6, AuthorizationMove DEF DeactivationSeen
  <2>2. WriteInv'
    <3>1. Moved({"retry_close"} \union {"ended"}, {stage'})
      BY <2>1 DEF Moved, GoesOn
    <3>2. QED BY <1>1, <1>4, <1>5, <3>1, QuietStep
  <2>3. CounterInv'
    BY <1>3, <1>4, <1>6, <2>1 DEF CounterInv, GoesOn, DeactivationSeen
  <2>4. QED BY <1>4, <2>1, <2>2, <2>3 DEF IInv, TypeOK, GoesOn
<1>7. CASE ~(detected + 1 < input.attempts) /\ Creating
  <2>1. GoesOn({"locate"})
    BY <1>0, <1>5, <1>7, AuthorizationMove DEF DeactivationSeen
  <2>2. WriteInv'
    <3>1. Moved({"locate"} \union {"ended"}, {stage'})
      BY <2>1 DEF Moved, GoesOn
    <3>2. QED BY <1>1, <1>4, <1>5, <3>1, QuietStep
  <2>3. CounterInv'
    BY <2>1 DEF CounterInv, GoesOn, AfterRun
  <2>4. QED BY <1>4, <2>1, <2>2, <2>3 DEF IInv, TypeOK, GoesOn
<1>8. CASE ~(detected + 1 < input.attempts) /\ ~Creating
  <2>1. BeginWrite(confirmed \o banning, "ban")
    BY <1>8 DEF DeactivationSeen
  <2>2. /\ TaskTypeOK' /\ KeepsEnd
        /\ Moved({}, {}) \/ Admitted("ban", {"marking_account_banned"})
    BY <1>0, <1>a, <2>1, BeginWriteFacts DEF WriteKinds
  <2>3. {"marking_account_banned"} \subseteq WriteStages /\ WriteStages \subseteq TaskStages
    BY DEF WriteStages, TaskStages, NonCancellableStages
  <2>4. QED BY <1>1, <1>4, <2>2, <2>3, BeginStep DEF WriteKinds
<1>9. QED BY <1>6, <1>7, <1>8
-----------------------------------------------------------------------------
(* The code exchange and the start of a write.                             *)

StartMoves ==
  BanTargetLocated \/ CodeExchanged \/ TargetReloaded \/ DuplicateChecked

(* What BeginWrite does for a path that ends in a stage of a write.        *)
LEMMA BeginWriteMove ==
  ASSUME IInv, pc \in QuietAwaits, UNCHANGED sent, UNCHANGED input, RunTypeOK',
         NEW path \in Seq(TaskStages), path # << >>, EndOf(stage, path) \in WriteStages,
         NEW k \in WriteKinds, BeginWrite(path, k)
  PROVE  IInv' /\ KeepsEnd
<1>1. /\ TaskTypeOK' /\ KeepsEnd
      /\ Moved({}, {}) \/ Admitted(k, {EndOf(stage, path)})
  BY BeginWriteFacts DEF IInv, TypeOK
<1>2. {EndOf(stage, path)} \in SUBSET TaskStages
  BY DEF TaskStages, NonCancellableStages
<1>3. QED BY <1>1, <1>2, BeginStep

(* The steps that lead from the login to a write keep the invariant.       *)
LEMMA StartSteps ==
  ASSUME IInv, StartMoves
  PROVE  IInv' /\ KeepsEnd
<1> USE DEF Waiting, At
<1>0. TaskTypeOK /\ RunTypeOK /\ gate \in BOOLEAN
  BY DEF IInv, TypeOK, RunTypeOK
<1>1. RunTypeOK' /\ UNCHANGED <<sent, input, detected>>
  <2>1. UNCHANGED <<input, writeVars, twin, loginVars, humanVars, target, windowVars, oauthVars>>
    BY DEF StartMoves, BanTargetLocated, CodeExchanged, TargetReloaded, DuplicateChecked,
           deactivationUnchanged, exchangeUnchanged
  <2>2. QED BY <1>0, <2>1 DEF RunTypeOK, writeVars, windowVars, loginVars, oauthVars, humanVars
<1>2. {"exchange", "reload_target", "find_duplicate"} \subseteq QuietAwaits \ {"locate", "resend"}
      /\ "locate" \in QuietAwaits
  BY DEF QuietAwaits, Awaits, PageCalls, PageActions, WriteCalls, Requests, AfterRun
<1>3. /\ << >> \in Seq(TaskStages)
      /\ <<"checking_duplicate">> \in Seq(TaskStages)
      /\ <<"already_exists">> \in Seq(TaskStages)
      /\ \A s \in {"marking_account_banned", "applying_oauth_credentials", "creating_account"} :
           /\ <<s>> \in Seq(TaskStages) /\ <<s>> # << >> /\ EndOf(stage, <<s>>) \in WriteStages
           /\ <<"checking_duplicate", s>> \in Seq(TaskStages) /\ <<"checking_duplicate", s>> # << >>
           /\ EndOf(stage, <<"checking_duplicate", s>>) \in WriteStages
  BY DEF TaskStages, NonCancellableStages, WriteStages, TerminalStages, EndOf
<1>4. CASE BanTargetLocated
  BY <1>1, <1>2, <1>3, <1>4, BeginWriteMove DEF BanTargetLocated, WriteKinds
<1>5. CASE CodeExchanged
  <2>1. CASE Reauthorizing
    <3>1. GoesOn({"reload_target"})
      BY <1>0, <1>2, <1>3, <1>5, <2>1, AuthorizationMove DEF CodeExchanged
    <3>2. QED BY <1>1, <1>2, <1>5, <3>1, QuietMove DEF CodeExchanged
  <2>2. CASE ~Reauthorizing /\ input.allowDuplicateCreation
    BY <1>1, <1>2, <1>3, <1>5, <2>2, BeginWriteMove DEF CodeExchanged, WriteKinds
  <2>3. CASE ~Reauthorizing /\ ~input.allowDuplicateCreation
    <3>1. GoesOn({"find_duplicate"})
      BY <1>0, <1>2, <1>3, <1>5, <2>3, AuthorizationMove DEF CodeExchanged
    <3>2. QED BY <1>1, <1>2, <1>5, <3>1, QuietMove DEF CodeExchanged
  <2>4. QED BY <2>1, <2>2, <2>3
<1>6. CASE TargetReloaded
  BY <1>1, <1>2, <1>3, <1>6, BeginWriteMove DEF TargetReloaded, WriteKinds
<1>7. CASE DuplicateChecked
  <2>1. CASE twin
    <3>1. GoesOn({})
      <4>1. Advance(<<"already_exists">>, "closing") /\ "closing" \in Awaits
        BY <1>7, <2>1 DEF DuplicateChecked, Finish, Awaits
      <4>2. QED BY <1>0, <1>3, <4>1, AdvanceFacts DEF GoesOn, Moved
    <3>2. {} \in SUBSET (QuietAwaits \ {"resend"}) /\ pc = "find_duplicate"
      BY <1>7 DEF DuplicateChecked
    <3>3. QED BY <1>1, <1>2, <3>1, <3>2, QuietMove
  <2>2. CASE ~twin
    BY <1>1, <1>2, <1>3, <1>7, <2>2, BeginWriteMove DEF DuplicateChecked, WriteKinds
  <2>3. QED BY <2>1, <2>2
<1>8. QED BY <1>4, <1>5, <1>6, <1>7 DEF StartMoves
-----------------------------------------------------------------------------
(* The writes.                                                             *)

(* The stages a task can be in once a write has begun that is not a note.  *)
ReportStages == WriteStages \union (TerminalStages \ {"cancelled"})

(* The run stays with its write, or ends.                                  *)
Reports(N) ==
  /\ TaskTypeOK' /\ KeepsEnd
  /\ kind' = kind
  /\ pc' \in N \union {"closing"}
  /\ stage' \in {stage} \union ReportStages

(* A step of a write that sends at most the one request it was admitted    *)
(* for keeps the invariant.                                                *)
LEMMA WriteStep ==
  ASSUME IInv, pc \in WriteCalls, exchangeUnchanged, UNCHANGED twin,
         outcome' \in {"unsent", "flying", "limbo", "applied", "refused"},
         NEW N \in SUBSET WriteCalls, Reports(N),
         \/ UNCHANGED sent /\ N \intersect BeforeRequest = {}
         \/ UNCHANGED sent /\ pc \in BeforeRequest
         \/ sent' = sent + 1 /\ pc \in BeforeRequest /\ N \intersect BeforeRequest = {}
  PROVE  IInv' /\ KeepsEnd
<1>1. kind # "none" /\ sent \in Nat /\ sent <= 1
  BY DEF IInv, WriteInv, TypeOK, RunTypeOK
<1>2. pc' \in WriteCalls \union AfterRun /\ kind' = kind
  BY DEF Reports, AfterRun
<1>3. sent' \in Nat /\ sent' <= 1 /\ (pc' \in BeforeRequest => sent' = 0)
  <2>1. "closing" \notin BeforeRequest
    BY DEF BeforeRequest
  <2>2. pc \in BeforeRequest => sent = 0
    BY DEF IInv, WriteInv
  <2>3. QED BY <1>1, <2>1, <2>2 DEF Reports
<1>4. WriteInv'
  BY <1>1, <1>2, <1>3 DEF IInv, WriteInv, Reports, ReportStages
<1>5. CounterInv'
  <2>1. "resend" \notin WriteCalls \union AfterRun /\ "next_proxy" \notin WriteCalls \union AfterRun
    BY DEF WriteCalls, Requests, AfterRun
  <2>2. QED BY <1>2, <2>1 DEF CounterInv
<1>6. RunTypeOK'
  BY <1>3 DEF IInv, TypeOK, RunTypeOK, exchangeUnchanged, windowVars, loginVars, oauthVars,
              humanVars
<1>7. QED BY <1>4, <1>5, <1>6 DEF IInv, TypeOK, Reports

(* How a segment of a write ends: at the next request, or with the task.   *)
LEMMA ReportMove ==
  ASSUME TaskTypeOK, NEW path \in Seq(ReportStages), NEW next \in WriteCalls \union {"closing"},
         Advance(path, next)
  PROVE  Reports({next})
<1>1. path \in Seq(TaskStages) /\ next \in Awaits
  BY DEF ReportStages, TaskStages, NonCancellableStages, Awaits
<1>2. EndOf(stage, path) \in {stage} \union ReportStages /\ "failed" \in ReportStages
  BY DEF EndOf, ReportStages, TerminalStages
<1>3. QED BY <1>1, <1>2, AdvanceFacts DEF Reports, Moved

(* An error under a write fails the task and admits nothing more.          *)
LEMMA ReportFailure ==
  ASSUME TaskTypeOK, NEW c \in Codes, Fail(c) \/ (Throw(c) /\ c # "needs_note")
  PROVE  Reports({})
<1>1. "failed" \in ReportStages
  BY DEF ReportStages, TerminalStages
<1>2. QED BY <1>1, FailFacts, ThrowFacts DEF Reports, Moved

WriteMoves ==
  \/ WriteAdmitted
  \/ ApplyReplied \/ ApplyRead \/ ApplyConfirmed
  \/ CreateReplied \/ CreateRead \/ CreateLookedUp
  \/ BanRead \/ BanReplied \/ BanConfirmed
  \/ NoteLoaded \/ NoteReplied \/ NoteConfirmed

(* Every step of a write keeps the invariant.                              *)
LEMMA WriteSteps ==
  ASSUME IInv, WriteMoves
  PROVE  IInv' /\ KeepsEnd
<1> USE DEF Waiting, At, Send, Finish
<1>0. TaskTypeOK /\ outcome \in {"unsent", "flying", "limbo", "applied", "refused"}
  BY DEF IInv, TypeOK, RunTypeOK
<1>1. exchangeUnchanged /\ UNCHANGED twin
  BY DEF WriteMoves, WriteAdmitted, ApplyReplied, ApplyRead, ApplyConfirmed, CreateReplied,
         CreateRead, CreateLookedUp, BanRead, BanReplied, BanConfirmed, NoteLoaded,
         NoteReplied, NoteConfirmed
<1>2. /\ << >> \in Seq(ReportStages)
      /\ <<"confirming_reauthorization">> \in Seq(ReportStages)
      /\ <<"reauthorization_result_uncertain">> \in Seq(ReportStages)
      /\ <<"create_result_uncertain">> \in Seq(ReportStages)
      /\ <<"completed">> \in Seq(ReportStages)
      /\ <<"confirming_account", "completed">> \in Seq(ReportStages)
  BY DEF ReportStages, WriteStages, TerminalStages
<1>3. /\ {"apply_put", "create_post", "ban_put", "note_put", "write_gate", "apply_read",
          "apply_confirm", "create_get", "create_lookup", "ban_read", "ban_confirm",
          "note_load", "note_confirm"} \subseteq WriteCalls
      /\ {"refused", "uncertain", "error", "banned", "needs_note"} \subseteq Codes
  BY DEF WriteCalls, Requests, Codes
<1>4. CASE WriteAdmitted
  <2>1. CASE UNCHANGED writeVars
    <3>1. Reports({"ban_read", "note_load"}) \/ Reports({"apply_put", "create_post"})
      BY <1>0, <1>2, <1>3, <1>4, <2>1, ReportMove DEF WriteAdmitted, Reports
    <3>2. pc = "write_gate" /\ UNCHANGED <<sent, outcome>>
      BY <1>4, <2>1 DEF WriteAdmitted, writeVars
    <3>3. QED BY <1>0, <1>1, <1>3, <3>1, <3>2, WriteStep DEF BeforeRequest
  <2>2. CASE ~UNCHANGED writeVars
    <3>1. Reports({"apply_put", "create_post"}) /\ pc = "write_gate" /\ sent' = sent + 1
          /\ outcome' = "flying"
      BY <1>0, <1>2, <1>3, <1>4, <2>2, ReportMove DEF WriteAdmitted, Reports
    <3>2. {"apply_put", "create_post"} \intersect BeforeRequest = {}
      BY DEF BeforeRequest
    <3>3. QED BY <1>1, <1>3, <3>1, <3>2, WriteStep DEF BeforeRequest
  <2>3. QED BY <2>1, <2>2
<1>5. CASE ApplyReplied
  <2>1. Reports({"apply_read", "apply_confirm"})
    BY <1>0, <1>2, <1>3, <1>5, ReportMove, ReportFailure DEF ApplyReplied, Reports
  <2>2. /\ pc = "apply_put" /\ UNCHANGED sent
        /\ outcome' \in {"unsent", "flying", "limbo", "applied", "refused"}
        /\ {"apply_read", "apply_confirm"} \intersect BeforeRequest = {}
    BY <1>5 DEF ApplyReplied, BeforeRequest
  <2>3. QED BY <1>1, <1>3, <2>1, <2>2, WriteStep
<1>6. CASE ApplyRead \/ ApplyConfirmed \/ CreateLookedUp
  <2>1. Reports({})
    <3>1. \/ Advance(<<"completed">>, "closing") \/ Fail("uncertain")
      BY <1>6 DEF ApplyRead, ApplyConfirmed, CreateLookedUp
    <3>2. QED BY <1>0, <1>2, <1>3, <3>1, ReportMove, ReportFailure DEF Reports
  <2>2. /\ pc \in {"apply_read", "apply_confirm", "create_lookup"} /\ UNCHANGED <<sent, outcome>>
        /\ {} \in SUBSET WriteCalls
    BY <1>6 DEF ApplyRead, ApplyConfirmed, CreateLookedUp, writeVars
  <2>3. QED BY <1>0, <1>1, <1>3, <2>1, <2>2, WriteStep
<1>7. CASE CreateReplied
  <2>1. Reports({"create_get", "create_lookup"})
    BY <1>0, <1>2, <1>3, <1>7, ReportMove, ReportFailure DEF CreateReplied, CreateUncertain, Reports
  <2>2. /\ pc = "create_post" /\ UNCHANGED sent
        /\ outcome' \in {"unsent", "flying", "limbo", "applied", "refused"}
        /\ {"create_get", "create_lookup"} \intersect BeforeRequest = {}
    BY <1>7 DEF CreateReplied, BeforeRequest
  <2>3. QED BY <1>1, <1>3, <2>1, <2>2, WriteStep
<1>8. CASE CreateRead
  <2>1. Reports({"create_lookup"})
    BY <1>0, <1>2, <1>3, <1>8, ReportMove, ReportFailure DEF CreateRead, CreateUncertain, Reports
  <2>2. /\ pc = "create_get" /\ UNCHANGED <<sent, outcome>>
        /\ {"create_lookup"} \intersect BeforeRequest = {}
    BY <1>8 DEF CreateRead, BeforeRequest, writeVars
  <2>3. QED BY <1>0, <1>1, <1>3, <2>1, <2>2, WriteStep
<1>9. CASE BanRead
  <2>1. /\ Reports({"ban_put"}) /\ pc \in BeforeRequest
        /\ \/ UNCHANGED <<sent, outcome>>
           \/ sent' = sent + 1 /\ outcome' = "flying"
    BY <1>0, <1>2, <1>3, <1>9, ReportMove, ReportFailure
       DEF BanRead, Reports, BeforeRequest, writeVars
  <2>2. {"ban_put"} \intersect BeforeRequest = {} /\ pc = "ban_read"
    BY <1>9 DEF BeforeRequest, BanRead
  <2>3. QED BY <1>0, <1>1, <1>3, <2>1, <2>2, WriteStep
<1>10. CASE BanReplied
  <2>1. Reports({"ban_confirm"})
    BY <1>0, <1>2, <1>3, <1>10, ReportMove, ReportFailure DEF BanReplied, Reports
  <2>2. /\ pc = "ban_put" /\ UNCHANGED sent
        /\ outcome' \in {"unsent", "flying", "limbo", "applied", "refused"}
        /\ {"ban_confirm"} \intersect BeforeRequest = {}
    BY <1>10 DEF BanReplied, BeforeRequest
  <2>3. QED BY <1>1, <1>3, <2>1, <2>2, WriteStep
<1>11. CASE BanConfirmed \/ NoteConfirmed
  <2>1. Reports({})
    BY <1>0, <1>3, <1>11, ReportFailure DEF BanConfirmed, NoteConfirmed
  <2>2. /\ pc \in {"ban_confirm", "note_confirm"} /\ UNCHANGED <<sent, outcome>>
        /\ {} \in SUBSET WriteCalls
    BY <1>11 DEF BanConfirmed, NoteConfirmed, writeVars
  <2>3. QED BY <1>0, <1>1, <1>3, <2>1, <2>2, WriteStep
<1>12. CASE NoteLoaded
  <2>1. /\ Reports({"note_put"}) /\ pc \in BeforeRequest
        /\ \/ UNCHANGED <<sent, outcome>>
           \/ sent' = sent + 1 /\ outcome' = "flying"
    BY <1>0, <1>2, <1>3, <1>12, ReportMove, ReportFailure
       DEF NoteLoaded, Reports, BeforeRequest, writeVars
  <2>2. {"note_put"} \intersect BeforeRequest = {} /\ pc = "note_load"
    BY <1>12 DEF BeforeRequest, NoteLoaded
  <2>3. QED BY <1>0, <1>1, <1>3, <2>1, <2>2, WriteStep
<1>13. CASE NoteReplied
  <2>1. Reports({"note_confirm"})
    BY <1>0, <1>2, <1>3, <1>13, ReportMove, ReportFailure DEF NoteReplied, Reports
  <2>2. /\ pc = "note_put" /\ UNCHANGED sent
        /\ outcome' \in {"unsent", "flying", "limbo", "applied", "refused"}
        /\ {"note_confirm"} \intersect BeforeRequest = {}
    BY <1>13 DEF NoteReplied, BeforeRequest
  <2>3. QED BY <1>1, <1>3, <2>1, <2>2, WriteStep
<1>14. QED BY <1>4, <1>5, <1>6, <1>7, <1>8, <1>9, <1>10, <1>11, <1>12, <1>13 DEF WriteMoves
-----------------------------------------------------------------------------
(* Errors, the end of the run, people and the environment.                 *)

FailureMoves ==
  \/ \E p \in Fallible : CallFails(p)
  \/ \E p \in AbortAware \ {"browser_start"} : AbortSeen(p)

(* A call that fails or is aborted keeps the invariant.                    *)
LEMMA FailureSteps ==
  ASSUME IInv, FailureMoves
  PROVE  IInv' /\ KeepsEnd
<1> USE DEF Waiting, At
<1>1. ASSUME NEW p \in Fallible, CallFails(p)
      PROVE  IInv' /\ KeepsEnd
  <2>1. pc \notin AfterRun
    BY <1>1 DEF CallFails, Fallible, PageCalls, PageActions, AfterRun
  <2>2. PICK c \in Codes : Throw(c)
    BY <1>1 DEF CallFails, FailureCodes, Codes
  <2>3. QED BY <1>1, <2>1, <2>2, ThrowStep DEF CallFails
<1>2. ASSUME NEW p \in AbortAware \ {"browser_start"}, AbortSeen(p)
      PROVE  IInv' /\ KeepsEnd
  <2>1. pc \notin AfterRun
    BY <1>2 DEF AbortSeen, AbortAware, AfterRun
  <2>2. QED BY <1>2, <2>1, ThrowStep DEF AbortSeen, Codes
<1>3. QED BY <1>1, <1>2 DEF FailureMoves

(* A step that leaves the task, its counters and its write alone.          *)
LEMMA AsideStep ==
  ASSUME IInv, UNCHANGED <<input, stage, code, kind, sent, loginVars, session, sightings,
                           detected, proxyTry, target>>,
         pc' = pc \/ pc' \in AfterRun,
         gated' \in BOOLEAN, RunTypeOK'
  PROVE  IInv' /\ KeepsEnd
<1>1. TaskTypeOK'
  BY DEF IInv, TypeOK, TaskTypeOK, AfterRun, Awaits
<1>2. CounterInv'
  BY DEF IInv, CounterInv, AfterRun, loginVars
<1>3. WriteInv'
  <2>1. AfterRun \intersect (WriteCalls \union BeforeRequest) = {}
    BY DEF AfterRun, WriteCalls, Requests, BeforeRequest
  <2>2. QED BY <2>1 DEF IInv, WriteInv
<1>4. QED BY <1>1, <1>2, <1>3 DEF IInv, TypeOK, KeepsEnd

(* A cancellation is admitted only before a write other than a note.       *)
LEMMA CancelStep ==
  ASSUME IInv, Cancel
  PROVE  IInv' /\ KeepsEnd
<1>1. stage \notin WriteStages \union TerminalStages
  BY DEF Cancel, CanCancel, NonCancellableStages
<1>2. kind \in {"none", "note"}
  BY <1>1 DEF IInv, TypeOK, TaskTypeOK, WriteInv, WriteKinds
<1>3. /\ stage' = "cancelled" /\ aborted' = TRUE
      /\ \/ pc' = pc /\ gated' = gated
         \/ pc' = "closing" /\ gated' = FALSE
      /\ UNCHANGED <<input, code, kind, sent, outcome, twin, chrome, held, page, captured,
                     round, resends, tries, session, sightings, detected, proxyTry, opened,
                     gate, target>>
  BY DEF Cancel, writeVars, windowVars, loginVars, oauthVars
<1>4. TaskTypeOK'
  BY <1>3 DEF IInv, TypeOK, TaskTypeOK, TaskStages, NonCancellableStages, TerminalStages, Awaits
<1>5. RunTypeOK'
  BY <1>3 DEF IInv, TypeOK, RunTypeOK
<1>6. CounterInv'
  BY <1>3 DEF IInv, CounterInv, AfterRun
<1>7. WriteInv'
  BY <1>2, <1>3 DEF IInv, WriteInv, AfterRun, WriteCalls, Requests, BeforeRequest
<1>8. QED BY <1>1, <1>4, <1>5, <1>6, <1>7 DEF IInv, TypeOK, KeepsEnd, Terminal

(* A crash ends the task as interrupted unless it had ended before.        *)
LEMMA RestartStep ==
  ASSUME IInv, Restart
  PROVE  IInv' /\ KeepsEnd
<1>1. /\ pc' = "ended" /\ gated' = FALSE /\ gate' = FALSE /\ held' = FALSE
      /\ stage' \in {stage, "interrupted"} /\ (Terminal => stage' = stage)
      /\ outcome' \in {outcome, "limbo"} /\ chrome' \in {0, chrome}
      /\ page' = FALSE /\ captured' = FALSE
      /\ UNCHANGED <<input, code, kind, sent, twin, round, resends, tries, session,
                     sightings, detected, proxyTry, opened, aborted, target>>
  BY DEF Restart, loginVars, oauthVars
<1>2. TaskTypeOK'
  BY <1>1 DEF IInv, TypeOK, TaskTypeOK, TaskStages, NonCancellableStages, TerminalStages, Awaits
<1>3. RunTypeOK'
  <2>1. RunTypeOK
    BY DEF IInv, TypeOK
  <2>2. chrome' \in Nat
    BY <1>1, <2>1 DEF RunTypeOK
  <2>3. outcome' \in {"unsent", "flying", "limbo", "applied", "refused"}
    BY <1>1, <2>1 DEF RunTypeOK
  <2>4. gate' \in BOOLEAN /\ held' \in BOOLEAN /\ page' \in BOOLEAN /\ captured' \in BOOLEAN
    BY <1>1
  <2>5. QED BY <1>1, <2>1, <2>2, <2>3, <2>4 DEF RunTypeOK
<1>4. CounterInv'
  BY <1>1 DEF IInv, CounterInv, AfterRun
<1>5. WriteInv'
  BY <1>1 DEF IInv, WriteInv, AfterRun, WriteCalls, Requests, BeforeRequest, TerminalStages
<1>6. QED BY <1>1, <1>2, <1>3, <1>4, <1>5 DEF IInv, TypeOK, KeepsEnd

AsideMoves ==
  \/ Closed \/ TakeOver \/ ReleaseTakeover \/ UserClosesPage
  \/ CallbackCaptured \/ TwinAppears \/ LimboLands \/ Terminated

(* The end of the run and the steps of people and of the environment that  *)
(* do not touch the task keep the invariant.                               *)
LEMMA AsideSteps ==
  ASSUME IInv, AsideMoves
  PROVE  IInv' /\ KeepsEnd
<1> USE DEF At
<1>0. RunTypeOK /\ gated \in BOOLEAN /\ 0 \in Nat
  BY DEF IInv, TypeOK, TaskTypeOK
<1>1. UNCHANGED <<input, stage, code, kind, sent, loginVars, session, sightings,
                  detected, proxyTry, target, opened, aborted>>
  BY DEF AsideMoves, Closed, TakeOver, ReleaseTakeover, UserClosesPage, CallbackCaptured,
         TwinAppears, LimboLands, Terminated, vars, taskVars, writeVars, oauthVars, humanVars
<1>2. /\ pc' = pc \/ pc' \in AfterRun
      /\ gated' \in BOOLEAN /\ gate' \in BOOLEAN
  BY <1>0 DEF AsideMoves, Closed, TakeOver, ReleaseTakeover, UserClosesPage, CallbackCaptured,
         TwinAppears, LimboLands, Terminated, vars, taskVars, humanVars, AfterRun, RunTypeOK
<1>3. /\ outcome' \in {"unsent", "flying", "limbo", "applied", "refused"}
      /\ chrome' \in Nat
  BY <1>0 DEF AsideMoves, Closed, SessionClosed, TakeOver, ReleaseTakeover, UserClosesPage,
         CallbackCaptured, TwinAppears, LimboLands, Terminated, vars, writeVars, windowVars,
         RunTypeOK
<1>a. /\ twin' \in BOOLEAN /\ held' \in BOOLEAN
      /\ page' \in BOOLEAN /\ captured' \in BOOLEAN
  BY <1>0 DEF AsideMoves, Closed, SessionClosed, TakeOver, ReleaseTakeover, UserClosesPage,
         CallbackCaptured, TwinAppears, LimboLands, Terminated, vars, writeVars, windowVars,
         RunTypeOK
<1>4. RunTypeOK'
  BY <1>0, <1>1, <1>2, <1>3, <1>a DEF RunTypeOK, loginVars
<1>5. QED BY <1>1, <1>2, <1>4, AsideStep
-----------------------------------------------------------------------------
(* The theorems.                                                           *)

(* A fresh task satisfies the invariant.                                   *)
LEMMA InitIInv == Init => IInv
<1> SUFFICES ASSUME Init PROVE IInv
  OBVIOUS
<1>1. input.attempts \in 1 .. 10 /\ input.fallbacks \in Nat
  BY InputsAssumption DEF Init, InputType
<1>2. TypeOK
  <2>1. TaskTypeOK
    BY DEF Init, TaskTypeOK, TaskStages, Codes, Awaits, WriteKinds
  <2>2. /\ 0 \in 0 .. input.attempts /\ 0 \in 0 .. input.fallbacks + 1
        /\ 1 \in 1 .. DynamicProxyConnectionAttempts /\ 1 \in 1 .. EmailOtpRoundLimit
        /\ 0 \in 0 .. OtpResendAttempts
    BY <1>1 DEF DynamicProxyConnectionAttempts, EmailOtpRoundLimit, OtpResendAttempts
  <2>3. RunTypeOK
    BY <2>2 DEF Init, RunTypeOK
  <2>4. QED BY <2>1, <2>3 DEF TypeOK
<1>3. CounterInv /\ WriteInv
  BY <1>1 DEF Init, CounterInv, WriteInv, WriteCalls, Requests, AfterRun, BeforeRequest
<1>4. QED BY <1>2, <1>3 DEF IInv

(* Every step of the run, of a person and of the environment preserves the *)
(* invariant and leaves an ended task alone.                               *)
LEMMA NextIInv == IInv /\ [Next]_vars => IInv' /\ KeepsEnd
<1> SUFFICES ASSUME IInv, [Next]_vars PROVE IInv' /\ KeepsEnd
  OBVIOUS
<1>1. CASE PreparationMoves
  BY <1>1, PreparationSteps
<1>2. CASE AuthorizationMoves
  BY <1>2, AuthorizationSteps
<1>3. CASE LoginMoves
  BY <1>3, LoginSteps
<1>4. ASSUME NEW p \in PageActions \union {"classify", "manual_wait", "wait_callback"},
             DeactivationSeen(p)
      PROVE  IInv' /\ KeepsEnd
  BY <1>4, SightingStep
<1>5. CASE StartMoves
  BY <1>5, StartSteps
<1>6. CASE WriteMoves
  BY <1>6, WriteSteps
<1>7. CASE FailureMoves
  BY <1>7, FailureSteps
<1>8. CASE AsideMoves \/ UNCHANGED vars
  <2>1. CASE UNCHANGED vars
    BY <2>1 DEF IInv, TypeOK, TaskTypeOK, RunTypeOK, CounterInv, WriteInv, KeepsEnd, vars,
                taskVars, writeVars, windowVars, loginVars, oauthVars, humanVars
  <2>2. QED BY <1>8, <2>1, AsideSteps
<1>9. CASE Cancel
  BY <1>9, CancelStep
<1>10. CASE Restart
  BY <1>10, RestartStep
<1>11. Automation =>
         \/ PreparationMoves \/ AuthorizationMoves \/ LoginMoves \/ StartMoves
         \/ WriteMoves \/ FailureMoves \/ AsideMoves
         \/ \E p \in PageActions \union {"classify"} : DeactivationSeen(p)
  BY DEF Automation, Preparation, Login, BackendWrites, PreparationMoves,
         AuthorizationMoves, LoginMoves, StartMoves, WriteMoves, FailureMoves, AsideMoves
<1>12. Provider =>
         \/ LoginMoves \/ FailureMoves
         \/ \E p \in {"manual_wait", "wait_callback"} : DeactivationSeen(p)
  BY DEF Provider, LoginMoves, FailureMoves, Fallible, Waits, PageCalls
<1>13. People \/ Environment \/ Terminated => AsideMoves \/ Cancel \/ Restart
  BY DEF People, Environment, AsideMoves
<1>14. QED BY <1>1, <1>2, <1>3, <1>4, <1>5, <1>6, <1>7, <1>8, <1>9, <1>10, <1>11, <1>12,
              <1>13 DEF Next

(* The inductive invariant holds throughout.                               *)
THEOREM Invariant == Spec => []IInv
<1>1. IInv /\ [Next]_vars => IInv'
  BY NextIInv
<1>2. QED BY InitIInv, <1>1, PTL DEF Spec

(* The run is always at one of its awaits, in one of the stages, and no    *)
(* counter passes its limit: sightings, proxy attempts, OTP rounds,        *)
(* resends, passwords and codes.                                           *)
THEOREM TypeCorrect == Spec => []TypeOK
<1>1. IInv => TypeOK
  BY DEF IInv
<1>2. QED BY Invariant, <1>1, PTL

(* No task ever sends a second write request to the backend, whatever the  *)
(* replies, cancellations and takeovers (orchestrator.ts beforeBackend-    *)
(* Write and the three backend clients).                                   *)
THEOREM WriteOnce == Spec => []WriteAtMostOnce
<1>1. IInv => WriteAtMostOnce
  BY DEF IInv, WriteInv, WriteAtMostOnce
<1>2. QED BY Invariant, <1>1, PTL

(* A cancelled task has not created, updated or banned an account, however *)
(* the cancellation interleaves with the run (state-machine.ts canCancel). *)
THEOREM CancelledWrites == Spec => []CancelledWroteNothing
<1>1. IInv => CancelledWroteNothing
  BY DEF IInv, WriteInv, TypeOK, TaskTypeOK, WriteKinds, WriteStages, TerminalStages,
         CancelledWroteNothing
<1>2. QED BY Invariant, <1>1, PTL

(* A task that has ended keeps its stage and its error: an error thrown    *)
(* later, a cancellation or a restart does not change them.                *)
THEOREM EndStays == Spec => EndIsFinal
<1>1. IInv /\ [Next]_vars => [Terminal => stage' = stage /\ code' = code]_vars
  BY NextIInv DEF KeepsEnd
<1>2. QED BY Invariant, <1>1, PTL DEF Spec, EndIsFinal

----------------------------------------------------------------------------
(* More about the run: who owns the browser window, what the gate holds    *)
(* back, which stage belongs to which await, and what the end of a task    *)
(* says about the backend.  Each result adds a part of its own to IInv.    *)

(* The awaits a run may be held at by the gate. *)
GatedAwaits == PageActions \union {"wait_callback"}

(* A segment that ends at a page action has asked the gate. *)
GateAsked ==
  /\ gated' => pc' \in GatedAwaits
  /\ gate /\ pc' \in PageActions => gated'

(* The end of a run, and a write that is admitted, are no page action.     *)
LEMMA EndAsked ==
  ASSUME NEW c, Throw(c) \/ Fail(c)
  PROVE  GateAsked
<1>1. "closing" \notin PageActions /\ "write_gate" \notin PageActions
  BY DEF PageActions
<1>2. QED BY <1>1 DEF Throw, Fail, AdmitWrite, GateAsked

(* Neither is the await of a segment that does not ask the gate.           *)
LEMMA AdvanceAsked ==
  ASSUME NEW path, NEW next, next \notin PageActions, Advance(path, next)
  PROVE  GateAsked
BY EndAsked DEF Advance, Arrive, GateAsked

(* Nor a write. *)
LEMMA BeginAsked ==
  ASSUME NEW path, NEW k, BeginWrite(path, k)
  PROVE  GateAsked
<1>1. "write_gate" \notin PageActions
  BY DEF PageActions
<1>2. QED BY <1>1, EndAsked DEF BeginWrite, AdmitWrite, GateAsked

(* A segment that does ask is held if somebody has taken over.             *)
LEMMA GatePassed ==
  ASSUME gate \in BOOLEAN, NEW path, NEW next \in GatedAwaits, AdvanceToGate(path, next)
  PROVE  GateAsked
<1>1. "closing" \notin PageActions /\ "write_gate" \notin PageActions
  BY DEF PageActions
<1>3. Throw("error") \/ Throw("illegal") => GateAsked
  BY <1>1 DEF Throw, Fail, AdmitWrite, GateAsked
<1>4. QED BY <1>1, <1>3 DEF AdvanceToGate, Arrive, GateAsked

(* The steps of the run itself, as opposed to those around it. *)
RunMoves ==
  \/ PreparationMoves \/ AuthorizationMoves \/ LoginMoves \/ StartMoves
  \/ WriteMoves \/ FailureMoves
  \/ \E p \in PageActions \union {"classify", "manual_wait", "wait_callback"} :
       DeactivationSeen(p)

(* The next-state relation, regrouped.                                     *)
LEMMA StepGroups ==
  ASSUME [Next]_vars
  PROVE  RunMoves \/ AsideMoves \/ Cancel \/ Restart \/ UNCHANGED vars
<1>1. Automation => RunMoves \/ AsideMoves
  BY DEF Automation, Preparation, Login, BackendWrites, RunMoves, PreparationMoves,
         AuthorizationMoves, LoginMoves, StartMoves, WriteMoves, FailureMoves, AsideMoves
<1>2. Provider => RunMoves
  BY DEF Provider, RunMoves, LoginMoves, FailureMoves, Fallible, Waits, PageCalls
<1>3. People \/ Environment \/ Terminated => AsideMoves \/ Cancel \/ Restart
  BY DEF People, Environment, AsideMoves
<1>4. QED BY <1>1, <1>2, <1>3 DEF Next

(* Every segment of the run asks the gate in front of a page action.       *)
LEMMA GateSteps ==
  ASSUME IInv, RunMoves
  PROVE  GateAsked
<1>0. gate \in BOOLEAN
  BY DEF IInv, TypeOK, RunTypeOK
<1> USE DEF Finish
<1>1. CASE PreparationMoves
  BY <1>1, AdvanceAsked, EndAsked, BeginAsked DEF PreparationMoves, MaterialResolved, TargetLoaded, OptionsLoaded,
     MixedChannelChecked, ExistingChecked, BaselineEstablished, ProxyResolved,
     AdvanceToMail, AdvanceToProxy, PageActions
<1>2. CASE AuthorizationMoves
  BY <1>0, <1>2, AdvanceAsked, EndAsked, BeginAsked, GatePassed DEF AuthorizationMoves, UrlGenerated, BrowserStarted,
     UrlOpened, BrowserReady, BrowserStartFails, NextProxyFound, RetryClosed, PageActions,
     GatedAwaits
<1>3. CASE LoginMoves
  <2>1. \A path : AskHuman \/ AdvanceToConsent(path) \/ AdvanceToCallback(path) => GateAsked
    BY <1>0, AdvanceAsked, EndAsked, BeginAsked, GatePassed DEF AskHuman, AdvanceToConsent, AdvanceToCallback,
       PageActions, GatedAwaits
  <2>2. QED
    BY <1>0, <1>3, <2>1, AdvanceAsked, EndAsked, BeginAsked, GatePassed DEF LoginMoves, EmailSubmitted, OtpFound,
       OtpRoundEnds, ResendAnswered, ResendBudgetSpent, OtpAccepted, PasswordAccepted,
       PasswordRefused, PageClassified, TotpGenerated, TotpStillActive, TotpAccepted,
       ConsentSubmitted, CallbackReceived, HumanProgressed, PageNeedsHuman, PageActions,
       GatedAwaits
<1>4. CASE StartMoves
  BY <1>4, AdvanceAsked, EndAsked, BeginAsked DEF StartMoves, BanTargetLocated, CodeExchanged, TargetReloaded,
     DuplicateChecked, PageActions
<1>5. CASE WriteMoves
  BY <1>5, AdvanceAsked, EndAsked, BeginAsked DEF WriteMoves, WriteAdmitted, Send, ApplyReplied, ApplyRead,
     ApplyConfirmed, CreateReplied, CreateUncertain, CreateRead, CreateLookedUp, BanRead,
     BanReplied, BanConfirmed, NoteLoaded, NoteReplied, NoteConfirmed, PageActions
<1>6. CASE FailureMoves
  BY <1>6, AdvanceAsked, EndAsked, BeginAsked DEF FailureMoves, CallFails, AbortSeen, PageActions
<1>7. ASSUME NEW p, DeactivationSeen(p) PROVE GateAsked
  BY <1>7, AdvanceAsked, EndAsked, BeginAsked DEF DeactivationSeen, PageActions
<1>8. QED BY <1>1, <1>2, <1>3, <1>4, <1>5, <1>6, <1>7 DEF RunMoves

(* While a person has taken over, the service types and clicks nothing     *)
(* new, whatever the run was doing when it was asked (manual-takeover.ts,  *)
(* and every manualGate.wait in execute).                                  *)
THEOREM TakeoverHolds == Spec => TakeoverHoldsPageActions
<1>1. ASSUME IInv, [Next]_vars
      PROVE  [gate /\ gate' => ~PageActionBegins]_vars
  <2>1. CASE RunMoves
    BY <1>1, <2>1, GateSteps DEF GateAsked, PageActionBegins
  <2>2. CASE AsideMoves
    BY <2>2 DEF AsideMoves, Closed, TakeOver, ReleaseTakeover, UserClosesPage,
       CallbackCaptured, TwinAppears, LimboLands, Terminated, taskVars, PageActions,
       PageActionBegins
  <2>3. CASE Cancel \/ Restart
    BY <2>3 DEF Cancel, Restart, PageActions, PageActionBegins
  <2>4. QED BY <1>1, <2>1, <2>2, <2>3, StepGroups
<1>2. QED BY Invariant, <1>1, PTL DEF Spec, TakeoverHoldsPageActions
-----------------------------------------------------------------------------
(* Paths of stages.                                                        *)

(* No transition can always be made.                                       *)
LEMMA NoStage ==
  ASSUME NEW from
  PROVE  CanFollow(from, << >>) /\ EndOf(from, << >>) = from
BY DEF CanFollow, EndOf

(* One can if the table has it.                                            *)
LEMMA OneStage ==
  ASSUME NEW from, NEW to, CanTransition(from, to)
  PROVE  CanFollow(from, <<to>>) /\ EndOf(from, <<to>>) = to
<1>1. Len(<<to>>) = 1 /\ <<to>>[1] = to
  OBVIOUS
<1>2. QED BY <1>1 DEF CanFollow, EndOf

(* Two can if both are in the table.                                       *)
LEMMA TwoStages ==
  ASSUME NEW from, NEW mid, NEW to, CanTransition(from, mid), CanTransition(mid, to)
  PROVE  CanFollow(from, <<mid, to>>) /\ EndOf(from, <<mid, to>>) = to
<1>1. Len(<<mid, to>>) = 2 /\ <<mid, to>>[1] = mid /\ <<mid, to>>[2] = to /\ 1 .. 2 - 1 = {1}
  OBVIOUS
<1>2. QED BY <1>1 DEF CanFollow, EndOf

(* A path of two pieces can be followed if each of them can.               *)
LEMMA LongerFollow ==
  ASSUME NEW from \in TaskStages, NEW path \in Seq(TaskStages), NEW tail \in Seq(TaskStages),
         CanFollow(from, path), CanFollow(EndOf(from, path), tail)
  PROVE  CanFollow(from, path \o tail)
<1> DEFINE p == path \o tail
<1>1. /\ p \in Seq(TaskStages) /\ Len(p) = Len(path) + Len(tail)
      /\ \A i \in 1 .. Len(path) : p[i] = path[i]
      /\ \A i \in Len(path) + 1 .. Len(p) : p[i] = tail[i - Len(path)]
      /\ Len(path) \in Nat /\ Len(tail) \in Nat
  OBVIOUS
<1>2. CASE path = << >>
  <2>1. Len(path) = 0 /\ EndOf(from, path) = from BY <1>2 DEF EndOf
  <2>2. p # << >> => tail # << >> /\ p[1] = tail[1]
    BY <1>1, <2>1
  <2>3. \A i \in 1 .. Len(p) - 1 : p[i] = tail[i] /\ p[i+1] = tail[i+1] /\ i \in 1 .. Len(tail) - 1
    BY <1>1, <2>1
  <2>4. QED BY <2>1, <2>2, <2>3 DEF CanFollow
<1>3. CASE path # << >>
  <2>1. Len(path) > 0 /\ EndOf(from, path) = path[Len(path)] /\ p[1] = path[1]
    BY <1>1, <1>3 DEF EndOf
  <2>2. ASSUME NEW i \in 1 .. Len(p) - 1 PROVE CanTransition(p[i], p[i+1])
    <3>1. CASE i < Len(path)
      <4>1. p[i] = path[i] /\ p[i+1] = path[i+1] /\ i \in 1 .. Len(path) - 1
        BY <1>1, <3>1
      <4>2. QED BY <4>1 DEF CanFollow
    <3>2. CASE i = Len(path)
      <4>1. p[i] = path[Len(path)] /\ p[i+1] = tail[1] /\ tail # << >>
        BY <1>1, <2>1, <3>2
      <4>2. QED BY <2>1, <4>1 DEF CanFollow
    <3>3. CASE i > Len(path)
      <4>1. p[i] = tail[i - Len(path)] /\ p[i+1] = tail[i - Len(path) + 1] /\ i - Len(path) \in 1 .. Len(tail) - 1
        BY <1>1, <3>3
      <4>2. QED BY <4>1 DEF CanFollow
    <3>4. QED BY <1>1, <3>1, <3>2, <3>3
  <2>3. QED BY <1>3, <2>1, <2>2 DEF CanFollow
<1>4. QED BY <1>2, <1>3

(* The rows of the table that the preparation uses. *)
LEMMA PreparationTable ==
  /\ \A s \in {"loading_target_account", "loading_options"} : CanTransition("validating", s)
  /\ CanTransition("loading_target_account", "loading_options")
  /\ \A s \in {"checking_existing", "mail_baseline", "resolving_proxy"} : CanTransition("loading_options", s)
  /\ \A s \in {"mail_baseline", "resolving_proxy", "already_exists"} : CanTransition("checking_existing", s)
  /\ CanTransition("mail_baseline", "resolving_proxy")
  /\ CanTransition("resolving_proxy", "generating_auth_url")
  /\ CanTransition("generating_auth_url", "authorization_url_received")
  /\ \A s \in {"browser_started", "resolving_proxy"} : CanTransition("authorization_url_received", s)
  /\ \A s \in {"authorization_url_opened", "resolving_proxy"} : CanTransition("browser_started", s)
BY DEF CanTransition, TransitionTable, PreparationTransitions, TerminalStages

(* The rows the login uses. *)
LEMMA LoginTable ==
  /\ CanTransition("authorization_url_opened", "email_submitted")
  /\ CanTransition("authorization_url_opened", "manual_intervention")
  /\ CanTransition("email_submitted", "waiting_for_otp")
  /\ CanTransition("email_submitted", "waiting_for_password")
  /\ CanTransition("waiting_for_password", "password_submitted")
  /\ CanTransition("waiting_for_password", "manual_intervention")
  /\ \A s \in {"waiting_for_totp", "waiting_for_consent", "waiting_for_callback",
               "manual_intervention"} : CanTransition("password_submitted", s)
  /\ \A s \in {"waiting_for_consent", "manual_intervention"} : CanTransition("totp_submitted", s)
  /\ \A s \in {"totp_submitted", "manual_intervention"} : CanTransition("waiting_for_totp", s)
  /\ \A s \in {"otp_submitted", "resending_otp", "manual_intervention"} : CanTransition("waiting_for_otp", s)
  /\ \A s \in {"waiting_for_otp_retry", "otp_submitted",
                        "waiting_for_callback", "manual_intervention"} : CanTransition("resending_otp", s)
  /\ \A s \in {"otp_submitted", "resending_otp_second",
                                "manual_intervention"} : CanTransition("waiting_for_otp_retry", s)
  /\ \A s \in {"waiting_for_otp_third", "otp_submitted",
                               "waiting_for_callback", "manual_intervention"} : CanTransition("resending_otp_second", s)
  /\ \A s \in {"otp_submitted", "manual_intervention"} : CanTransition("waiting_for_otp_third", s)
  /\ CanTransition("otp_submitted", "waiting_for_consent")
  /\ \A s \in {"consent_submitted", "manual_intervention"} : CanTransition("waiting_for_consent", s)
  /\ CanTransition("consent_submitted", "waiting_for_callback")
  /\ \A s \in {"authorization_url_opened", "waiting_for_consent",
                              "waiting_for_callback"} : CanTransition("manual_intervention", s)
  /\ CanTransition("waiting_for_callback", "exchanging_code")
BY DEF CanTransition, TransitionTable, LoginTransitions, TerminalStages

(* The rows behind the login, and those of a deactivated account.          *)
LEMMA OutcomeTable ==
  /\ \A s \in AuthorizationStages : CanTransition(s, "account_deactivated_retrying")
                                 /\ CanTransition(s, "account_deactivated_confirmed")
  /\ CanTransition("account_deactivated_retrying", "generating_auth_url")
  /\ CanTransition("account_deactivated_confirmed", "locating_deactivated_account")
  /\ CanTransition("locating_deactivated_account", "marking_account_banned")
  /\ \A s \in {"checking_duplicate", "applying_oauth_credentials"} : CanTransition("exchanging_code", s)
  /\ \A s \in {"confirming_reauthorization", "reauthorization_result_uncertain"} :
        CanTransition("applying_oauth_credentials", s) /\ CanTransition(s, "completed")
  /\ \A s \in {"creating_account", "already_exists"} : CanTransition("checking_duplicate", s)
  /\ \A s \in {"confirming_account", "create_result_uncertain"} :
        CanTransition("creating_account", s) /\ CanTransition(s, "completed")
BY DEF CanTransition, TransitionTable, OutcomeTransitions, TerminalStages, AuthorizationStages
-----------------------------------------------------------------------------
(* Where the run goes next, group by group.                                *)

(* A segment reaches its await or the finally clause. *)
LEMMA AdvanceGoes ==
  ASSUME NEW path, NEW next, Advance(path, next) \/ AdvanceToGate(path, next)
  PROVE  pc' \in {next, "closing"} /\ kind' = kind
BY DEF Advance, AdvanceToGate, Arrive, Throw, Fail

(* An error reaches the finally clause or has a note written.              *)
LEMMA ErrorGoes ==
  ASSUME NEW c, Throw(c) \/ Fail(c)
  PROVE  \/ pc' = "closing" /\ kind' = kind
         \/ /\ pc' = "write_gate" /\ kind' = "note" /\ c = "needs_note"
            /\ ~Terminal /\ kind = "none"
BY DEF Throw, Fail, AdmitWrite

(* A write is admitted, or the run ends.                                   *)
LEMMA BeginGoes ==
  ASSUME NEW path, NEW k, BeginWrite(path, k)
  PROVE  \/ pc' = "closing" /\ kind' = kind
         \/ pc' = "write_gate" /\ kind' = k /\ kind = "none"
<1>1. CASE Throw("illegal")
  BY <1>1, ErrorGoes
<1>2. CASE Fail("already_started")
  BY <1>2 DEF Fail
<1>3. CASE kind = "none" /\ AdmitWrite(path, k)
  BY <1>3 DEF AdmitWrite
<1>4. QED BY <1>1, <1>2, <1>3 DEF BeginWrite

(* The preparation moves among its own awaits. *)
LEMMA PreparationFlow ==
  ASSUME PreparationMoves
  PROVE  /\ pc \in PrepAwaits \ {"generate_url"} /\ pc' \in PrepAwaits \union {"closing"}
         /\ kind' = kind /\ prepUnchanged
<1> USE DEF Waiting, At, Finish
<1>1. \A path : AdvanceToProxy(path) => pc' \in PrepAwaits \union {"closing"} /\ kind' = kind
  BY AdvanceGoes DEF AdvanceToProxy, PrepAwaits
<1>2. QED BY <1>1, AdvanceGoes DEF PreparationMoves, MaterialResolved, TargetLoaded,
    OptionsLoaded, MixedChannelChecked, ExistingChecked, BaselineEstablished, ProxyResolved,
    AdvanceToMail, PrepAwaits

(* An authorization attempt ends with its page, a new URL or the next      *)
(* proxy, and sends nothing.                                               *)
LEMMA AuthorizationFlow ==
  ASSUME AuthorizationMoves
  PROVE  /\ pc \in {"generate_url", "browser_start", "browser_ready", "next_proxy", "retry_close"}
         /\ pc' \in {"generate_url", "browser_start", "browser_ready", "next_proxy", "submit_email",
                    "closing"}
         /\ kind' = kind
         /\ UNCHANGED <<input, writeVars, humanVars, sightings, detected>>
BY AdvanceGoes, ErrorGoes DEF AuthorizationMoves, UrlGenerated, BrowserStarted, UrlOpened,
   BrowserReady, BrowserStartFails, NextProxyFound, RetryClosed, deactivationUnchanged, oauthVars,
   Waiting, At

(* The login moves among its awaits. *)
LEMMA LoginFlow ==
  ASSUME LoginMoves
  PROVE  /\ pc \in LoginAwaits /\ pc' \in LoginAwaits \union {"closing"}
         /\ kind' = kind /\ loginUnchanged
<1> USE DEF Waiting, At, PageAnswers
<1>1. \A path : AskHuman \/ AdvanceToConsent(path) \/ AdvanceToCallback(path) =>
        pc' \in LoginAwaits \union {"closing"} /\ kind' = kind
  BY AdvanceGoes DEF AskHuman, AdvanceToConsent, AdvanceToCallback, LoginAwaits, PageCalls,
     PageActions
<1>2. QED BY <1>1, AdvanceGoes, ErrorGoes DEF LoginMoves, EmailSubmitted, OtpFound,
    OtpRoundEnds, ResendAnswered, ResendBudgetSpent, OtpAccepted, PasswordAccepted,
    PasswordRefused, PageClassified, TotpGenerated, TotpStillActive, TotpAccepted,
    ConsentSubmitted, CallbackReceived, HumanProgressed, PageNeedsHuman, LoginAwaits,
    PageCalls, PageActions

(* A sighting of account_deactivated closes the session, locates the       *)
(* account or has it banned.                                               *)
LEMMA SightingFlow ==
  ASSUME NEW p \in PageActions \union {"classify", "manual_wait", "wait_callback"},
         DeactivationSeen(p)
  PROVE  /\ pc \in LoginAwaits
         /\ \/ pc' \in {"retry_close", "locate", "closing"} /\ kind' = kind
            \/ pc' = "write_gate" /\ kind' = "ban"
         /\ pc' = "retry_close" => detected + 1 < input.attempts
         /\ pc' \in {"locate", "write_gate"} => ~(detected + 1 < input.attempts)
BY AdvanceGoes, BeginGoes DEF DeactivationSeen, Waiting, At, LoginAwaits, PageCalls,
   PageActions

(* The steps behind the login lead to a write.                             *)
LEMMA StartFlow ==
  ASSUME StartMoves
  PROVE  /\ pc \in {"locate", "exchange", "reload_target", "find_duplicate"}
         /\ \/ pc' \in {"reload_target", "find_duplicate", "closing"} /\ kind' = kind
            \/ pc' = "write_gate" /\ kind' \in {"ban", "create", "apply"}
         /\ kind' = "ban" => kind = "ban" \/ pc = "locate"
         /\ exchangeUnchanged /\ UNCHANGED writeVars
BY AdvanceGoes, BeginGoes DEF StartMoves, BanTargetLocated, CodeExchanged, TargetReloaded,
   DuplicateChecked, Waiting, At, Finish, exchangeUnchanged, deactivationUnchanged

(* A write goes on with itself or ends. *)
LEMMA WriteFlow ==
  ASSUME WriteMoves
  PROVE  /\ pc \in WriteCalls
         /\ pc' \in (WriteCalls \ {"write_gate"}) \union {"closing"}
         /\ kind' = kind /\ exchangeUnchanged
<1>1. CreateUncertain => pc' \in {"create_lookup", "closing"} /\ kind' = kind
  BY AdvanceGoes DEF CreateUncertain, Fail
<1>2. \A r : Send(r) => pc' \in {r, "closing"} /\ kind' = kind
  BY AdvanceGoes DEF Send
<1>3. \A c : Fail(c) \/ (Throw(c) /\ c = "error") => pc' = "closing" /\ kind' = kind
  BY ErrorGoes DEF Fail
<1>4. {"apply_put", "create_post", "ban_put", "note_put", "apply_read", "apply_confirm",
       "create_get", "create_lookup", "ban_read", "ban_confirm", "note_load", "note_confirm"}
      \subseteq WriteCalls \ {"write_gate"}
  BY DEF WriteCalls, Requests
<1> USE DEF Waiting, At, Finish
<1>5. CASE WriteAdmitted
  BY <1>2, <1>4, <1>5, AdvanceGoes DEF WriteAdmitted, WriteCalls
<1>6. CASE ApplyReplied \/ ApplyRead \/ ApplyConfirmed
  BY <1>3, <1>4, <1>6, AdvanceGoes DEF ApplyReplied, ApplyRead, ApplyConfirmed
<1>7. CASE CreateReplied \/ CreateRead \/ CreateLookedUp
  BY <1>1, <1>3, <1>4, <1>7, AdvanceGoes DEF CreateReplied, CreateRead, CreateLookedUp
<1>8. CASE BanRead \/ BanReplied \/ BanConfirmed
  BY <1>2, <1>3, <1>4, <1>8, AdvanceGoes DEF BanRead, BanReplied, BanConfirmed
<1>9. CASE NoteLoaded \/ NoteReplied \/ NoteConfirmed
  BY <1>2, <1>3, <1>4, <1>9, AdvanceGoes DEF NoteLoaded, NoteReplied, NoteConfirmed
<1>10. QED BY <1>5, <1>6, <1>7, <1>8, <1>9 DEF WriteMoves

(* A failure ends the run or has a note written.                           *)
LEMMA FailureFlow ==
  ASSUME FailureMoves
  PROVE  /\ pc \in (Fallible \union AbortAware) \ {"browser_start"}
         /\ \/ pc' = "closing" /\ kind' = kind
            \/ pc' = "write_gate" /\ kind' = "note" /\ ~Terminal /\ kind = "none"
         /\ UNCHANGED <<input, writeVars, twin, windowVars, loginVars, oauthVars,
                         humanVars, target>>
BY ErrorGoes DEF FailureMoves, CallFails, AbortSeen, Waiting, At, Fallible, AbortAware,
   PageCalls, PageActions
(* The awaits the steps of the run start from.                             *)
LEMMA RunAwaits ==
  ASSUME RunMoves
  PROVE  pc \notin AfterRun /\ (~WriteMoves => pc \notin WriteCalls \ BeforeRequest)
<1>1. CASE PreparationMoves \/ AuthorizationMoves
  BY <1>1, PreparationFlow, AuthorizationFlow DEF PrepAwaits, AfterRun, WriteCalls, Requests
<1>2. CASE \/ LoginMoves
           \/ \E p \in PageActions \union {"classify", "manual_wait", "wait_callback"} :
                DeactivationSeen(p)
  BY <1>2, LoginFlow, SightingFlow DEF LoginAwaits, PageCalls, PageActions, AfterRun, WriteCalls,
     Requests
<1>3. CASE StartMoves
  BY <1>3, StartFlow DEF AfterRun, WriteCalls, Requests
<1>4. CASE WriteMoves
  BY <1>4, WriteFlow DEF AfterRun, WriteCalls, Requests
<1>5. CASE FailureMoves
  BY <1>5, FailureFlow DEF Fallible, AbortAware, PageCalls, PageActions, AfterRun, WriteCalls,
     Requests, BeforeRequest
<1>6. QED BY <1>1, <1>2, <1>3, <1>4, <1>5 DEF RunMoves

(* The run itself neither aborts nor takes over.                           *)
LEMMA HandsOff ==
  ASSUME RunMoves
  PROVE  UNCHANGED <<input, aborted, gate>>
<1>1. CASE ~\E p \in PageActions \union {"classify", "manual_wait", "wait_callback"} :
            DeactivationSeen(p)
  BY <1>1, PreparationFlow, AuthorizationFlow, LoginFlow, StartFlow, WriteFlow, FailureFlow
     DEF RunMoves, prepUnchanged, loginUnchanged, exchangeUnchanged, humanVars
<1>2. ASSUME NEW p, DeactivationSeen(p) PROVE UNCHANGED <<input, aborted, gate>>
  BY <1>2 DEF DeactivationSeen, deactivationUnchanged, humanVars
<1>3. QED BY <1>1, <1>2

-----------------------------------------------------------------------------
(* The browser window.                                                     *)

StartAwaits == {"browser_start", "browser_ready"}

WindowInv ==
  /\ gated => pc \in GatedAwaits
  /\ chrome <= 1
  /\ chrome = 1 => pc \notin PrepAwaits \union {"next_proxy"}
  /\ chrome = 1 /\ pc # "ended" => held \/ pc \in StartAwaits

(* A step that leaves Chrome alone, away from its start.                   *)
LEMMA WindowKept ==
  ASSUME WindowInv, UNCHANGED windowVars, gated' => pc' \in GatedAwaits,
         pc \notin StartAwaits \union {"ended"},
         pc' \in PrepAwaits \union {"next_proxy"} => pc \in PrepAwaits \union {"next_proxy"}
  PROVE  WindowInv'
BY DEF WindowInv, windowVars

(* The run holds the Chrome it has, or is starting it.                     *)
LEMMA WindowStep ==
  ASSUME IInv, WindowInv, [Next]_vars
  PROVE  WindowInv'
<1>0. chrome \in Nat /\ gate \in BOOLEAN
  BY DEF IInv, TypeOK, RunTypeOK
<1>1. CASE RunMoves
  <2>1. gated' => pc' \in GatedAwaits
    BY <1>1, GateSteps DEF GateAsked
  <2>2. CASE AuthorizationMoves
    <3> USE DEF Waiting, At
    <3>1. ASSUME NEW s \in Sessions, UrlGenerated(s)
          PROVE  WindowInv'
      BY <2>1, <3>1, WindowKept, AdvanceGoes, ErrorGoes
         DEF UrlGenerated, PrepAwaits, StartAwaits
    <3>2. CASE BrowserStarted
      <4>1. CanFollow(stage, <<"browser_started">>)
        BY <3>2, OneStage, PreparationTable DEF BrowserStarted
      <4>2. pc' = "browser_start" /\ chrome' = 1
        BY <1>0, <3>2, <4>1 DEF BrowserStarted, Advance, Arrive
      <4>3. QED BY <2>1, <4>2 DEF WindowInv, StartAwaits, PrepAwaits
    <3>3. CASE UrlOpened
      <4>1. /\ CanFollow(stage, << >>)
            /\ stage = "browser_started" => CanFollow(stage, <<"authorization_url_opened">>)
        BY OneStage, NoStage, PreparationTable
      <4>2. pc' = "browser_ready" /\ chrome' = chrome
        BY <3>3, <4>1 DEF UrlOpened, Advance, Arrive
      <4>3. QED BY <2>1, <4>2 DEF WindowInv, StartAwaits, PrepAwaits
    <3>4. CASE BrowserReady
      <4>1. pc' \in {"submit_email", "closing"} /\ held' = TRUE /\ chrome' = chrome
        BY <3>4, AdvanceGoes DEF BrowserReady
      <4>2. QED BY <2>1, <4>1 DEF WindowInv, PrepAwaits
    <3>5. ASSUME NEW proxyFailed \in BOOLEAN, BrowserStartFails(proxyFailed)
          PROVE  WindowInv'
      BY <2>1, <3>5 DEF BrowserStartFails, WindowInv
    <3>6. CASE NextProxyFound
      BY <2>1, <3>6, WindowKept DEF NextProxyFound, StartAwaits
    <3>7. CASE RetryClosed
      BY <2>1, <3>7 DEF RetryClosed, SessionClosed, WindowInv
    <3>8. QED BY <2>2, <3>1, <3>2, <3>3, <3>4, <3>5, <3>6, <3>7 DEF AuthorizationMoves
  <2>3. CASE PreparationMoves
    BY <2>1, <2>3, WindowKept, PreparationFlow DEF prepUnchanged, PrepAwaits, StartAwaits
  <2>4. CASE LoginMoves
    BY <2>1, <2>4, WindowKept, LoginFlow DEF loginUnchanged, LoginAwaits, PageCalls,
       PageActions, PrepAwaits, StartAwaits
  <2>5. CASE StartMoves
    BY <2>1, <2>5, WindowKept, StartFlow DEF exchangeUnchanged, PrepAwaits, StartAwaits
  <2>6. CASE WriteMoves
    BY <2>1, <2>6, WindowKept, WriteFlow DEF exchangeUnchanged, WriteCalls, Requests,
       PrepAwaits, StartAwaits
  <2>7. CASE FailureMoves
    BY <2>1, <2>7, WindowKept, FailureFlow DEF Fallible, AbortAware, PageCalls, PageActions,
       PrepAwaits, StartAwaits
  <2>8. ASSUME NEW p \in PageActions \union {"classify", "manual_wait", "wait_callback"},
               DeactivationSeen(p)
        PROVE  WindowInv'
    BY <2>1, <2>8, WindowKept, SightingFlow DEF DeactivationSeen, LoginAwaits, PageCalls,
       PageActions, PrepAwaits, StartAwaits
  <2>9. QED BY <1>1, <2>2, <2>3, <2>4, <2>5, <2>6, <2>7, <2>8 DEF RunMoves
<1>2. CASE AsideMoves
  <2>1. CASE Closed
    BY <1>0, <2>1 DEF Closed, At, SessionClosed, windowVars, WindowInv, PrepAwaits
  <2>2. CASE ~Closed
    BY <1>2, <2>2 DEF AsideMoves, TakeOver, ReleaseTakeover, UserClosesPage, CallbackCaptured,
       TwinAppears, LimboLands, Terminated, taskVars, vars, windowVars, WindowInv
  <2>3. QED BY <2>1, <2>2
<1>3. CASE Cancel \/ Restart
  BY <1>0, <1>3 DEF Cancel, Restart, WindowInv, windowVars, GatedAwaits, PageActions, StartAwaits,
     PrepAwaits
<1>4. CASE UNCHANGED vars
  BY <1>4 DEF vars, WindowInv, taskVars, windowVars
<1>5. QED BY <1>1, <1>2, <1>3, <1>4, StepGroups

(* There is never a second Chrome, and while the run goes on somebody will *)
(* close the one there is (controller.ts start and close, execute's        *)
(* finally).                                                               *)
THEOREM WindowOwned == Spec => []ChromeIsOwned
<1>1. Init => WindowInv
  BY DEF Init, WindowInv
<1>2. IInv /\ WindowInv => ChromeIsOwned
  BY DEF IInv, TypeOK, RunTypeOK, WindowInv, ChromeIsOwned, StartAwaits
<1>3. QED BY Invariant, WindowStep, <1>1, <1>2, PTL DEF Spec
-----------------------------------------------------------------------------
(* The write and what became of it.                                        *)

(* The awaits behind a request that was answered, or whose answer was lost.*)
OutcomeInv ==
  /\ sent = 0 <=> outcome = "unsent"
  /\ outcome = "flying" <=> pc \in Requests
  /\ pc \in {"apply_read", "create_get"} => outcome = "applied"
  /\ pc \in {"apply_confirm", "create_lookup", "ban_confirm", "note_confirm"} =>
       outcome \in {"limbo", "applied"}
  /\ pc \in {"apply_put", "apply_read", "apply_confirm"} => kind = "apply"
  /\ pc \in {"create_post", "create_get", "create_lookup"} => kind = "create"
  /\ pc \in {"ban_read", "ban_put", "ban_confirm"} => kind = "ban"
  /\ pc \in {"note_load", "note_put", "note_confirm"} => kind = "note"

(* Nothing is known of a write before it is made.                          *)
LEMMA OutcomeKept ==
  ASSUME OutcomeInv, UNCHANGED writeVars, pc \notin Requests,
         pc' \notin WriteCalls \ {"write_gate"}
  PROVE  OutcomeInv'
BY DEF OutcomeInv, writeVars, WriteCalls, Requests

(* A request is sent once, and from the await of its kind.                 *)
LEMMA SendOutcome ==
  ASSUME NEW r, Send(r)
  PROVE  pc' = r /\ kind' = kind /\ sent' = sent + 1 /\ outcome' = "flying"
BY NoStage DEF Send, Advance, Arrive

(* The steps of a write keep what is known of it.                          *)
LEMMA WriteOutcome ==
  ASSUME IInv, OutcomeInv, WriteMoves
  PROVE  OutcomeInv'
<1> USE DEF Waiting, At, Finish
<1>1. /\ sent \in Nat /\ kind' = kind
      /\ pc \in BeforeRequest => sent = 0
  BY WriteFlow DEF IInv, TypeOK, RunTypeOK, WriteInv
<1>2. \A c : Fail(c) \/ (Throw(c) /\ c = "error") => pc' = "closing"
  BY ErrorGoes DEF Fail
<1>3. CreateUncertain => pc' \in {"create_lookup", "closing"}
  BY <1>2, AdvanceGoes DEF CreateUncertain
<1>4. CASE WriteAdmitted
  BY <1>1, <1>4, AdvanceGoes, SendOutcome
     DEF WriteAdmitted, OutcomeInv, writeVars, BeforeRequest, Requests
<1>5. CASE ApplyReplied \/ ApplyRead \/ ApplyConfirmed
  BY <1>1, <1>2, <1>5, AdvanceGoes
     DEF ApplyReplied, ApplyRead, ApplyConfirmed, OutcomeInv, writeVars, Requests
<1>6. CASE CreateReplied \/ CreateRead \/ CreateLookedUp
  BY <1>1, <1>2, <1>3, <1>6, AdvanceGoes
     DEF CreateReplied, CreateRead, CreateLookedUp, OutcomeInv, writeVars, Requests
<1>7. CASE BanRead \/ BanReplied \/ BanConfirmed
  BY <1>1, <1>2, <1>7, AdvanceGoes, SendOutcome
     DEF BanRead, BanReplied, BanConfirmed, OutcomeInv, writeVars, Requests, BeforeRequest
<1>8. CASE NoteLoaded \/ NoteReplied \/ NoteConfirmed
  BY <1>1, <1>2, <1>8, AdvanceGoes, SendOutcome
     DEF NoteLoaded, NoteReplied, NoteConfirmed, OutcomeInv, writeVars, Requests, BeforeRequest
<1>9. QED BY <1>4, <1>5, <1>6, <1>7, <1>8 DEF WriteMoves

(* So do all others. *)
LEMMA OutcomeStep ==
  ASSUME IInv, WindowInv, OutcomeInv, [Next]_vars
  PROVE  OutcomeInv'
<1>1. CASE RunMoves
  <2>1. CASE AuthorizationMoves
    BY <2>1, OutcomeKept, AuthorizationFlow DEF WriteCalls, Requests
  <2>2. CASE PreparationMoves
    BY <2>2, OutcomeKept, PreparationFlow DEF prepUnchanged, PrepAwaits, WriteCalls, Requests
  <2>3. CASE LoginMoves
    BY <2>3, OutcomeKept, LoginFlow DEF loginUnchanged, LoginAwaits, PageCalls, PageActions,
       WriteCalls, Requests
  <2>4. CASE StartMoves
    BY <2>4, OutcomeKept, StartFlow DEF WriteCalls, Requests
  <2>5. CASE WriteMoves
    BY <2>5, WriteOutcome
  <2>6. CASE FailureMoves
    BY <2>6, OutcomeKept, FailureFlow DEF Fallible, AbortAware, PageCalls, PageActions,
       WriteCalls, Requests
  <2>7. ASSUME NEW p \in PageActions \union {"classify", "manual_wait", "wait_callback"},
               DeactivationSeen(p)
        PROVE  OutcomeInv'
    BY <2>7, OutcomeKept, SightingFlow DEF DeactivationSeen, deactivationUnchanged,
       LoginAwaits, PageCalls, PageActions, WriteCalls, Requests
  <2>8. QED BY <1>1, <2>1, <2>2, <2>3, <2>4, <2>5, <2>6, <2>7 DEF RunMoves
<1>2. CASE AsideMoves
  BY <1>2 DEF AsideMoves, Closed, At, TakeOver, ReleaseTakeover, UserClosesPage,
     CallbackCaptured, TwinAppears, LimboLands, Terminated, taskVars, writeVars, vars,
     OutcomeInv, Requests
<1>3. CASE Cancel
  BY <1>3 DEF Cancel, writeVars, OutcomeInv, WindowInv, Requests, GatedAwaits, PageActions
<1>4. CASE Restart
  BY <1>4 DEF Restart, OutcomeInv, Requests, IInv, TypeOK, RunTypeOK
<1>5. CASE UNCHANGED vars
  BY <1>5 DEF vars, taskVars, writeVars, OutcomeInv
<1>6. QED BY <1>1, <1>2, <1>3, <1>4, <1>5, StepGroups
-----------------------------------------------------------------------------
(* The stage that belongs to each await.                                   *)

(* The stage of a task that waits at p in OTP round r. *)
StageAt(p, s, r) ==
  /\ p = "resolve_material" => s = "validating"
  /\ p = "load_target" => s = "loading_target_account"
  /\ p = "load_options" => s = "loading_options"
  /\ p \in {"mixed_channel", "find_existing"} => s = "checking_existing"
  /\ p = "mail_baseline" => s = "mail_baseline"
  /\ p \in {"resolve_proxy", "next_proxy"} => s = "resolving_proxy"
  /\ p = "generate_url" => s = "generating_auth_url"
  /\ p = "browser_start" => s \in {"authorization_url_received", "browser_started"}
  /\ p \in {"browser_ready", "submit_email"} => s = "authorization_url_opened"
  /\ p \in {"wait_otp", "submit_otp"} =>
       s = (CASE r = 1 -> "waiting_for_otp" [] r = 2 -> "waiting_for_otp_retry"
              [] OTHER -> "waiting_for_otp_third")
  /\ p = "resend" => s = IF r = 1 THEN "resending_otp" ELSE "resending_otp_second"
  /\ p = "submit_password" => s = "waiting_for_password"
  /\ p = "classify" => s = "password_submitted"
  /\ p \in {"totp_next", "submit_totp"} => s = "waiting_for_totp"
  /\ p = "submit_consent" => s = "waiting_for_consent"
  /\ p = "manual_wait" => s = "manual_intervention"
  /\ p = "wait_callback" => s = "waiting_for_callback"
  /\ p \in {"exchange", "reload_target"} => s = "exchanging_code"
  /\ p = "find_duplicate" => s = "checking_duplicate"
  /\ p = "retry_close" => s = "account_deactivated_retrying"
  /\ p = "locate" => s = "locating_deactivated_account"
  /\ p = "apply_put" => s = "applying_oauth_credentials"
  /\ p = "apply_read" => s = "confirming_reauthorization"
  /\ p = "apply_confirm" => s = "reauthorization_result_uncertain"
  /\ p \in {"create_post", "create_get"} => s = "creating_account"
  /\ p = "create_lookup" => s = "create_result_uncertain"
  /\ p \in {"ban_read", "ban_put", "ban_confirm"} => s = "marking_account_banned"

(* The stage in which a write of kind k has just been admitted. *)
AdmittedAt(p, k, s) ==
  p = "write_gate" =>
    /\ k = "apply" => s = "applying_oauth_credentials"
    /\ k = "create" => s = "creating_account"
    /\ k = "ban" => s = "marking_account_banned"

Placed(p, k, s, r) == s \notin TerminalStages /\ StageAt(p, s, r) /\ AdmittedAt(p, k, s)

StageInv ==
  /\ IF pc \in AfterRun THEN Terminal
       ELSE code = "none" /\ (stage = "cancelled" \/ Placed(pc, kind, stage, round))
  /\ pc = "browser_start" /\ chrome = 1 => stage # "authorization_url_received"
  /\ aborted => stage = "cancelled"
  /\ code # "illegal"

(* A segment that ends as it should: at an await whose stage it has        *)
(* reached, or at the end of the task.                                     *)
Settled ==
  IF pc' = "closing" THEN stage' \in TerminalStages /\ code' # "illegal"
  ELSE pc' \notin AfterRun /\ code' = code /\ Placed(pc', kind', stage', round')

(* An error settles the task, or has a note written in its stage.          *)
LEMMA ErrorSettles ==
  ASSUME ~Terminal, NEW c, c # "illegal", Throw(c) \/ Fail(c)
  PROVE  Settled
BY DEF Settled, Throw, Fail, AdmitWrite, EndOf, Terminal, TerminalStages, AfterRun, Placed, StageAt,
   AdmittedAt

(* A path the table allows leads to its await, or to the end of the task.  *)
LEMMA AdvanceSettles ==
  ASSUME NEW path, NEW next, NEW s, CanFollow(stage, path), EndOf(stage, path) = s,
         Advance(path, next) \/ (~aborted /\ AdvanceToGate(path, next)),
         code = "none",
         IF next = "closing" THEN s \in TerminalStages
         ELSE next \notin AfterRun /\ Placed(next, kind, s, round')
  PROVE  Settled
BY DEF Settled, Advance, AdvanceToGate, Arrive

(* So does the start of a write.                                           *)
LEMMA BeginSettles ==
  ASSUME NEW path, NEW k, NEW s, kind = "none", CanFollow(stage, path),
         EndOf(stage, path) = s, BeginWrite(path, k), s \notin TerminalStages,
         AdmittedAt("write_gate", k, s)
  PROVE  Settled
BY DEF Settled, BeginWrite, AdmitWrite, Placed, StageAt, AfterRun

(* The way to the consent page and to the callback.                        *)
LEMMA ConsentSettles ==
  ASSUME ~aborted, code = "none", NEW path \in Seq(TaskStages), NEW s, stage \in TaskStages,
         CanFollow(stage, path), EndOf(stage, path) = s,
         \/ AdvanceToConsent(path) /\ CanTransition(s, "waiting_for_consent")
         \/ AdvanceToCallback(path) /\ CanTransition(s, "waiting_for_callback")
  PROVE  Settled
<1>1. ASSUME NEW to \in {"waiting_for_consent", "waiting_for_callback"}, CanTransition(s, to)
      PROVE  /\ CanFollow(stage, path \o <<to>>) /\ EndOf(stage, path \o <<to>>) = to
             /\ to \notin TerminalStages
  <2>1. <<to>> \in Seq(TaskStages) /\ <<to>> # << >>
    BY DEF TaskStages, AuthorizationStages
  <2>2. CanFollow(s, <<to>>) /\ EndOf(stage, <<to>>) = to
    BY <1>1, OneStage DEF EndOf
  <2>3. QED BY <2>1, <2>2, LongerFollow, LongerPath DEF TerminalStages
<1>2. CASE AdvanceToConsent(path) /\ CanTransition(s, "waiting_for_consent")
  BY <1>1, <1>2, AdvanceSettles DEF AdvanceToConsent, AfterRun, Placed, StageAt, AdmittedAt
<1>3. CASE AdvanceToCallback(path) /\ CanTransition(s, "waiting_for_callback")
  BY <1>1, <1>3, AdvanceSettles DEF AdvanceToCallback, AfterRun, Placed, StageAt, AdmittedAt
<1>4. QED BY <1>2, <1>3

(* The way to the proxy.                                                   *)
LEMMA ProxySettles ==
  ASSUME code = "none", NEW path \in Seq(TaskStages), NEW s, stage \in TaskStages,
         CanFollow(stage, path), EndOf(stage, path) = s,
         CanTransition(s, "resolving_proxy"), AdvanceToProxy(path)
  PROVE  Settled
<1> DEFINE near == <<"resolving_proxy">>
           far == <<"resolving_proxy", "generating_auth_url">>
<1>1. /\ near \in Seq(TaskStages) /\ far \in Seq(TaskStages) /\ near # << >> /\ far # << >>
  BY DEF TaskStages
<1>2. CanFollow(s, near) /\ CanFollow(s, far)
  BY OneStage, TwoStages, PreparationTable
<1>3. EndOf(stage, near) = "resolving_proxy" /\ EndOf(stage, far) = "generating_auth_url"
  BY DEF EndOf
<1>4. /\ CanFollow(stage, path \o near) /\ EndOf(stage, path \o near) = "resolving_proxy"
      /\ CanFollow(stage, path \o far) /\ EndOf(stage, path \o far) = "generating_auth_url"
  BY <1>1, <1>2, <1>3, LongerFollow, LongerPath
<1>5. Advance(path \o near, "resolve_proxy") \/ Advance(path \o far, "generate_url")
  BY DEF AdvanceToProxy
<1>6. QED BY <1>4, <1>5, AdvanceSettles DEF TerminalStages, AfterRun, Placed, StageAt, AdmittedAt

(* The way to the mail baseline, or past it to the proxy.                  *)
LEMMA MailSettles ==
  ASSUME code = "none", NEW path \in Seq(TaskStages), NEW s, stage \in TaskStages,
         CanFollow(stage, path), EndOf(stage, path) = s,
         CanTransition(s, "mail_baseline"), CanTransition(s, "resolving_proxy"),
         AdvanceToMail(path)
  PROVE  Settled
<1> DEFINE mail == <<"mail_baseline">>
<1>1. mail \in Seq(TaskStages) /\ mail # << >>
  BY DEF TaskStages
<1>2. CanFollow(s, mail) /\ EndOf(stage, mail) = "mail_baseline"
  BY OneStage DEF EndOf
<1>3. CanFollow(stage, path \o mail) /\ EndOf(stage, path \o mail) = "mail_baseline"
  BY <1>1, <1>2, LongerFollow, LongerPath
<1>4. Advance(path \o mail, "mail_baseline") \/ AdvanceToProxy(path)
  BY DEF AdvanceToMail
<1>5. QED BY <1>3, <1>4, AdvanceSettles, ProxySettles
          DEF TerminalStages, AfterRun, Placed, StageAt, AdmittedAt

(* A task that has not ended is where its await says. *)
LEMMA StandsAt ==
  ASSUME IInv, StageInv, ~Terminal
  PROVE  /\ pc \notin AfterRun /\ code = "none" /\ ~aborted
         /\ stage \in TaskStages
         /\ StageAt(pc, stage, round) /\ AdmittedAt(pc, kind, stage)
BY DEF IInv, TypeOK, TaskTypeOK, RunTypeOK, StageInv, Placed, Terminal, TerminalStages

(* One transition to an await.                                             *)
LEMMA StepSettles ==
  ASSUME ~aborted, code = "none", NEW to, NEW next, next \notin AfterRun,
         CanTransition(stage, to), Advance(<<to>>, next) \/ AdvanceToGate(<<to>>, next),
         Placed(next, kind, to, round')
  PROVE  Settled
BY OneStage, AdvanceSettles DEF AfterRun

(* None. *)
LEMMA StaySettles ==
  ASSUME ~aborted, code = "none", NEW next, next \notin AfterRun,
         Advance(<< >>, next) \/ AdvanceToGate(<< >>, next),
         Placed(next, kind, stage, round')
  PROVE  Settled
BY NoStage, AdvanceSettles DEF AfterRun

(* Each step of the preparation makes only transitions the table has.      *)
LEMMA PreparationSettles ==
  ASSUME IInv, StageInv, ~Terminal, PreparationMoves
  PROVE  Settled
<1> USE DEF Waiting, At, Finish
<1>1. /\ code = "none" /\ stage \in TaskStages /\ StageAt(pc, stage, round)
  BY StandsAt
<1>2. \A a, b, n : /\ CanTransition(a, b) /\ stage = a /\ Advance(<<b>>, n)
                   /\ n \in PrepAwaits /\ b \notin TerminalStages /\ StageAt(n, b, round')
                   => Settled
  BY <1>1, OneStage, AdvanceSettles DEF PrepAwaits, AfterRun, Placed, AdmittedAt
<1>3. CASE MaterialResolved
  BY <1>1, <1>2, <1>3, PreparationTable DEF MaterialResolved, StageAt, PrepAwaits, TerminalStages
<1>4. CASE TargetLoaded
  <2>1. stage = "loading_target_account"
    BY <1>1, <1>4 DEF TargetLoaded, StageAt
  <2>2. CanFollow(stage, <<"loading_options">>) /\ EndOf(stage, <<"loading_options">>) = "loading_options"
        /\ <<"loading_options">> \in Seq(TaskStages)
    BY <2>1, OneStage, PreparationTable DEF TaskStages
  <2>3. QED BY <1>1, <1>2, <1>4, <2>1, <2>2, MailSettles, PreparationTable
            DEF TargetLoaded, StageAt, PrepAwaits, TerminalStages
<1>5. << >> \in Seq(TaskStages) /\ CanFollow(stage, << >>) /\ EndOf(stage, << >>) = stage
  BY NoStage
<1>6. CASE OptionsLoaded
  BY <1>1, <1>2, <1>5, <1>6, MailSettles, PreparationTable
     DEF OptionsLoaded, StageAt, PrepAwaits, TerminalStages
<1>7. CASE MixedChannelChecked
  <2>1. stage = "checking_existing"
    BY <1>1, <1>7 DEF MixedChannelChecked, StageAt
  <2>2. Advance(<< >>, "find_existing") => Settled
    BY <1>1, <1>5, <2>1, AdvanceSettles DEF AfterRun, Placed, StageAt, AdmittedAt, TerminalStages
  <2>3. QED BY <1>1, <1>5, <1>7, <2>1, <2>2, MailSettles, PreparationTable DEF MixedChannelChecked
<1>8. CASE ExistingChecked
  <2>1. stage = "checking_existing"
    BY <1>1, <1>8 DEF ExistingChecked, StageAt
  <2>2. Advance(<<"already_exists">>, "closing") => Settled
    BY <1>1, <2>1, OneStage, PreparationTable, AdvanceSettles DEF TerminalStages
  <2>3. QED BY <1>1, <1>5, <1>8, <2>1, <2>2, MailSettles, PreparationTable DEF ExistingChecked
<1>9. CASE BaselineEstablished
  BY <1>1, <1>5, <1>9, ProxySettles, PreparationTable DEF BaselineEstablished, StageAt
<1>10. CASE ProxyResolved
  BY <1>1, <1>2, <1>10, PreparationTable DEF ProxyResolved, StageAt, PrepAwaits, TerminalStages
<1>11. QED BY <1>3, <1>4, <1>6, <1>7, <1>8, <1>9, <1>10 DEF PreparationMoves

(* So does each step of an authorization attempt.                          *)
LEMMA AuthorizationSettles ==
  ASSUME IInv, StageInv, ~Terminal, AuthorizationMoves
  PROVE  Settled
<1> USE DEF Waiting, At
<1>1. /\ code = "none" /\ ~aborted /\ StageAt(pc, stage, round)
      /\ pc = "browser_start" /\ chrome = 1 => stage # "authorization_url_received"
  BY StandsAt DEF StageInv
<1>2. \A n, s : n \in {"browser_start", "browser_ready", "submit_email", "next_proxy",
                       "generate_url"}
                => n \notin AfterRun /\ AdmittedAt(n, kind, s)
  BY DEF AfterRun, AdmittedAt
<1>3. CASE \E s \in Sessions : UrlGenerated(s)
  BY <1>1, <1>2, <1>3, StaySettles, StepSettles, ErrorSettles, PreparationTable
     DEF UrlGenerated, StageAt, Placed, TerminalStages
<1>4. CASE BrowserStarted
  BY <1>1, <1>2, <1>4, StaySettles, StepSettles, PreparationTable
     DEF BrowserStarted, StageAt, Placed, TerminalStages
<1>5. CASE UrlOpened
  BY <1>1, <1>2, <1>5, StaySettles, StepSettles, PreparationTable
     DEF UrlOpened, StageAt, Placed, TerminalStages
<1>6. CASE BrowserReady
  BY <1>1, <1>2, <1>6, StaySettles, StepSettles
     DEF BrowserReady, StageAt, Placed, TerminalStages
<1>7. CASE \E proxyFailed \in BOOLEAN : BrowserStartFails(proxyFailed)
  BY <1>1, <1>2, <1>7, StaySettles, StepSettles, ErrorSettles, PreparationTable
     DEF BrowserStartFails, StageAt, Placed, TerminalStages
<1>8. CASE NextProxyFound
  BY <1>1, <1>2, <1>8, StaySettles, StepSettles, PreparationTable
     DEF NextProxyFound, StageAt, Placed, TerminalStages
<1>9. CASE RetryClosed
  BY <1>1, <1>2, <1>9, StaySettles, StepSettles, OutcomeTable
     DEF RetryClosed, StageAt, Placed, TerminalStages
<1>10. QED BY <1>3, <1>4, <1>5, <1>6, <1>7, <1>8, <1>9 DEF AuthorizationMoves

(* So does each step of the login.                                         *)
LEMMA LoginSettles ==
  ASSUME IInv, StageInv, ~Terminal, LoginMoves
  PROVE  Settled
<1> USE DEF Waiting, At, PageAnswers
<1>1. /\ code = "none" /\ ~aborted /\ StageAt(pc, stage, round) /\ stage \in TaskStages
  BY StandsAt
<1>2. \A n, s : n \in LoginAwaits => n \notin AfterRun /\ AdmittedAt(n, kind, s)
  BY DEF AfterRun, AdmittedAt, LoginAwaits, PageCalls, PageActions
<1>3. {"submit_email", "wait_otp", "resend", "submit_otp", "submit_password", "classify",
       "totp_next", "submit_totp", "submit_consent", "manual_wait", "wait_callback",
       "exchange"} \subseteq LoginAwaits
  BY DEF LoginAwaits, PageCalls, PageActions
<1>4. AskHuman /\ CanTransition(stage, "manual_intervention") => Settled
  BY <1>1, <1>2, <1>3, StaySettles, StepSettles DEF AskHuman, StageAt, Placed, TerminalStages
<1>5. /\ AdvanceToConsent(<< >>) /\ CanTransition(stage, "waiting_for_consent") => Settled
      /\ AdvanceToCallback(<< >>) /\ CanTransition(stage, "waiting_for_callback") => Settled
  <2>1. << >> \in Seq(TaskStages) /\ CanFollow(stage, << >>) /\ EndOf(stage, << >>) = stage
    BY NoStage
  <2>2. QED BY <1>1, <2>1, ConsentSettles
<1>6. \A s \in TaskStages : CanTransition(stage, s) =>
        /\ AdvanceToConsent(<<s>>) /\ CanTransition(s, "waiting_for_consent") => Settled
        /\ AdvanceToCallback(<<s>>) /\ CanTransition(s, "waiting_for_callback") => Settled
  <2>1. ASSUME NEW s \in TaskStages, CanTransition(stage, s)
        PROVE  <<s>> \in Seq(TaskStages) /\ CanFollow(stage, <<s>>) /\ EndOf(stage, <<s>>) = s
    BY <2>1, OneStage
  <2>2. QED BY <1>1, <2>1, ConsentSettles
<1>7. {"otp_submitted", "totp_submitted", "consent_submitted"} \subseteq TaskStages
  BY DEF TaskStages, AuthorizationStages
<1>8. round \in 1 .. 3 /\ (pc = "resend" => round < 3)
  BY DEF IInv, TypeOK, RunTypeOK, CounterInv, EmailOtpRoundLimit
<1>9. CASE EmailSubmitted
  <2>1. stage = "authorization_url_opened"
    BY <1>1, <1>9 DEF EmailSubmitted, StageAt
  <2>2. \A s \in {"waiting_for_otp", "waiting_for_password"} :
          /\ CanFollow(stage, <<"email_submitted", s>>)
          /\ EndOf(stage, <<"email_submitted", s>>) = s
    BY <2>1, TwoStages, LoginTable
  <2>3. QED BY <1>1, <1>2, <1>3, <1>9, <2>2, AdvanceSettles
            DEF EmailSubmitted, StageAt, Placed, TerminalStages
<1>10. CASE OtpFound
  BY <1>1, <1>2, <1>3, <1>8, <1>10, StaySettles, StepSettles
     DEF OtpFound, loginVars, StageAt, Placed, TerminalStages
<1>11. CASE OtpRoundEnds
  <2>1. CASE AskHuman /\ round = 3
    BY <1>1, <1>4, <1>11, <2>1, LoginTable DEF OtpRoundEnds, StageAt
  <2>2. CASE round = 1
    BY <1>1, <1>2, <1>3, <1>11, <2>2, StepSettles, LoginTable
       DEF OtpRoundEnds, loginVars, StageAt, Placed, TerminalStages, EmailOtpRoundLimit
  <2>3. CASE round = 2
    BY <1>1, <1>2, <1>3, <1>11, <2>3, StepSettles, LoginTable
       DEF OtpRoundEnds, loginVars, StageAt, Placed, TerminalStages, EmailOtpRoundLimit
  <2>4. QED BY <1>8, <1>11, <2>1, <2>2, <2>3 DEF OtpRoundEnds, EmailOtpRoundLimit
<1>12. CASE ResendAnswered
  <2>1. stage = IF round = 1 THEN "resending_otp" ELSE "resending_otp_second"
    BY <1>1, <1>12 DEF ResendAnswered, StageAt
  <2>2. \A s \in {"otp_submitted", "waiting_for_callback", "manual_intervention"} :
          CanTransition(stage, s)
    BY <2>1, LoginTable
  <2>3. CASE round' = round + 1 /\ ~AskHuman
             /\ Advance(<<IF round = 1 THEN "waiting_for_otp_retry" ELSE "waiting_for_otp_third">>,
                        "wait_otp")
    BY <1>1, <1>2, <1>3, <1>8, <1>12, <2>1, <2>3, StaySettles, StepSettles, LoginTable
       DEF ResendAnswered, StageAt, Placed, TerminalStages
  <2>4. QED BY <1>4, <1>5, <1>6, <1>7, <1>12, <2>2, <2>3, LoginTable DEF ResendAnswered
<1>13. CASE ResendBudgetSpent
  BY <1>1, <1>4, <1>13, LoginTable DEF ResendBudgetSpent, StageAt
<1>14. CASE OtpAccepted
  BY <1>1, <1>6, <1>7, <1>14, LoginTable DEF OtpAccepted, StageAt
<1>15. CASE PasswordAccepted
  BY <1>1, <1>2, <1>3, <1>15, StaySettles, StepSettles, LoginTable
     DEF PasswordAccepted, StageAt, Placed, TerminalStages
<1>16. CASE PasswordRefused
  BY <1>1, <1>2, <1>3, <1>4, <1>16, StaySettles, StepSettles, LoginTable
     DEF PasswordRefused, StageAt, Placed, TerminalStages
<1>17. CASE PageClassified
  BY <1>1, <1>2, <1>3, <1>5, <1>17, StaySettles, StepSettles, LoginTable
     DEF PageClassified, StageAt, Placed, TerminalStages
<1>18. CASE TotpGenerated
  BY <1>1, <1>2, <1>3, <1>18, StaySettles, StepSettles
     DEF TotpGenerated, StageAt, Placed, TerminalStages
<1>19. CASE TotpStillActive
  BY <1>1, <1>2, <1>3, <1>19, StaySettles, StepSettles, ErrorSettles
     DEF TotpStillActive, StageAt, Placed, TerminalStages
<1>20. CASE TotpAccepted
  BY <1>1, <1>6, <1>7, <1>20, LoginTable DEF TotpAccepted, StageAt
<1>21. CASE ConsentSubmitted
  BY <1>1, <1>6, <1>7, <1>21, LoginTable DEF ConsentSubmitted, StageAt
<1>22. CASE CallbackReceived
  BY <1>1, <1>2, <1>3, <1>22, StaySettles, StepSettles, LoginTable
     DEF CallbackReceived, StageAt, Placed, TerminalStages
<1>23. CASE HumanProgressed
  BY <1>1, <1>2, <1>3, <1>5, <1>23, StaySettles, StepSettles, LoginTable
     DEF HumanProgressed, StageAt, Placed, TerminalStages
<1>24. ASSUME NEW p \in PageActions \union {"classify"}, PageNeedsHuman(p)
       PROVE  Settled
  BY <1>1, <1>4, <1>8, <1>24, LoginTable DEF PageNeedsHuman, PageActions, StageAt
<1>25. QED BY <1>9, <1>10, <1>11, <1>12, <1>13, <1>14, <1>15, <1>16, <1>17, <1>18, <1>19,
              <1>20, <1>21, <1>22, <1>23, <1>24 DEF LoginMoves

(* A sighting is possible only in a stage from which the table has a way   *)
(* to the retry and to the confirmation.                                   *)
LEMMA SightingSettles ==
  ASSUME IInv, StageInv, ~Terminal,
         NEW p \in PageActions \union {"classify", "manual_wait", "wait_callback"},
         DeactivationSeen(p)
  PROVE  Settled
<1>1. /\ code = "none" /\ ~aborted /\ StageAt(pc, stage, round) /\ stage \in TaskStages
      /\ kind = "none"
  BY StandsAt DEF IInv, WriteInv, DeactivationSeen, Waiting, At, PageActions, WriteCalls, Requests,
     AfterRun
<1>2. stage \in AuthorizationStages
  <2>1. round \in 1 .. 3
    BY DEF IInv, TypeOK, RunTypeOK, EmailOtpRoundLimit
  <2>2. pc = p
    BY DEF DeactivationSeen, Waiting, At
  <2>3. QED BY <1>1, <2>1, <2>2 DEF StageAt, PageActions, AuthorizationStages
<1> DEFINE confirmed == <<"account_deactivated_confirmed", "locating_deactivated_account">>
           banning == <<"marking_account_banned">>
<1>3. /\ CanFollow(stage, confirmed) /\ EndOf(stage, confirmed) = "locating_deactivated_account"
      /\ confirmed \in Seq(TaskStages) /\ banning \in Seq(TaskStages) /\ banning # << >>
  BY <1>2, TwoStages, OutcomeTable DEF TaskStages, NonCancellableStages, WriteStages
<1>4. CanFollow("locating_deactivated_account", banning) /\ EndOf(stage, banning) = "marking_account_banned"
  BY OneStage, OutcomeTable DEF EndOf
<1>5. /\ CanFollow(stage, confirmed \o banning)
      /\ EndOf(stage, confirmed \o banning) = "marking_account_banned"
  BY <1>1, <1>3, <1>4, LongerFollow, LongerPath
<1>6. CASE Advance(<<"account_deactivated_retrying">>, "retry_close")
  BY <1>1, <1>2, <1>6, StepSettles, OutcomeTable
     DEF StageAt, AdmittedAt, Placed, TerminalStages, AfterRun
<1>7. CASE Advance(confirmed, "locate")
  BY <1>1, <1>3, <1>7, AdvanceSettles
     DEF StageAt, AdmittedAt, Placed, TerminalStages, AfterRun
<1>8. CASE BeginWrite(confirmed \o banning, "ban")
  BY <1>1, <1>5, <1>8, BeginSettles DEF AdmittedAt, TerminalStages
<1>9. QED BY <1>6, <1>7, <1>8 DEF DeactivationSeen

(* The steps that lead from the login to a write. *)
LEMMA StartSettles ==
  ASSUME IInv, StageInv, ~Terminal, StartMoves
  PROVE  Settled
<1> USE DEF Waiting, At, Finish
<1>1. /\ code = "none" /\ ~aborted /\ StageAt(pc, stage, round) /\ stage \in TaskStages
  BY StandsAt
<1>2. kind = "none"
  BY StartFlow DEF IInv, WriteInv, WriteCalls, Requests, AfterRun
<1>3. ASSUME NEW s, NEW k, CanTransition(stage, s), BeginWrite(<<s>>, k),
             s \notin TerminalStages, AdmittedAt("write_gate", k, s)
      PROVE  Settled
  <2>1. CanFollow(stage, <<s>>) /\ EndOf(stage, <<s>>) = s
    BY <1>3, OneStage
  <2>2. QED BY <1>2, <1>3, <2>1, BeginSettles
<1>4. CASE BanTargetLocated
  BY <1>1, <1>3, <1>4, OutcomeTable DEF BanTargetLocated, StageAt, AdmittedAt, TerminalStages
<1>5. CASE CodeExchanged
  <2>1. stage = "exchanging_code"
    BY <1>1, <1>5 DEF CodeExchanged, StageAt
  <2>2. /\ CanFollow(stage, <<"checking_duplicate", "creating_account">>)
        /\ EndOf(stage, <<"checking_duplicate", "creating_account">>) = "creating_account"
    BY <2>1, TwoStages, OutcomeTable
  <2>3. CASE Advance(<< >>, "reload_target")
    BY <1>1, <2>1, <2>3, StaySettles DEF StageAt, AdmittedAt, Placed, TerminalStages, AfterRun
  <2>4. CASE BeginWrite(<<"checking_duplicate", "creating_account">>, "create")
    BY <1>2, <2>2, <2>4, BeginSettles DEF AdmittedAt, TerminalStages
  <2>5. CASE Advance(<<"checking_duplicate">>, "find_duplicate")
    BY <1>1, <2>1, <2>5, StepSettles, OutcomeTable
       DEF StageAt, AdmittedAt, Placed, TerminalStages, AfterRun
  <2>6. QED BY <1>5, <2>3, <2>4, <2>5 DEF CodeExchanged
<1>6. CASE TargetReloaded
  BY <1>1, <1>3, <1>6, OutcomeTable DEF TargetReloaded, StageAt, AdmittedAt, TerminalStages
<1>7. CASE DuplicateChecked
  <2>1. stage = "checking_duplicate"
    BY <1>1, <1>7 DEF DuplicateChecked, StageAt
  <2>2. Advance(<<"already_exists">>, "closing") => Settled
    BY <1>1, <2>1, OneStage, OutcomeTable, AdvanceSettles DEF TerminalStages
  <2>3. QED BY <1>3, <1>7, <2>1, <2>2, OutcomeTable
            DEF DuplicateChecked, AdmittedAt, TerminalStages
<1>8. QED BY <1>4, <1>5, <1>6, <1>7 DEF StartMoves

(* The steps of a write. *)
LEMMA WriteSettles ==
  ASSUME IInv, StageInv, ~Terminal, WriteMoves
  PROVE  Settled
<1> USE DEF Waiting, At, Finish
<1>1. /\ code = "none" /\ ~aborted /\ StageAt(pc, stage, round) /\ AdmittedAt(pc, kind, stage)
  BY StandsAt
<1>2. \A n, s : n \in WriteCalls \ {"write_gate"} => n \notin AfterRun /\ AdmittedAt(n, kind, s)
  BY DEF AfterRun, AdmittedAt, WriteCalls, Requests
<1>3. {"apply_put", "create_post", "ban_put", "note_put", "apply_read", "apply_confirm",
       "create_get", "create_lookup", "ban_read", "ban_confirm", "note_load", "note_confirm"}
      \subseteq WriteCalls \ {"write_gate"}
  BY DEF WriteCalls, Requests
<1>4. CanTransition(stage, "completed") /\ Advance(<<"completed">>, "closing") => Settled
  BY <1>1, OneStage, AdvanceSettles DEF TerminalStages
<1>5. \A n : n \in WriteCalls \ {"write_gate"} /\ Advance(<< >>, n) /\ StageAt(n, stage, round')
            => Settled
  BY <1>1, <1>2, StaySettles DEF Placed, Terminal
<1>6. \A n, s : /\ n \in WriteCalls \ {"write_gate"} /\ CanTransition(stage, s)
                /\ Advance(<<s>>, n) /\ s \notin TerminalStages /\ StageAt(n, s, round')
            => Settled
  BY <1>1, <1>2, StepSettles DEF Placed
<1>7. CASE WriteAdmitted
  BY <1>1, <1>3, <1>5, <1>7 DEF WriteAdmitted, Send, StageAt, AdmittedAt
<1>8. CASE ApplyReplied
  BY <1>1, <1>3, <1>6, <1>8, ErrorSettles, OutcomeTable DEF ApplyReplied, StageAt, TerminalStages
<1>9. CASE ApplyRead \/ ApplyConfirmed
  BY <1>1, <1>4, <1>9, ErrorSettles, OutcomeTable DEF ApplyRead, ApplyConfirmed, StageAt
<1>10. CreateUncertain /\ stage = "creating_account" => Settled
  BY <1>3, <1>6, ErrorSettles, OutcomeTable DEF CreateUncertain, StageAt, TerminalStages
<1>11. CASE CreateReplied
  BY <1>1, <1>3, <1>5, <1>10, <1>11, ErrorSettles DEF CreateReplied, StageAt
<1>12. CASE CreateRead
  <2>1. stage = "creating_account"
    BY <1>1, <1>12 DEF CreateRead, StageAt
  <2>2. Advance(<<"confirming_account", "completed">>, "closing") => Settled
    BY <1>1, <2>1, TwoStages, OutcomeTable, AdvanceSettles DEF TerminalStages
  <2>3. QED BY <1>10, <1>12, <2>1, <2>2, ErrorSettles DEF CreateRead
<1>13. CASE CreateLookedUp
  BY <1>1, <1>4, <1>13, ErrorSettles, OutcomeTable DEF CreateLookedUp, StageAt
<1>14. CASE BanRead \/ BanReplied \/ BanConfirmed
  BY <1>1, <1>3, <1>5, <1>14, ErrorSettles DEF BanRead, BanReplied, BanConfirmed, Send, StageAt
<1>15. CASE NoteLoaded \/ NoteReplied \/ NoteConfirmed
  BY <1>1, <1>3, <1>5, <1>15, ErrorSettles DEF NoteLoaded, NoteReplied, NoteConfirmed, Send, StageAt
<1>16. QED BY <1>7, <1>8, <1>9, <1>11, <1>12, <1>13, <1>14, <1>15 DEF WriteMoves

(* Every step of a run whose task has not ended settles it.                *)
LEMMA RunSettles ==
  ASSUME IInv, StageInv, ~Terminal, RunMoves
  PROVE  Settled
<1>1. CASE FailureMoves
  BY <1>1, ErrorSettles DEF FailureMoves, CallFails, FailureCodes, AbortSeen
<1>2. QED BY <1>1, PreparationSettles, AuthorizationSettles, LoginSettles, SightingSettles,
             StartSettles, WriteSettles DEF RunMoves

(* The run starts a browser only for a URL it has just received.           *)
LEMMA BrowserStage ==
  ASSUME IInv, WindowInv, StageInv, RunMoves, pc' = "browser_start", chrome' = 1, ~Terminal
  PROVE  stage' # "authorization_url_received"
<1> USE DEF Waiting, At
<1>1. AuthorizationMoves
  BY PreparationFlow, LoginFlow, SightingFlow, StartFlow, WriteFlow, FailureFlow
     DEF RunMoves, PrepAwaits, LoginAwaits, PageCalls, PageActions, WriteCalls, Requests
<1>2. ~\E s \in Sessions : UrlGenerated(s)
  BY DEF UrlGenerated, windowVars, WindowInv, PrepAwaits
<1>3. BrowserStarted
  BY <1>1, <1>2, AdvanceGoes, ErrorGoes DEF AuthorizationMoves, UrlOpened, BrowserReady,
     BrowserStartFails, NextProxyFound, RetryClosed
<1>4. CanFollow(stage, <<"browser_started">>) /\ EndOf(stage, <<"browser_started">>) = "browser_started"
  BY <1>3, OneStage, PreparationTable DEF BrowserStarted
<1>5. QED BY <1>3, <1>4 DEF BrowserStarted, Advance, Arrive

(* Every step keeps the stage and the await together.                      *)
LEMMA StageStep ==
  ASSUME IInv, WindowInv, StageInv, [Next]_vars
  PROVE  StageInv'
<1>0. KeepsEnd
  BY NextIInv
<1>1. CASE RunMoves
  <2>1. pc \notin AfterRun /\ aborted' = aborted
    BY <1>1, RunAwaits, HandsOff
  <2>2. CASE Terminal
    BY <1>0, <2>1, <2>2 DEF StageInv, KeepsEnd, Terminal, Placed, TerminalStages
  <2>3. CASE ~Terminal
    <3>1. Settled
      BY <1>1, <2>3, RunSettles
    <3>2. code = "none" /\ ~aborted
      BY <2>3, StandsAt
    <3>3. QED BY <1>1, <2>1, <2>3, <3>1, <3>2, BrowserStage DEF Settled, StageInv, Terminal, AfterRun
  <2>4. QED BY <2>2, <2>3
<1>2. CASE AsideMoves
  <2>1. CASE Closed
    BY <2>1 DEF Closed, At, StageInv, AfterRun, Terminal, humanVars
  <2>2. CASE ~Closed
    BY <1>2, <2>2 DEF AsideMoves, TakeOver, ReleaseTakeover, UserClosesPage, CallbackCaptured,
       TwinAppears, LimboLands, Terminated, taskVars, loginVars, windowVars, humanVars, vars,
       StageInv, Terminal
  <2>3. QED BY <2>1, <2>2
<1>3. CASE Cancel
  BY <1>3 DEF Cancel, CanCancel, NonCancellableStages, StageInv, Terminal, TerminalStages, AfterRun
<1>4. CASE Restart
  BY <1>4 DEF Restart, StageInv, Terminal, TerminalStages, AfterRun, Placed
<1>5. CASE UNCHANGED vars
  BY <1>5 DEF vars, taskVars, loginVars, windowVars, humanVars, StageInv, Terminal
<1>6. QED BY <1>1, <1>2, <1>3, <1>4, <1>5, StepGroups

(* The orchestrator never asks the state machine for a transition its      *)
(* table forbids (state-machine.ts transition throws TASK_STATE_INVALID),  *)
(* whatever the pages show, and however a cancellation interleaves.        *)
THEOREM LegalTransitions == Spec => []OnlyLegalTransitions
<1>1. Init => WindowInv /\ StageInv
  BY DEF Init, WindowInv, StageInv, AfterRun, Placed, StageAt, AdmittedAt, TerminalStages
<1>2. StageInv => OnlyLegalTransitions
  BY DEF StageInv, OnlyLegalTransitions
<1>3. QED BY Invariant, WindowStep, StageStep, <1>1, <1>2, PTL DEF Spec
-----------------------------------------------------------------------------
(* What the end of a task says of the backend.                             *)

ResultInv ==
  /\ SuccessIsReal /\ FailureIsHonest
  /\ stage = "completed" => sent = 1

(* As long as no transition is refused, a segment makes all of its path.   *)
LEMMA AdvanceHolds ==
  ASSUME ~Terminal, code' # "illegal", NEW path, NEW next, Advance(path, next)
  PROVE  pc' = next /\ stage' = EndOf(stage, path) /\ code' = code
BY DEF Advance, Arrive, Throw, Fail

(* An error fails the task, or has a note written.                         *)
LEMMA ErrorFails ==
  ASSUME ~Terminal, NEW c
  PROVE  /\ Fail(c) => stage' = "failed" /\ code' = c
         /\ Throw(c) /\ c # "needs_note" => stage' = "failed" /\ code' = c
         /\ Throw(c) => stage' \in {stage, "failed"}
BY DEF Fail, Throw, AdmitWrite, EndOf

(* Only a write completes a task. *)
LEMMA NotCompleted ==
  ASSUME IInv, WindowInv, StageInv, ~Terminal, RunMoves, ~WriteMoves
  PROVE  stage' # "completed"
<1>1. SUFFICES ASSUME stage' = "completed" PROVE FALSE
  OBVIOUS
<1>2. Settled /\ code' # "illegal"
  BY RunSettles, StandsAt DEF Settled
<1>3. pc' = "closing" /\ stage # "completed"
  BY <1>1, <1>2 DEF Settled, Placed, Terminal, TerminalStages
<1>4. /\ \A path, n : Advance(path, n) /\ n # "closing" => FALSE
      /\ \A path, n : AdvanceToGate(path, n) /\ n # "closing" => FALSE
      /\ \A s : Advance(<<s>>, "closing") => s = "completed"
  <2>1. \A s : EndOf(stage, <<s>>) = s
    BY DEF EndOf
  <2>2. \A path, n : AdvanceToGate(path, n) => pc' = n
    BY <1>1, <1>2, <1>3, ErrorFails DEF AdvanceToGate, Arrive
  <2>3. QED BY <1>1, <1>2, <1>3, <2>1, <2>2, AdvanceHolds
<1>5. \A path, k : BeginWrite(path, k) => FALSE
  BY <1>1, <1>3, ErrorFails DEF BeginWrite, AdmitWrite
<1>6. \A c : Throw(c) \/ Fail(c) => FALSE
  BY <1>1, <1>3, ErrorFails
<1> USE DEF Finish
<1>7. ~PreparationMoves
  BY <1>4 DEF PreparationMoves, MaterialResolved, TargetLoaded, OptionsLoaded,
     MixedChannelChecked, ExistingChecked, BaselineEstablished, ProxyResolved,
     AdvanceToMail, AdvanceToProxy
<1>8. ~AuthorizationMoves
  BY <1>4, <1>6 DEF AuthorizationMoves, UrlGenerated, BrowserStarted,
     UrlOpened, BrowserReady, BrowserStartFails, NextProxyFound, RetryClosed
<1>9. ~LoginMoves
  BY <1>4, <1>6 DEF LoginMoves, EmailSubmitted, OtpFound,
       OtpRoundEnds, ResendAnswered, ResendBudgetSpent, OtpAccepted, PasswordAccepted,
       PasswordRefused, PageClassified, TotpGenerated, TotpStillActive, TotpAccepted,
       ConsentSubmitted, CallbackReceived, HumanProgressed, PageNeedsHuman, AskHuman,
       AdvanceToConsent, AdvanceToCallback
<1>10. ~StartMoves
  BY <1>4, <1>5 DEF StartMoves, BanTargetLocated, CodeExchanged, TargetReloaded,
     DuplicateChecked
<1>11. ~FailureMoves
  BY <1>6 DEF FailureMoves, CallFails, AbortSeen
<1>12. \A p : ~DeactivationSeen(p)
  BY <1>4, <1>5 DEF DeactivationSeen
<1>13. QED BY <1>7, <1>8, <1>9, <1>10, <1>11, <1>12 DEF RunMoves

(* The steps of a write report what they have seen of it.                  *)
LEMMA WriteResults ==
  ASSUME IInv, WindowInv, StageInv, OutcomeInv, ~Terminal, WriteMoves
  PROVE  ResultInv'
<1> USE DEF Waiting, At, Finish
<1>1. /\ code = "none" /\ code' # "illegal" /\ kind' = kind
      /\ sent \in Nat /\ sent <= 1 /\ (pc \in BeforeRequest => sent = 0)
      /\ stage \notin {"completed", "failed"}
  BY RunSettles, StandsAt, WriteFlow
     DEF RunMoves, Settled, IInv, TypeOK, RunTypeOK, WriteInv, Terminal, TerminalStages
<1>2. /\ \A n, s : Advance(<<s>>, n) => stage' = s /\ code' = code
      /\ \A n : Advance(<< >>, n) => stage' = stage /\ code' = code
      /\ \A n, s, t : Advance(<<s, t>>, n) => stage' = t /\ code' = code
  BY <1>1, AdvanceHolds DEF EndOf
<1>3. /\ \A c : Fail(c) => stage' = "failed" /\ code' = c
      /\ Throw("error") => stage' = "failed" /\ code' = "error"
  BY ErrorFails
<1> USE DEF ResultInv, SuccessIsReal, FailureIsHonest
<1>4. CASE WriteAdmitted
  BY <1>1, <1>2, <1>4 DEF WriteAdmitted, Send, writeVars
<1>5. CASE ApplyReplied
  BY <1>1, <1>2, <1>3, <1>5 DEF ApplyReplied
<1>6. CASE ApplyRead \/ ApplyConfirmed
  BY <1>1, <1>2, <1>3, <1>6 DEF ApplyRead, ApplyConfirmed, writeVars, OutcomeInv
<1>7. CreateUncertain => \/ stage' = "failed" /\ code' = "uncertain"
                         \/ stage' = "create_result_uncertain" /\ code' = "none"
  BY <1>1, <1>2, <1>3 DEF CreateUncertain
<1>8. CASE CreateReplied
  BY <1>1, <1>2, <1>3, <1>7, <1>8 DEF CreateReplied, OutcomeInv
<1>9. CASE CreateRead
  BY <1>1, <1>2, <1>3, <1>7, <1>9 DEF CreateRead, OutcomeInv, writeVars
<1>10. CASE CreateLookedUp
  BY <1>1, <1>2, <1>3, <1>10 DEF CreateLookedUp, OutcomeInv, writeVars
<1>11. CASE BanRead \/ BanReplied \/ BanConfirmed
  BY <1>1, <1>2, <1>3, <1>11 DEF BanRead, BanReplied, BanConfirmed, Send, OutcomeInv,
     BeforeRequest, writeVars
<1>12. CASE NoteLoaded \/ NoteReplied \/ NoteConfirmed
  BY <1>1, <1>2, <1>3, <1>12 DEF NoteLoaded, NoteReplied, NoteConfirmed, Send, OutcomeInv,
     BeforeRequest, writeVars
<1>13. QED BY <1>4, <1>5, <1>6, <1>8, <1>9, <1>10, <1>11, <1>12 DEF WriteMoves

(* A step of the run that is none of a write sends nothing. *)
LEMMA NothingSent ==
  ASSUME IInv, RunMoves, ~WriteMoves
  PROVE  UNCHANGED <<sent, outcome>>
<1>1. CASE PreparationMoves \/ AuthorizationMoves \/ LoginMoves \/ StartMoves \/ FailureMoves
  BY <1>1, PreparationFlow, AuthorizationFlow, LoginFlow, StartFlow, FailureFlow
     DEF prepUnchanged, loginUnchanged, writeVars
<1>2. ASSUME NEW p, DeactivationSeen(p) PROVE UNCHANGED <<sent, outcome>>
  BY <1>2 DEF DeactivationSeen, deactivationUnchanged, writeVars
<1>3. QED BY <1>1, <1>2 DEF RunMoves

(* Every step keeps the reports true.                                      *)
LEMMA ResultStep ==
  ASSUME IInv, WindowInv, StageInv, OutcomeInv, ResultInv, [Next]_vars
  PROVE  ResultInv'
<1> USE DEF ResultInv, SuccessIsReal, FailureIsHonest
<1>1. CASE RunMoves /\ Terminal
  <2>1. stage' = stage /\ code' = code
    BY <1>1, NextIInv DEF KeepsEnd
  <2>2. pc \notin AfterRun
    BY <1>1, RunAwaits
  <2>3. stage = "cancelled" /\ code = "none"
    BY <1>1, <2>2 DEF StageInv, Placed, Terminal
  <2>4. QED BY <2>1, <2>3
<1>2. CASE WriteMoves /\ ~Terminal
  BY <1>2, WriteResults
<1>3. CASE RunMoves /\ ~WriteMoves /\ ~Terminal
  <2>1. pc \notin AfterRun /\ pc \notin WriteCalls \ BeforeRequest
    BY <1>3, RunAwaits
  <2>2. sent = 0
    BY <2>1 DEF IInv, WriteInv
  <2>3. QED BY <1>3, <2>2, NotCompleted, NothingSent DEF OutcomeInv
<1>4. CASE AsideMoves
  BY <1>4 DEF AsideMoves, Closed, TakeOver, ReleaseTakeover, UserClosesPage,
     CallbackCaptured, TwinAppears, LimboLands, Terminated, taskVars, writeVars, vars
<1>5. CASE Cancel
  BY <1>5 DEF Cancel, writeVars
<1>6. CASE Restart
  BY <1>6 DEF Restart, OutcomeInv, StageInv, Placed, Terminal, TerminalStages, AfterRun, Requests
<1>7. CASE UNCHANGED vars
  BY <1>7 DEF vars, taskVars, writeVars
<1>8. QED BY <1>1, <1>2, <1>3, <1>4, <1>5, <1>6, <1>7, StepGroups DEF RunMoves

(* A task reports success only of a change that took effect, or of the     *)
(* account it had to create being there already, and reports a ban only of *)
(* an account that is banned (the confirming reads of reauthorizer.ts,     *)
(* creator.ts and deactivation.ts).                                        *)
THEOREM SuccessHolds == Spec => []SuccessIsReal
<1>1. Init => WindowInv /\ StageInv /\ OutcomeInv /\ ResultInv
  BY DEF Init, WindowInv, StageInv, OutcomeInv, ResultInv, SuccessIsReal, FailureIsHonest,
     AfterRun, Placed, StageAt, AdmittedAt, TerminalStages, Requests
<1>2. ResultInv => SuccessIsReal
  BY DEF ResultInv
<1>3. QED BY Invariant, WindowStep, StageStep, OutcomeStep, ResultStep, <1>1, <1>2, PTL DEF Spec

(* A failed task does not claim a refusal when its credentials or its note *)
(* may have reached the account (reauthorizer.ts, the uncertain results).  *)
THEOREM FailureHolds == Spec => []FailureIsHonest
<1>1. Init => WindowInv /\ StageInv /\ OutcomeInv /\ ResultInv
  BY DEF Init, WindowInv, StageInv, OutcomeInv, ResultInv, SuccessIsReal, FailureIsHonest,
     AfterRun, Placed, StageAt, AdmittedAt, TerminalStages, Requests
<1>2. ResultInv => FailureIsHonest
  BY DEF ResultInv
<1>3. QED BY Invariant, WindowStep, StageStep, OutcomeStep, ResultStep, <1>1, <1>2, PTL DEF Spec
-----------------------------------------------------------------------------
(* The sightings behind a ban.                                             *)

(* Awaits at which the sightings of a task matter no more. *)
SightedAwaits == {"locate"} \union WriteCalls \union AfterRun
RetryAwaits == {"retry_close", "generate_url"}

SightInv ==
  /\ detected = 0 => sightings = {}
  /\ detected > 0 => pc \notin PrepAwaits \ {"generate_url"}
  /\ kind = "ban" \/ pc = "locate" => detected = input.attempts
  /\ input.proxy # "dynamic" =>
       /\ pc # "next_proxy"
       /\ detected = 1 =>
            /\ \E s \in Sessions \union {NoSession} : sightings = {s}
            /\ pc \in RetryAwaits => sightings = {session}
            /\ pc \notin RetryAwaits \union SightedAwaits => session \notin sightings
       /\ detected = 2 => Cardinality(sightings) = 2

(* A step that counts no sighting and generates no session.                *)
LEMMA SightKept ==
  ASSUME SightInv, UNCHANGED <<input, session, sightings, detected>>,
         kind' = "ban" => kind = "ban" \/ pc = "locate",
         pc' # pc => pc' \notin {"locate", "next_proxy"},
         \/ pc' = pc \/ pc' \in SightedAwaits
         \/ pc' \notin PrepAwaits \union RetryAwaits /\ pc \notin RetryAwaits \union SightedAwaits
         \/ pc \in {"retry_close", "next_proxy"} /\ pc' = "generate_url"
         \/ pc \in PrepAwaits \ {"generate_url"}
  PROVE  SightInv'
<1>1. SightedAwaits \intersect (PrepAwaits \union RetryAwaits) = {}
  BY DEF SightedAwaits, PrepAwaits, RetryAwaits, WriteCalls, Requests, AfterRun
<1>2. "locate" \in SightedAwaits /\ "next_proxy" \notin PrepAwaits
  BY DEF SightedAwaits, PrepAwaits
<1>3. CASE pc \in PrepAwaits \ {"generate_url"}
  BY <1>1, <1>2, <1>3 DEF SightInv
<1>4. CASE pc \notin PrepAwaits \ {"generate_url"}
  BY <1>1, <1>2, <1>4 DEF SightInv, PrepAwaits, RetryAwaits
<1>5. QED BY <1>3, <1>4

(* A sighting is counted in the session it was made in.                    *)
LEMMA SightCounted ==
  ASSUME IInv, SightInv,
         NEW p \in PageActions \union {"classify", "manual_wait", "wait_callback"},
         DeactivationSeen(p)
  PROVE  SightInv'
<1>1. /\ detected \in 0 .. input.attempts /\ input.attempts \in 1 .. 10
      /\ session \in Sessions \union {NoSession}
  BY InputsAssumption DEF IInv, TypeOK, RunTypeOK, InputType
<1>2. /\ detected' = detected + 1 /\ sightings' = sightings \union {session}
      /\ UNCHANGED <<input, session>>
  BY DEF DeactivationSeen, deactivationUnchanged
<1>3. /\ pc \in LoginAwaits
      /\ pc' \in {"retry_close", "locate", "closing", "write_gate"}
      /\ pc' = "retry_close" => detected + 1 < input.attempts
      /\ pc' \in {"locate", "write_gate"} => ~(detected + 1 < input.attempts)
      /\ kind' = "ban" => kind = "ban" \/ pc' = "write_gate"
  BY SightingFlow
<1>4. /\ kind = "none" /\ detected # input.attempts
      /\ pc \notin PrepAwaits /\ pc \notin RetryAwaits \union SightedAwaits
  BY <1>3 DEF IInv, WriteInv, CounterInv, LoginAwaits, PageCalls, PageActions, PrepAwaits, RetryAwaits,
     SightedAwaits, WriteCalls, Requests, AfterRun
<1>5. pc' \notin PrepAwaits \ {"generate_url"} /\ pc' # "next_proxy"
  BY <1>3 DEF PrepAwaits
<1>6. pc' = "locate" \/ kind' = "ban" => detected' = input'.attempts
  BY <1>1, <1>2, <1>3, <1>4
<1>7. CASE detected = 0
  <2>1. sightings' = {session}
    BY <1>2, <1>7 DEF SightInv
  <2>2. pc' \in RetryAwaits \union SightedAwaits
    BY <1>3 DEF RetryAwaits, SightedAwaits, AfterRun, WriteCalls
  <2>3. QED BY <1>1, <1>2, <1>5, <1>6, <1>7, <2>1, <2>2 DEF SightInv
<1>8. CASE detected = 1
  <2>1. input.proxy # "dynamic" => Cardinality(sightings') = 2
    <3>1. ASSUME NEW s, sightings = {s}, session # s
          PROVE  Cardinality(sightings') = 2
      <4>1. IsFiniteSet({s}) /\ Cardinality({s}) = 1
        BY FS_Singleton
      <4>2. Cardinality({s} \union {session}) = 2
        BY <3>1, <4>1, FS_AddElement
      <4>3. QED BY <1>2, <3>1, <4>2
    <3>2. QED BY <1>4, <1>8, <3>1 DEF SightInv
  <2>2. QED BY <1>1, <1>2, <1>5, <1>6, <1>8, <2>1 DEF SightInv
<1>9. CASE detected > 1
  BY <1>1, <1>2, <1>5, <1>6, <1>9 DEF SightInv
<1>10. QED BY <1>1, <1>7, <1>8, <1>9

(* A new session is not that of the sighting before it. *)
LEMMA SightRenewed ==
  ASSUME IInv, SightInv, NEW s \in Sessions, UrlGenerated(s)
  PROVE  SightInv'
<1> USE DEF Waiting, At
<1>1. detected \in Nat
  BY DEF IInv, TypeOK, RunTypeOK
<1>2. pc' \in {"browser_start", "closing"} /\ kind' = kind /\ pc = "generate_url"
  BY AdvanceGoes, ErrorGoes DEF UrlGenerated
<1>3. CASE SessionReused(s)
  <2>1. pc' = "closing"
    BY <1>3, ErrorGoes DEF UrlGenerated
  <2>2. QED BY <1>2, <1>3, <2>1, SightKept DEF UrlGenerated, SightedAwaits, AfterRun
<1>4. CASE ~SessionReused(s)
  <2>1. /\ session' = s /\ (detected > 0 => s # session)
        /\ UNCHANGED <<input, sightings, detected>>
    BY <1>1, <1>4 DEF UrlGenerated, SessionReused
  <2>2. pc' \notin PrepAwaits \union RetryAwaits \union {"locate", "next_proxy"}
    BY <1>2 DEF PrepAwaits, RetryAwaits
  <2>3. QED BY <1>1, <1>2, <2>1, <2>2 DEF SightInv, RetryAwaits
<1>5. QED BY <1>3, <1>4

(* The other steps count nothing.                                          *)
LEMMA SightStep ==
  ASSUME IInv, SightInv, [Next]_vars
  PROVE  SightInv'
<1>1. CASE RunMoves
  <2>1. CASE PreparationMoves
    BY <2>1, PreparationFlow, SightKept DEF prepUnchanged, oauthVars, PrepAwaits
  <2>2. CASE AuthorizationMoves
    <3>1. CASE \E s \in Sessions : UrlGenerated(s)
      BY <3>1, SightRenewed
    <3>2. CASE ~\E s \in Sessions : UrlGenerated(s)
      <4>1. session' = session
        BY <2>2, <3>2 DEF AuthorizationMoves, BrowserStarted, UrlOpened, BrowserReady,
           BrowserStartFails, NextProxyFound, RetryClosed, oauthVars
      <4>2. CASE pc' = "next_proxy"
        <5>1. input.proxy = "dynamic"
          BY <2>2, <3>2, <4>2, AdvanceGoes, ErrorGoes DEF AuthorizationMoves, BrowserStarted,
             UrlOpened, BrowserReady, BrowserStartFails, ProxyReplaceable, NextProxyFound,
             RetryClosed, Waiting, At
        <5>2. QED BY <2>2, <4>1, <4>2, <5>1, AuthorizationFlow DEF SightInv, PrepAwaits
      <4>3. CASE pc' = "generate_url"
        <5>1. pc \in {"retry_close", "next_proxy"}
          BY <2>2, <3>2, <4>3, AdvanceGoes, ErrorGoes DEF AuthorizationMoves, BrowserStarted,
             UrlOpened, BrowserReady, BrowserStartFails, NextProxyFound, RetryClosed, Waiting, At
        <5>2. QED BY <2>2, <4>1, <4>3, <5>1, AuthorizationFlow, SightKept
      <4>4. CASE pc' = "closing"
        BY <2>2, <4>1, <4>4, AuthorizationFlow, SightKept DEF SightedAwaits, AfterRun
      <4>5. CASE pc' \in {"browser_start", "browser_ready", "submit_email"}
        <5>1. pc \in {"browser_start", "browser_ready"}
          BY <2>2, <3>2, <4>5, AdvanceGoes, ErrorGoes DEF AuthorizationMoves, BrowserStarted,
             UrlOpened, BrowserReady, BrowserStartFails, NextProxyFound, RetryClosed, Waiting, At
        <5>2. QED BY <2>2, <4>1, <4>5, <5>1, AuthorizationFlow, SightKept
                  DEF PrepAwaits, RetryAwaits, SightedAwaits, WriteCalls, Requests, AfterRun
      <4>6. QED BY <2>2, <4>2, <4>3, <4>4, <4>5, AuthorizationFlow
    <3>3. QED BY <3>1, <3>2
  <2>3. CASE LoginMoves
    <3>1. /\ pc' \notin PrepAwaits \union RetryAwaits \union {"locate", "next_proxy"}
          /\ kind' = kind
          /\ pc \notin RetryAwaits \union SightedAwaits
          /\ UNCHANGED <<input, session, sightings, detected>>
      BY <2>3, LoginFlow DEF loginUnchanged, oauthVars, LoginAwaits, PageCalls, PageActions,
         PrepAwaits, RetryAwaits, SightedAwaits, WriteCalls, Requests, AfterRun
    <3>2. QED BY <3>1, SightKept
  <2>4. CASE StartMoves
    <3>1. /\ pc \in {"locate", "exchange", "reload_target", "find_duplicate"}
          /\ pc' \in {"reload_target", "find_duplicate", "closing", "write_gate"}
          /\ kind' = "ban" => kind = "ban" \/ pc = "locate"
          /\ pc' \in {"reload_target", "find_duplicate"} => pc = "exchange"
          /\ UNCHANGED <<input, session, sightings, detected>>
      BY <2>4, StartFlow, AdvanceGoes, BeginGoes DEF exchangeUnchanged, oauthVars, StartMoves,
         BanTargetLocated, CodeExchanged, TargetReloaded, DuplicateChecked, Waiting, At, Finish
    <3>2. QED BY <3>1, SightKept DEF PrepAwaits, RetryAwaits, SightedAwaits, WriteCalls, Requests,
                 AfterRun
  <2>5. CASE WriteMoves
    BY <2>5, WriteFlow, SightKept DEF exchangeUnchanged, oauthVars, SightedAwaits, WriteCalls,
       Requests, AfterRun
  <2>6. CASE FailureMoves
    BY <2>6, FailureFlow, SightKept DEF oauthVars, SightedAwaits, WriteCalls, AfterRun
  <2>7. QED BY <1>1, <2>1, <2>2, <2>3, <2>4, <2>5, <2>6, SightCounted DEF RunMoves
<1>2. CASE AsideMoves
  BY <1>2, SightKept DEF AsideMoves, Closed, TakeOver, ReleaseTakeover, UserClosesPage,
     CallbackCaptured, TwinAppears, LimboLands, Terminated, taskVars, oauthVars, vars,
     SightedAwaits, AfterRun
<1>3. CASE Cancel \/ Restart
  BY <1>3, SightKept DEF Cancel, Restart, oauthVars, SightedAwaits, AfterRun
<1>4. CASE UNCHANGED vars
  BY <1>4, SightKept DEF vars, taskVars, oauthVars
<1>5. QED BY <1>1, <1>2, <1>3, <1>4, StepGroups

(* An account is banned only after as many sightings as the settings ask   *)
(* for; of two on a steady proxy each was made in a session of its own     *)
(* (orchestrator.ts, the retry after account_deactivated).                 *)
THEOREM BanConfirmation == Spec => []BanIsConfirmed
<1>1. Init => SightInv
  BY InputsAssumption DEF Init, SightInv, InputType, RetryAwaits, SightedAwaits
<1>2. SightInv => BanIsConfirmed
  BY DEF SightInv, BanIsConfirmed
<1>3. QED BY Invariant, SightStep, <1>1, <1>2, PTL DEF Spec
-----------------------------------------------------------------------------
(* TaskRun implements TaskLifecycle.                                       *)

(* A step that admits a write.                                             *)
LEMMA AdmitStep ==
  ASSUME IInv, WindowInv, StageInv, [Next]_vars, kind' # kind
  PROVE  /\ ~Terminal /\ stage' \notin TerminalStages
         /\ kind = "none" /\ kind' \in WriteKinds /\ sent' = sent
<1>1. RunMoves
  BY StepGroups DEF AsideMoves, Closed, TakeOver, ReleaseTakeover, UserClosesPage,
     CallbackCaptured, TwinAppears, LimboLands, Terminated, Cancel, Restart, taskVars, vars
<1>2. ~WriteMoves /\ pc' = "write_gate" /\ kind' \in WriteKinds
  BY <1>1, PreparationFlow, AuthorizationFlow, LoginFlow, SightingFlow, StartFlow, WriteFlow,
     FailureFlow DEF RunMoves, WriteKinds
<1>3. kind = "none"
  <2>1. CASE FailureMoves
    BY <2>1, FailureFlow
  <2>2. CASE ~FailureMoves
    <3>1. pc \notin WriteCalls \union AfterRun
      BY <1>1, <1>2, <2>2, PreparationFlow, AuthorizationFlow, LoginFlow, SightingFlow, StartFlow
         DEF RunMoves, PrepAwaits, LoginAwaits, PageCalls, PageActions, WriteCalls, Requests,
             AfterRun
    <3>2. QED BY <3>1 DEF IInv, WriteInv
  <2>3. QED BY <2>1, <2>2
<1>4. ~Terminal
  <2>1. SUFFICES ASSUME Terminal PROVE FALSE
    OBVIOUS
  <2>2. stage = "cancelled" /\ stage' = stage
    BY <1>1, <2>1, RunAwaits, NextIInv DEF StageInv, Placed, Terminal, KeepsEnd
  <2>3. kind' \notin {"create", "apply", "ban"}
    BY <2>2, NextIInv DEF IInv, WriteInv, WriteStages
  <2>4. FailureMoves
    BY <1>1, <1>2, <2>3, PreparationFlow, AuthorizationFlow, LoginFlow, SightingFlow, StartFlow
       DEF RunMoves
  <2>5. QED BY <2>1, <2>4, FailureFlow
<1>5. stage' \notin TerminalStages
  BY <1>1, <1>2, <1>4, RunSettles DEF Settled, Placed
<1>6. QED BY <1>1, <1>2, <1>3, <1>4, <1>5, NothingSent

(* A step that sends the request of a write.                               *)
LEMMA SendStep ==
  ASSUME IInv, WindowInv, StageInv, [Next]_vars, sent' # sent
  PROVE  /\ kind # "none" /\ kind' = kind /\ sent = 0 /\ sent' = 1 /\ stage' = stage
         /\ ~Terminal \/ (stage = "cancelled" /\ kind = "note")
<1>1. WriteMoves
  <2>1. RunMoves
    BY StepGroups DEF AsideMoves, Closed, TakeOver, ReleaseTakeover, UserClosesPage,
       CallbackCaptured, TwinAppears, LimboLands, Terminated, Cancel, Restart, writeVars, vars
  <2>2. QED BY <2>1, NothingSent
<1>2. /\ pc \in BeforeRequest /\ sent' = sent + 1 /\ stage' = stage
  <2>1. \A r : Send(r) => stage' = stage /\ sent' = sent + 1
    BY NoStage DEF Send, Advance, Arrive
  <2>2. QED BY <1>1, <2>1 DEF WriteMoves, WriteAdmitted, ApplyReplied, ApplyRead, ApplyConfirmed,
               CreateReplied, CreateRead, CreateLookedUp, BanRead, BanReplied, BanConfirmed,
               NoteLoaded, NoteReplied, NoteConfirmed, Waiting, At, writeVars, BeforeRequest
<1>3. sent = 0 /\ kind # "none" /\ kind' = kind
  BY <1>1, <1>2, WriteFlow DEF IInv, WriteInv
<1>4. Terminal => stage = "cancelled"
  BY <1>1, WriteFlow DEF StageInv, Placed, Terminal, WriteCalls, Requests, AfterRun
<1>5. kind \in WriteKinds
  BY <1>3 DEF IInv, TypeOK, TaskTypeOK
<1>6. stage = "cancelled" => kind = "note"
  BY <1>5 DEF IInv, WriteInv, WriteKinds, WriteStages
<1>7. QED BY <1>2, <1>3, <1>4, <1>6

(* A task ends in a way its write allows.                                  *)
LEMMA EndStep ==
  ASSUME IInv, WindowInv, StageInv, OutcomeInv, ResultInv, [Next]_vars,
         UNCHANGED <<kind, sent>>, ~Terminal, stage' \in TerminalStages
  PROVE  /\ stage' = "completed" => sent = 1
         /\ stage' = "already_exists" => kind = "none"
         /\ stage' = "cancelled" => kind \in {"none", "note"}
<1>1. stage' = "completed" => sent = 1
  BY ResultStep DEF ResultInv
<1>2. stage' = "cancelled" => kind \in {"none", "note"}
  BY NextIInv DEF IInv, TypeOK, TaskTypeOK, WriteInv, WriteKinds, WriteStages
<1>3. ASSUME stage' = "already_exists", kind # "none"
      PROVE  FALSE
  <2>1. RunMoves /\ code' # "illegal"
    <3>1. stage' # stage
      BY DEF Terminal
    <3>2. RunMoves
      BY <1>3, <3>1, StepGroups DEF AsideMoves, Closed, TakeOver, ReleaseTakeover, UserClosesPage,
         CallbackCaptured, TwinAppears, LimboLands, Terminated, Cancel, Restart, taskVars, vars
    <3>3. QED BY <3>2, StageStep DEF StageInv
  <2>2. pc \in WriteCalls
    BY <1>3, <2>1, RunAwaits DEF IInv, WriteInv
  <2>3. WriteMoves \/ FailureMoves
    BY <2>1, <2>2, PreparationFlow, AuthorizationFlow, LoginFlow, SightingFlow, StartFlow
       DEF RunMoves, PrepAwaits, LoginAwaits, PageCalls, PageActions, WriteCalls, Requests
  <2>4. /\ \A n, s : Advance(<<s>>, n) => stage' = s
        /\ \A n : Advance(<< >>, n) => stage' = stage
        /\ \A n, s, t : Advance(<<s, t>>, n) => stage' = t
    BY <2>1, AdvanceHolds DEF EndOf
  <2>5. \A c : Throw(c) \/ Fail(c) => FALSE
    BY <1>3, ErrorFails DEF Terminal, TerminalStages
  <2>6. stage # "already_exists"
    BY DEF Terminal, TerminalStages
  <2>7. CASE WriteMoves
    BY <1>3, <2>4, <2>5, <2>6, <2>7 DEF WriteMoves, WriteAdmitted, Send, ApplyReplied, ApplyRead,
       ApplyConfirmed, CreateReplied, CreateUncertain, CreateRead, CreateLookedUp, BanRead,
       BanReplied, BanConfirmed, NoteLoaded, NoteReplied, NoteConfirmed, Finish
  <2>8. CASE FailureMoves
    BY <2>5, <2>8 DEF FailureMoves, CallFails, AbortSeen
  <2>9. QED BY <2>3, <2>7, <2>8
<1>4. QED BY <1>1, <1>2, <1>3

(* Every step of a run is one step of the promise or invisible in it.      *)
LEMMA PromiseStep ==
  ASSUME IInv, WindowInv, StageInv, OutcomeInv, ResultInv, [Next]_vars
  PROVE  [Lifecycle!LifecycleNext]_(Lifecycle!lifecycleVars)
<1>0. /\ stage \in TaskStages /\ stage' \in TaskStages
      /\ Terminal => stage' = stage
      /\ sent \in Nat
  BY NextIInv DEF IInv, TypeOK, TaskTypeOK, RunTypeOK, KeepsEnd
<1>a. /\ \A s : s \notin TerminalStages <=> StatusOf(s) = "active"
      /\ StatusOf("failed") = "failed" /\ StatusOf("cancelled") = "cancelled"
      /\ StatusOf("interrupted") = "interrupted" /\ StatusOf("completed") = "succeeded"
      /\ StatusOf("already_exists") = "succeeded"
  BY DEF StatusOf, TerminalStages
<1>1. CASE kind' # kind
  <2>1. /\ StatusOf(stage) = "active" /\ StatusOf(stage') = "active"
        /\ kind = "none" /\ kind' \in WriteKinds /\ sent' = sent
    BY <1>1, <1>a, AdmitStep DEF Terminal
  <2>2. Lifecycle!Admit
    BY <2>1 DEF Lifecycle!Admit, WriteKinds
  <2>3. QED BY <2>2 DEF Lifecycle!LifecycleNext
<1>2. CASE kind' = kind /\ sent' # sent
  <2>1. Lifecycle!SendWrite
    BY <1>2, <1>a, SendStep DEF Lifecycle!SendWrite, Terminal
  <2>2. QED BY <2>1 DEF Lifecycle!LifecycleNext
<1>3. CASE UNCHANGED <<kind, sent>> /\ ~Terminal /\ stage' \in TerminalStages
  <2>1. /\ stage' = "completed" => sent = 1
        /\ stage' = "already_exists" => kind = "none"
        /\ stage' = "cancelled" => kind \in {"none", "note"}
    BY <1>3, EndStep
  <2>2. StatusOf(stage) = "active"
    BY <1>3, <1>a DEF Terminal
  <2>3. CASE stage' \in {"completed", "already_exists"}
    BY <1>3, <1>a, <2>1, <2>2, <2>3 DEF Lifecycle!LifecycleNext, Lifecycle!Succeed
  <2>4. CASE stage' = "failed"
    BY <1>3, <1>a, <2>2, <2>4 DEF Lifecycle!LifecycleNext, Lifecycle!FailTask
  <2>5. CASE stage' = "cancelled"
    BY <1>3, <1>a, <2>1, <2>2, <2>5
       DEF Lifecycle!LifecycleNext, Lifecycle!CancelTask, WriteKinds
  <2>6. CASE stage' = "interrupted"
    BY <1>3, <1>a, <2>2, <2>6 DEF Lifecycle!LifecycleNext, Lifecycle!InterruptTask
  <2>7. QED BY <1>3, <2>3, <2>4, <2>5, <2>6 DEF TerminalStages
<1>4. CASE UNCHANGED <<kind, sent>> /\ (Terminal \/ stage' \notin TerminalStages)
  <2>1. StatusOf(stage') = StatusOf(stage)
    BY <1>0, <1>4, <1>a DEF Terminal
  <2>2. QED BY <1>4, <2>1 DEF Lifecycle!lifecycleVars
<1>5. QED BY <1>1, <1>2, <1>3, <1>4

(* A run keeps the promise a task makes to those who start, follow and     *)
(* cancel it: one write, chosen once and sent once, an end that is never   *)
(* taken back, and no success of a write that was not sent.                *)
THEOREM PromiseKept == Spec => KeepsItsPromise
<1>1. Init => Lifecycle!LifecycleInit
  BY DEF Init, Lifecycle!LifecycleInit, StatusOf
<1>2. Init => WindowInv /\ StageInv /\ OutcomeInv /\ ResultInv
  BY DEF Init, WindowInv, StageInv, OutcomeInv, ResultInv, SuccessIsReal, FailureIsHonest,
     AfterRun, Placed, StageAt, AdmittedAt, TerminalStages, Requests
<1>3. QED BY Invariant, WindowStep, StageStep, OutcomeStep, ResultStep, PromiseStep, <1>1, <1>2, PTL
          DEF Spec, KeepsItsPromise, Lifecycle!LifecycleSpec
=============================================================================
