----------------------------- MODULE TaskStages -----------------------------
(***************************************************************************)
(* The stages of a task and the transitions between them: the tables of    *)
(* shared/task-state.ts and tasks/state-machine.ts.  There is no state     *)
(* here; TaskRun keeps the stage of the running task and moves it along    *)
(* this relation.  A stage keeps the name it has in the source.            *)
(***************************************************************************)
EXTENDS Sequences, Naturals

TerminalStages ==
  {"completed", "already_exists", "failed", "cancelled", "interrupted"}

(* Stages in which a write to the backend may be under way or done. *)
WriteStages ==
  {"marking_account_banned", "confirming_account_banned",
   "applying_oauth_credentials", "confirming_reauthorization",
   "reauthorization_result_uncertain", "creating_account",
   "confirming_account", "create_result_uncertain"}

NonCancellableStages == WriteStages \union TerminalStages

(* The stages in which an OpenAI page is open and may report that the      *)
(* account is deactivated.                                                 *)
AuthorizationStages ==
  {"authorization_url_opened", "email_submitted", "waiting_for_password",
   "password_submitted", "waiting_for_totp", "totp_submitted",
   "waiting_for_otp", "resending_otp", "waiting_for_otp_retry",
   "resending_otp_second", "waiting_for_otp_third", "otp_submitted",
   "waiting_for_consent", "waiting_for_callback", "manual_intervention",
   "account_deactivated_retrying"}

TaskStages ==
  {"draft", "validating", "loading_target_account", "loading_options",
   "checking_existing", "mail_baseline", "resolving_proxy",
   "generating_auth_url", "authorization_url_received", "browser_started",
   "consent_submitted", "account_deactivated_confirmed",
   "locating_deactivated_account", "exchanging_code", "checking_duplicate"}
  \union AuthorizationStages \union NonCancellableStages

(* TRANSITIONS of the source, the rows grouped by the part of a task they  *)
(* belong to: one cross product per row or group of equal rows.            *)
PreparationTransitions == UNION {
  {"draft"} \X {"validating"},
  {"validating"} \X {"loading_target_account", "loading_options"},
  {"loading_target_account"} \X {"loading_options"},
  {"loading_options"} \X {"checking_existing", "mail_baseline", "resolving_proxy"},
  {"checking_existing"} \X {"mail_baseline", "resolving_proxy", "already_exists"},
  {"mail_baseline"} \X {"resolving_proxy"},
  {"resolving_proxy"} \X {"generating_auth_url"},
  {"generating_auth_url"} \X {"authorization_url_received"},
  {"authorization_url_received"} \X {"browser_started", "resolving_proxy"},
  {"browser_started"} \X {"authorization_url_opened", "resolving_proxy"}}

LoginTransitions == UNION {
  {"authorization_url_opened"} \X {"email_submitted", "manual_intervention"},
  {"email_submitted"} \X {"waiting_for_otp", "waiting_for_password"},
  {"waiting_for_password"} \X {"password_submitted", "manual_intervention"},
  {"password_submitted"} \X {"waiting_for_totp", "waiting_for_consent",
                             "waiting_for_callback", "manual_intervention"},
  {"waiting_for_totp"} \X {"totp_submitted", "manual_intervention"},
  {"totp_submitted"} \X {"waiting_for_consent", "manual_intervention"},
  {"waiting_for_otp"} \X {"otp_submitted", "resending_otp", "manual_intervention"},
  {"resending_otp"} \X {"waiting_for_otp_retry", "otp_submitted",
                        "waiting_for_callback", "manual_intervention"},
  {"waiting_for_otp_retry"} \X {"otp_submitted", "resending_otp_second",
                                "manual_intervention"},
  {"resending_otp_second"} \X {"waiting_for_otp_third", "otp_submitted",
                               "waiting_for_callback", "manual_intervention"},
  {"waiting_for_otp_third"} \X {"otp_submitted", "manual_intervention"},
  {"otp_submitted"} \X {"waiting_for_consent"},
  {"waiting_for_consent"} \X {"consent_submitted", "manual_intervention"},
  {"consent_submitted"} \X {"waiting_for_callback"},
  {"manual_intervention"} \X {"authorization_url_opened", "waiting_for_consent",
                              "waiting_for_callback"},
  {"waiting_for_callback"} \X {"exchanging_code"}}

OutcomeTransitions == UNION {
  {"account_deactivated_retrying"} \X {"generating_auth_url"},
  {"account_deactivated_confirmed"} \X {"locating_deactivated_account"},
  {"locating_deactivated_account"} \X {"marking_account_banned"},
  {"marking_account_banned"} \X {"confirming_account_banned"},
  {"exchanging_code"} \X {"checking_duplicate", "applying_oauth_credentials"},
  {"applying_oauth_credentials"} \X {"confirming_reauthorization",
                                     "reauthorization_result_uncertain"},
  {"confirming_reauthorization", "reauthorization_result_uncertain"} \X {"completed"},
  {"checking_duplicate"} \X {"creating_account", "already_exists"},
  {"creating_account"} \X {"confirming_account", "create_result_uncertain"},
  {"confirming_account"} \X {"completed", "create_result_uncertain"},
  {"create_result_uncertain"} \X {"completed"}}

TransitionTable ==
  PreparationTransitions \union LoginTransitions \union OutcomeTransitions

(* TaskStateMachine.transition accepts the move; otherwise it throws       *)
(* TASK_STATE_INVALID.                                                     *)
CanTransition(from, to) ==
  /\ from \notin TerminalStages
  /\ \/ to \in {"failed", "cancelled"}
     \/ /\ from \in AuthorizationStages
        /\ to \in {"account_deactivated_retrying", "account_deactivated_confirmed"}
     \/ <<from, to>> \in TransitionTable

(* The transitions one piece of synchronous code makes, one after another. *)
CanFollow(from, path) ==
  /\ path # << >> => CanTransition(from, path[1])
  /\ \A i \in 1 .. Len(path) - 1 : CanTransition(path[i], path[i + 1])

(* The stage after them. *)
EndOf(from, path) == IF path = << >> THEN from ELSE path[Len(path)]

(* Mutant: every task that has not ended can be cancelled. *)
CanCancelActive(stage) == stage \notin TerminalStages

CanCancel(stage) == stage \notin NonCancellableStages
=============================================================================
