---------------------------- MODULE PageClasses ----------------------------
(***************************************************************************)
(* What the browser controller makes of a page: classifyPageHtml of the    *)
(* page classifier, the verdict on a submitted form and the pages a        *)
(* takeover may end on.  A screen is what the classifier looks for: the    *)
(* phrases of the visible text, the inputs and the exact buttons.          *)
(***************************************************************************)
EXTENDS Naturals

Fatal == {"account_deactivated", "phone_verification", "provider_error", "credentials"}
(* A password page that offers a one-time code is "password_choice";       *)
(* "blocked" stands for the known reasons of a takeover, "unknown" for     *)
(* everything else.                                                        *)
Pages == Fatal \union {"email", "password", "password_choice", "email_otp",
                       "authenticator_totp", "consent", "blocked", "unknown"}
Passwords == {"password", "password_choice"}

Blank == [text |-> {}, passwords |-> 0, codes |-> 0, email |-> FALSE, phone |-> FALSE,
          addPhone |-> FALSE, buttons |-> {"continue"}]

(* The order of the tests is the classifier's: an address counts only      *)
(* where it is given, and an error on a form can be forgiven.              *)
Classify(s, url, allow) ==
  IF "deactivated" \in s.text THEN "account_deactivated"
  ELSE IF url /\ s.addPhone /\ s.phone /\ "phone" \in s.text /\ "continue" \in s.buttons
    THEN "phone_verification"
  ELSE IF "provider_error" \in s.text THEN "provider_error"
  ELSE IF "choose_account" \in s.text THEN "blocked"
  ELSE IF "credentials" \in s.text /\ ~allow THEN "credentials"
  ELSE IF "challenge" \in s.text THEN "blocked"
  ELSE IF s.passwords > 0
    THEN IF s.passwords > 1 \/ "continue" \notin s.buttons THEN "blocked"
         ELSE IF "one_time_code" \in s.buttons THEN "password_choice" ELSE "password"
  ELSE IF s.codes > 1 THEN "blocked"
  ELSE IF s.codes = 1
    THEN IF {"email_code", "authenticator"} \subseteq s.text THEN "blocked"
         ELSE IF "email_code" \in s.text THEN "email_otp"
         ELSE IF "authenticator" \in s.text THEN "authenticator_totp" ELSE "unknown"
  ELSE IF s.email THEN "email"
  ELSE IF s.text \intersect {"password", "authenticator", "mfa"} # {} THEN "blocked"
  ELSE IF "codex" \in s.text /\ "continue" \in s.buttons THEN "consent" ELSE "unknown"

(* A screen of every class. *)
Screen ==
  [p \in Pages |->
    CASE p = "account_deactivated" -> [Blank EXCEPT !.text = {"deactivated"}]
      [] p = "phone_verification" ->
           [Blank EXCEPT !.text = {"phone"}, !.phone = TRUE, !.addPhone = TRUE]
      [] p = "provider_error" -> [Blank EXCEPT !.text = {"provider_error"}]
      [] p = "credentials" -> [Blank EXCEPT !.text = {"credentials"}, !.passwords = 1]
      [] p = "password" -> [Blank EXCEPT !.passwords = 1]
      [] p = "password_choice" ->
           [Blank EXCEPT !.passwords = 1, !.buttons = {"continue", "one_time_code"}]
      [] p = "email_otp" -> [Blank EXCEPT !.text = {"email_code"}, !.codes = 1]
      [] p = "authenticator_totp" -> [Blank EXCEPT !.text = {"authenticator"}, !.codes = 1]
      [] p = "email" -> [Blank EXCEPT !.email = TRUE]
      [] p = "consent" -> [Blank EXCEPT !.text = {"codex"}]
      [] p = "blocked" -> [Blank EXCEPT !.text = {"challenge"}]
      [] p = "unknown" -> Blank]
SeenAs == [p \in Pages, url \in BOOLEAN, allow \in BOOLEAN |-> Classify(Screen[p], url, allow)]
ASSUME NamesAssumption == \A p \in Pages : SeenAs[p, TRUE, FALSE] = p

(* classifySubmissionTransition: what a page says of the submission of the *)
(* expected form, once the fatal pages are rejected.                       *)
Transition(expected, preferred, k) ==
  CASE k = expected \/ (k \in Passwords /\ expected = "password") -> "same"
    [] k \in Passwords /\ expected = "email" /\ preferred = "password" -> "submitted"
    [] k = "password_choice" /\ expected = "email" /\ preferred # "password" -> "choice"
    [] k = "email_otp" /\ expected = "email" -> "submitted"
    [] k = "authenticator_totp"
         /\ (expected = "password" \/ (expected = "email" /\ preferred = "password")) -> "submitted"
    [] k = "consent" /\ expected # "consent" -> "submitted"
    [] k = "unknown" \/ (k = "email" /\ expected # "email") -> "unknown"
    [] OTHER -> "manual"

(* shouldResumeAfterManualProgress: the pages that go with the materials.  *)
Supported(k, preferred) ==
  \/ k \in {"email", "consent"}
  \/ preferred = "email_otp" /\ k \in {"email_otp", "password_choice"}
  \/ preferred = "password" /\ k \in Passwords \union {"authenticator_totp"}
SamePage(k, blocked) == k = blocked \/ (k \in Passwords /\ blocked = "password")
=============================================================================
