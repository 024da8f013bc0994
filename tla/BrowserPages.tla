---------------------------- MODULE BrowserPages ----------------------------
(***************************************************************************)
(* The page actions of PlaywrightOAuthSession, on a page that the provider *)
(* and the person change at any moment.  Every await is a step: a page is  *)
(* read, typed into, clicked and read again, and may be another one each   *)
(* time.  A page is named after what classifyPageHtml makes of it.         *)
(***************************************************************************)
EXTENDS BrowserChrome, PageClasses

CONSTANTS
  ReconcileReads,   \* AUTOMATION_RECONCILIATION_ATTEMPTS
  ResendAttempts,   \* OTP_RESEND_ATTEMPTS
  MaxTabs,          \* bound on the tabs that are open at once
  ShownPages        \* the pages the provider may show, "unknown" among them
ASSUME BoundsAssumption == {ReconcileReads, ResendAttempts, MaxTabs} \subseteq Nat \ {0}

VARIABLES
  page,     \* what the newest open tab shows
  tabs,     \* how many tabs are open
  call,     \* the page action that runs
  resends   \* #otpResendAttempts
vars == <<chromeVars, page, tabs, call, resends>>

FORM_SUBMISSION_ATTEMPTS == 2
CONSENT_SUBMISSION_ATTEMPTS == 3

ASSUME ShownAssumption == ShownPages \subseteq Pages /\ "unknown" \in ShownPages

Fills == {"email_for_otp", "email_for_password", "password", "code", "totp"}
Ops == Fills \union {"consent", "resend", "classify", "takeover", "callback"}
PreferredLogin(op) == IF op \in {"email_for_password", "password", "totp"}
                        THEN "password" ELSE "email_otp"
Expected(op) ==
  CASE op \in {"email_for_otp", "email_for_password"} -> "email"
    [] op = "password" -> "password"
    [] op = "totp" -> "authenticator_totp"
    [] op = "consent" -> "consent"
    [] OTHER -> "email_otp"
Attempts(op) == IF op = "password" THEN 1 ELSE FORM_SUBMISSION_ATTEMPTS

NoCall == [pc |-> "idle", op |-> "none", result |-> "none"]
CallOf(o) ==
  [op |-> o,
   pc |-> IF o = "resend" THEN "budget" ELSE IF o \in {"classify", "callback"} THEN o
          ELSE "look",
   n |-> 0,            \* attempts made, or the phase of a resend or a wait
   reads |-> 0,        \* reads of a reconciliation
   candidate |-> "none",
   clicks |-> 0,       \* choices of the one-time code, or clicks of consent
   clicked |-> FALSE,  \* this attempt has submitted
   result |-> "none"]
TakeoverOf(b, p, need) ==
  [op |-> "takeover", pc |-> "takeover", blocked |-> b, preferred |-> p, need |-> need,
   moved |-> FALSE,    \* another page, another address or a navigation
   activity |-> FALSE, \* the page's counter of trusted clicks and submits
   quiet |-> TRUE,     \* nobody has done anything, of the model
   result |-> "none"]

settled == callback # "pending"
closed == tabs = 0
(* Also when only the connection is cut. *)
NoPageLeft == page' = "unknown" /\ tabs' = 0 /\ UNCHANGED <<call, resends>>
At(pc) == start = "open" /\ call.pc = pc
Go(pc) == call' = [call EXCEPT !.pc = pc]
Return(r) == call' = [pc |-> "idle", op |-> call.op, result |-> r]
Throw(k) == Return(k)
only == UNCHANGED <<chromeVars, page, tabs, resends>>

PagesInit == ChromeInit /\ page = "unknown" /\ tabs = 1 /\ call = NoCall /\ resends = 0
-----------------------------------------------------------------------------
(* With the page's address or not, and forgiving an error on its form.     *)
Seen(url, allow) == SeenAs[page, url, allow]

Forgives == call.op = "password"
NextAttempt ==
  IF call.n + 1 < Attempts(call.op)
    THEN call' = [call EXCEPT !.pc = "look", !.n = @ + 1, !.candidate = "none", !.reads = 0,
                  !.clicks = 0, !.clicked = FALSE]
    ELSE Return("unknown")

ReadAgain == call.reads < ReconcileReads /\ call' = [call EXCEPT !.reads = @ + 1]

(* page.content may fail while a page is being replaced, and does once it  *)
(* is closed.                                                              *)
ReadFails(pc) == At(pc) /\ Go("recover") /\ only

(* classifyUntil the expected page, for 30 s.                              *)
Look ==
  /\ At("look") /\ only
  /\ LET k == Seen(TRUE, Forgives)
         matches == Transition(Expected(call.op), "email_otp", k) = "same"
     IN \/ settled /\ Return("submitted")
        \/ ~settled /\ ~closed /\ k \in Fatal /\ Throw(k)
        \/ ~settled /\ ~closed /\ matches /\ Go(IF call.op = "consent" THEN "click" ELSE "fill")
        \/ ~settled /\ ~closed /\ k = "blocked" /\ Return("manual")
        \/ ~settled /\ ~closed /\ ~matches /\ k \notin Fatal \union {"blocked", "unknown"}
           /\ IF call.op = "consent" THEN Return("unknown") ELSE Go("watch")
LookTimesOut ==
  /\ At("look") /\ ~settled /\ page = "unknown" /\ Return("unknown") /\ only

(* The form is looked up again when it is filled, and the time of the code *)
(* request is noted before it is submitted.                                *)
Fill ==
  /\ At("fill") /\ only
  /\ IF ~closed /\ Transition(Expected(call.op), "email_otp", Seen(TRUE, Forgives)) = "same"
       THEN Go("click") ELSE Go("recover")

(* By the button at first, by the Enter key the second time; consent also  *)
(* waits when its button could not be clicked.                             *)
Click ==
  /\ At("click") /\ ~closed /\ only
  /\ call' = [call EXCEPT !.pc = "watch", !.clicked = TRUE,
              !.clicks = IF call.op = "consent" THEN @ + 1 ELSE @]
ClickFails ==
  /\ At("click") /\ only
  /\ CASE call.op # "consent" ->
            \E tried \in BOOLEAN : call' = [call EXCEPT !.pc = "recover", !.clicked = tried]
       [] settled -> Return("submitted")
       [] closed -> Throw("closed")
       [] OTHER -> call' = [call EXCEPT !.pc = "watch", !.clicks = @ + 1]

(* waitForSubmissionTransition: an outcome counts when it is read twice.   *)
Watch ==
  /\ At("watch") /\ only
  /\ IF settled THEN Return("submitted")
     ELSE IF closed THEN Throw("closed")
     ELSE LET k == Seen(TRUE, Forgives)
              t == Transition(Expected(call.op), PreferredLogin(call.op), k)
          IN \E choose \in {FALSE, t = "choice" /\ call.clicks < FORM_SUBMISSION_ATTEMPTS} :
             CASE k \in Fatal -> Throw(k)
               [] k \notin Fatal /\ t \in {"same", "choice"} ->
                    call' = [call EXCEPT !.candidate = "none",
                             !.pc = IF choose THEN "choose" ELSE @]
               [] k \notin Fatal /\ t = call.candidate /\ t # "unknown" -> Return(t)
               [] OTHER -> call' = [call EXCEPT !.candidate = t]
(* As WatchTimesOut would be without a deadline of its own. *)
WatchUntilKnown ==
  /\ At("watch") /\ only
  /\ call.candidate # "none" /\ Return(call.candidate)

WatchTimesOut ==
  /\ At("watch") /\ only
  /\ CASE call.candidate # "none" -> Return(call.candidate)
       [] call.candidate = "none" /\ call.clicks > 0 /\ call.op # "consent" -> Return("manual")
       [] OTHER -> Go("after")

(* switchToOneTimeCodeLogin has found the control and noted the time.      *)
Choose ==
  /\ At("choose") /\ ~closed /\ only
  /\ call' = [call EXCEPT !.pc = "watch", !.clicks = @ + 1]

(* Nothing came of the submission: a password may have been refused on its *)
(* own form, a code of the authenticator may wait for the next one, and    *)
(* the consent page, which must still be itself, is clicked again.         *)
AfterFill ==
  /\ At("after") /\ call.op \notin {"consent", "totp"} /\ ~closed /\ only
  /\ IF call.op = "password" /\ call.clicked /\ page = "credentials" THEN Return("manual")
     ELSE NextAttempt
AfterTotp ==
  /\ At("after") /\ call.op = "totp" /\ ~closed /\ only
  /\ IF ~call.clicked THEN NextAttempt
     ELSE IF page \in Fatal THEN Throw(page)
     ELSE NextAttempt \/ (page = "authenticator_totp" /\ Return("still_active"))
AfterConsent ==
  /\ At("after") /\ call.op = "consent" /\ ~closed /\ only
  /\ LET k == Seen(FALSE, FALSE)
         t == Transition("consent", "email_otp", k)
     IN IF settled THEN Return("submitted")
        ELSE IF k \in Fatal THEN Throw(k)
        ELSE IF t # "same" THEN Return(t)
        ELSE IF call.clicks < CONSENT_SUBMISSION_ATTEMPTS THEN Go("click")
        ELSE Return("unknown")

(* reconcileKnownPageAutomationFailure: the page is read again, without    *)
(* its address, until it is known.                                         *)
Recover ==
  /\ At("recover") /\ only
  /\ LET k == Seen(FALSE, FALSE)
         t == Transition(Expected(call.op), PreferredLogin(call.op), k)
     IN CASE settled -> Return("submitted")
          [] ~settled /\ closed -> Throw("closed")
          [] ~settled /\ ~closed /\ call.reads = ReconcileReads -> Return("unknown")
          [] OTHER ->
               IF k \in Fatal THEN Throw(k)
               ELSE IF t = "unknown" THEN ReadAgain
               ELSE IF t \notin {"same", "choice"} THEN Return(t)
               ELSE IF call.op = "totp" /\ call.clicked THEN Return("still_active")
               ELSE NextAttempt
-----------------------------------------------------------------------------
(* resendOtp counts an attempt before it looks at the page.                *)
ResendBudget ==
  /\ At("budget") /\ UNCHANGED <<chromeVars, page, tabs>>
  /\ IF resends >= ResendAttempts
       THEN Return("unknown") /\ UNCHANGED resends
       ELSE resends' = resends + 1 /\ Go("resend")

(* resendOtpOnce: n = 0 before the click, 1 when there was nothing to      *)
(* click, 2 after a failure that the page has got over.                    *)
ResendLooks ==
  /\ At("resend") /\ only
  /\ IF settled THEN Return("callback")
     ELSE /\ ~closed
          /\ CASE page \in Fatal -> Throw(page)
               [] page = "consent" -> Return("consent_ready")
               [] page = "blocked" -> Return("manual")
               [] page = "email_otp" ->
                    IF call.n = 0 THEN Go("resend_click")
                    ELSE Return("continue_polling")
               [] OTHER -> UNCHANGED call
ResendTimesOut ==
  /\ At("resend") /\ ~settled /\ page \notin Fatal \union {"consent", "blocked", "email_otp"}
  /\ Return("unknown") /\ only
ResendClicks ==
  /\ At("resend_click") /\ only
  /\ \/ settled /\ (Return("callback") \/ Return("submitted"))
     \/ ~settled /\ ~closed /\ page = "email_otp" /\ Return("submitted")
     \/ ~settled /\ ~closed /\ call' = [call EXCEPT !.pc = "resend", !.n = 1]
     \/ ~settled /\ closed /\ Throw("closed")
ResendReadFails ==
  /\ (At("resend") \/ At("resend_click")) /\ ~settled /\ only
  /\ IF call.n = 2 THEN Throw("raw") ELSE Go("resend_recover")
ResendRecovers ==
  /\ At("resend_recover") /\ only
  /\ LET k == Seen(FALSE, FALSE)
         t == Transition("email_otp", "email_otp", k)
     IN CASE settled -> Return("callback")
          [] ~settled /\ closed -> Throw("closed")
          [] ~settled /\ ~closed /\ call.reads = ReconcileReads -> Return("unknown")
          [] OTHER ->
               IF k \in Fatal THEN Throw(k)
               ELSE IF t = "unknown" THEN ReadAgain
               ELSE IF t = "same" THEN Return("continue_polling")
               ELSE IF t = "submitted" THEN call' = [call EXCEPT !.pc = "resend", !.n = 2]
               ELSE Return("manual")

(* classifyCurrentPage, for 8 s. *)
ClassifyCurrentPage ==
  /\ At("classify") /\ only
  /\ IF settled THEN Return("callback")
     ELSE IF closed THEN Throw("closed")
     ELSE IF page \in Fatal THEN Throw(page)
     ELSE page # "unknown" /\ Return(page)
ClassifyTimesOut == At("classify") /\ page = "unknown" /\ Return("unknown") /\ only
-----------------------------------------------------------------------------
(* As Resumes would be if it trusted the page's own counter. *)
ResumesOnClicks(k) ==
  /\ Supported(k, call.preferred)
  /\ (SamePage(k, call.blocked) /\ call.need) => call.activity
(* shouldResumeAfterManualProgress. *)
Resumes(k) ==
  /\ Supported(k, call.preferred)
  /\ (SamePage(k, call.blocked) /\ call.need) => (call.moved \/ call.activity)

(* waitForManualProgress reads the page twice a second. *)
ManualPoll ==
  /\ At("takeover") /\ only
  /\ IF aborted THEN Throw("cancelled")
     ELSE IF settled THEN Return("callback")
     ELSE IF closed THEN Throw("closed")
     ELSE IF page \in Fatal THEN Throw(page)
     ELSE Resumes(page)
          /\ call' = [pc |-> "idle", op |-> "takeover", result |-> page, quiet |-> call.quiet,
                      blocked |-> call.blocked, need |-> call.need]

(* monitorDeactivation reads the page (n = 0) and pauses on it (n = 1) in  *)
(* turns.  When the page it pauses on is closed (n = 2, or no page left)   *)
(* the pause rejects, and the task fails.  A page closed before the wait   *)
(* or while it is read ends the monitor without a word.                    *)
PauseRejects == call.n = 2 \/ (call.n = 1 /\ closed)
MonitorDeactivation ==
  /\ ~settled /\ ~aborted
  /\ \/ PauseRejects /\ Throw("raw")
     \/ call.n = 1 /\ ~closed /\ call' = [call EXCEPT !.n = 0]
     \/ call.n = 0 /\ ~closed /\ page = "account_deactivated" /\ Throw(page)
     \/ call.n = 0 /\ ~closed /\ page # "account_deactivated" /\ call' = [call EXCEPT !.n = 1]

(* waitForCallback: the callback, the monitor and the signal race.         *)
WaitForCallback ==
  /\ At("callback") /\ only
  /\ \/ callback = "accepted" /\ Return("callback")
     \/ callback \in {"refused", "closed"} /\ Throw(callback)
     \/ aborted /\ Throw("cancelled")
     \/ MonitorDeactivation
WaitReadFails == At("callback") /\ call.n = 0 /\ ~closed /\ call' = [call EXCEPT !.n = 1] /\ only
-----------------------------------------------------------------------------
(* CallbackCapture.accept of a navigation to the redirect address: one     *)
(* code and this attempt's state, or it is refused.  Other addresses are   *)
(* ignored, and so is everything after the first that was not.             *)
Accept(code, state) == IF code = "one" /\ state = "expected" THEN "accepted" ELSE "refused"
InspectNavigation(code, state) ==
  /\ start \in {"navigating", "open"} /\ closing = "no" /\ ~closed
  /\ callback' = IF settled THEN callback ELSE Accept(code, state)
  /\ page' = "unknown"
  /\ call' = IF call.pc = "takeover"
               THEN [call EXCEPT !.moved = TRUE, !.activity = FALSE, !.quiet = FALSE] ELSE call
  /\ UNCHANGED <<startVars, processVars, aborted, closing, tabs, resends>>

(* The provider and the person: a page replaced in place, a navigation,    *)
(* a click, a tab opened, which is followed, or closed.  Nothing more      *)
(* depends on the page once the session is being closed.                   *)
changes == start = "open" /\ closing = "no" /\ ~closed /\ UNCHANGED <<chromeVars, resends>>
PageChanges ==
  /\ changes /\ page' \in ShownPages /\ UNCHANGED <<tabs, call>>
Navigates(t) ==
  /\ changes /\ t \in 0 .. MaxTabs /\ tabs' = t
  /\ page' \in IF t = 0 THEN {"unknown"} ELSE ShownPages
  /\ \/ call' = IF call.pc = "takeover"
                  THEN [call EXCEPT !.moved = TRUE, !.activity = FALSE, !.quiet = FALSE] ELSE call
     \/ t < tabs /\ call.pc = "callback" /\ call.n = 1 /\ call' = [call EXCEPT !.n = 2]
PersonClicks ==
  /\ changes /\ call.pc = "takeover"
  /\ call' = [call EXCEPT !.activity = TRUE, !.quiet = FALSE] /\ UNCHANGED <<page, tabs>>

BeginCall(c) ==
  /\ start = "open" /\ closing = "no" /\ call.pc = "idle" /\ ~aborted
  /\ call' = c /\ only
-----------------------------------------------------------------------------
Submit ==
  Look \/ Fill \/ Click \/ Watch \/ Choose \/ AfterFill \/ AfterTotp \/ AfterConsent \/ Recover
Resend == ResendBudget \/ ResendLooks \/ ResendClicks \/ ResendRecovers
Deadline == LookTimesOut \/ WatchTimesOut \/ ResendTimesOut \/ ClassifyTimesOut
RecoverReadFails == (At("recover") \/ At("resend_recover")) /\ ReadAgain /\ only
Trouble == RecoverReadFails \/ ReadFails("look") \/ ReadFails("watch") \/ ReadFails("after") \/ ReadFails("choose")
           \/ ReadFails("fill") \/ ClickFails \/ ResendReadFails \/ WaitReadFails
Person == PageChanges \/ (\E t \in {tabs - 1, tabs, tabs + 1} : Navigates(t)) \/ PersonClicks
          \/ \E c \in {"one", "none"}, s \in {"expected", "other"} : InspectNavigation(c, s)
BeginAny ==
  \/ \E o \in Ops \ {"takeover"} : BeginCall(CallOf(o))
  \/ \E p \in {"email_otp", "password"}, need \in BOOLEAN :
       \E b \in IF p = "email_otp" THEN {"email", "email_otp", "consent"}
                ELSE {"email", "password", "authenticator_totp", "consent"} :
         BeginCall(TakeoverOf(b, p, need))

Next ==
  \/ (Start \/ Kill \/ RemoveProfile \/ CloseSession \/ ChromeComesUp \/ Abort)
       /\ UNCHANGED <<page, tabs, call, resends>>
  \/ (Terminate \/ ChromeQuits) /\ NoPageLeft
  \/ BeginAny \/ Submit \/ Resend \/ ClassifyCurrentPage \/ ManualPoll \/ WaitForCallback
  \/ Deadline \/ Trouble \/ Person
Spec == PagesInit /\ [][Next]_vars

(* Every wait of a page action has a deadline, and an operation on a page  *)
(* that is gone fails at once.                                             *)
Fairness ==
  /\ WF_vars(Submit \/ Resend \/ Deadline \/ ClassifyCurrentPage \/ (closed /\ Trouble))
  /\ WF_vars(WatchTimesOut) /\ WF_vars(ManualPoll) /\ WF_vars(WaitForCallback)
  /\ WF_vars(Terminate /\ NoPageLeft)
  /\ WF_vars((Kill \/ RemoveProfile) /\ UNCHANGED <<page, tabs, call, resends>>)
FairSpec == Spec /\ Fairness
-----------------------------------------------------------------------------
(* Whatever the provider and the person do to the page, every page action  *)
(* comes to an end; a takeover and the wait for the callback end when the  *)
(* session is closed.                                                      *)
CallsReturn ==
  call.pc \notin {"idle", "takeover", "callback"}
  \/ (call.pc \in {"takeover", "callback"} /\ closing # "no") ~> call.pc = "idle"

(* DOC.md: a takeover goes on by itself once the person has clicked,       *)
(* submitted or navigated and a supported page stays; a reload, which      *)
(* loses the page's own count of the clicks, does not hide what was done.  *)
ProgressIsNoticed ==
  []<>~(call.pc = "takeover" /\ ~call.quiet /\ Supported(page, call.preferred))
-----------------------------------------------------------------------------
(* What a document of the repository says and the code does not do.        *)

(* TECHNICAL_DESIGN.md:1730: the task ends when the user closes the        *)
(* browser.  The wait for the callback ends when the page is closed in a   *)
(* pause of the monitor, and never when it is closed while it is read.     *)
ClosedPageEndsWait == call.pc = "callback" /\ closed ~> call.pc = "idle"
=============================================================================
