---------------------------- MODULE MailPolling ----------------------------
(***************************************************************************)
(* How a task waits for its login code (mail/poller.ts and the e-mail      *)
(* rounds of orchestrator.ts): the baseline, the polls of a round, the     *)
(* resends between rounds, and another authorization attempt of the same   *)
(* task.  Time is counted in ticks; mails arrive whenever they like.       *)
(***************************************************************************)
EXTENDS Integers, MailOtp, MailSources

CONSTANTS
  UsedSites,          \* the services of this instance
  Contents,           \* the sets of codes a mail can carry
  MaxMails,           \* bound on the mails of a mailbox
  Lag,                \* how late a mail may arrive, in ticks
  Start,              \* the tick at which the task starts
  IdleUntil,          \* bound on the time that passes between two rounds
  RoundTicks,         \* maxWaitMs: the length of a round
  RoundLimit,         \* EMAIL_OTP_ROUND_LIMIT
  AttemptLimit,       \* authorization attempts of the task
  BaselineAttempts    \* BASELINE_ATTEMPTS

ASSUME SitesAssumption == UsedSites \subseteq DOMAIN listMessages
ASSUME BoundsAssumption ==
  {MaxMails, Lag, Start, IdleUntil, RoundTicks, RoundLimit, AttemptLimit, BaselineAttempts}
    \subseteq Nat

VARIABLES
  box,                \* the mailbox the task was given
  mails,              \* the mails in it, in the order they arrived
  now,
  stage,              \* where the task is
  tries, attempt, round,
  deadline,
  baseline,           \* with the codes handed out so far
  requestedAt,        \* otpRequestedAt
  resentAt,           \* latestResendRequestedAt, empty before the first
  ordered, again,     \* previousOrderedCandidate, previousResendCandidate
  orderLost,          \* orderingFallbackInvalid
  before,             \* the mails that stood there at the baseline
  entered             \* the codes handed out, and the mails they came from

mailboxVars == <<box, mails>>
roundVars == <<ordered, again, orderLost>>
requestVars == <<requestedAt, resentAt>>
vars == <<box, mails, now, stage, tries, attempt, round, deadline, baseline, requestedAt,
          resentAt, ordered, again, orderLost, before, entered>>

(* The mails a listing shows, the head of an ordered one the newest.       *)
Listing(check) ==
  LET shown == IF box.single /\ mails # <<>> THEN <<Len(mails)>>
               ELSE [i \in 1 .. Len(mails) |-> IF box.oldestFirst THEN i ELSE Len(mails) + 1 - i]
      texts == [i \in DOMAIN shown |-> mails[shown[i]]]
  IN IF box.ids = "whole" /\ mails # <<>>
     THEN <<Message(box, 1, check, {shown[i] : i \in DOMAIN shown}, texts)>>
     ELSE [i \in DOMAIN shown |-> Message(box, i, check, {shown[i]}, <<texts[i]>>)]
(* When the service looked: now, or up to Lag before.                      *)
Checks == IF box.ids = "check" THEN (now - Lag) .. now ELSE {now}
Answered(kind) == kind \in box.answers
Listings ==
  (IF Answered("mails") THEN {Listing(check) : check \in Checks} ELSE {})
    \cup (IF Answered("none") THEN {<<>>} ELSE {})

(* A service without times keeps none. *)
Stamps(times) == IF box.times THEN {{t} : t \in times} ELSE {{}}

Init ==
  /\ box \in GivenMailboxes(UsedSites)
  /\ mails \in UNION {[1 .. n -> [codes : Contents, at : Stamps((Start - Lag) .. Start)]] : n \in 0 .. 1}
  /\ now = Start /\ stage = "baseline" /\ tries = 1 /\ attempt = 1 /\ round = 1
  /\ deadline = Start /\ baseline = NoBaseline
  /\ requestedAt = Start /\ resentAt = {}
  /\ ordered = {} /\ again = {} /\ orderLost = FALSE
  /\ before = 0 /\ entered = <<>>

(* The mailbox: a mail arrives, up to Lag later than it was sent.          *)
MailArrives ==
  /\ stage # "ended" /\ Len(mails) < MaxMails
  /\ \E codes \in Contents, at \in Stamps((now - Lag) .. now) :
       /\ \A i \in DOMAIN mails : \A t \in at, u \in mails[i].at : u <= t
       /\ mails' = Append(mails, [codes |-> codes, at |-> at])
  /\ UNCHANGED <<box, now, stage, tries, attempt, round, deadline, baseline, requestVars, roundVars, before, entered>>

Tick ==
  /\ IF stage = "polling" THEN now < deadline ELSE stage # "ended" /\ now < IdleUntil
  /\ now' = now + 1
  /\ UNCHANGED <<mailboxVars, stage, tries, attempt, round, deadline, baseline, requestVars, roundVars, before, entered>>

(* establishBaseline: up to three tries, a passing failure is waited out.  *)
BaselineTaken ==
  /\ stage = "baseline" /\ stage' = "email" /\ tries' = 1
  /\ \E list \in Listings :
       /\ baseline' = createMailBaseline(list)
       /\ before' = IF list = <<>> THEN 0 ELSE Len(mails)
  /\ UNCHANGED <<mailboxVars, now, attempt, round, deadline, requestVars, roundVars, entered>>
BaselineRetriedForEver ==     \* mutant: the attempts are not counted
  /\ stage = "baseline" /\ Answered("retry") /\ tries' = tries /\ stage' = "pausing"
  /\ UNCHANGED <<mailboxVars, now, attempt, round, deadline, baseline, requestVars, roundVars, before, entered>>
BaselineRetried ==
  /\ stage = "baseline" /\ Answered("retry") /\ tries < BaselineAttempts
  /\ tries' = tries + 1 /\ stage' = "pausing"
  /\ UNCHANGED <<mailboxVars, now, attempt, round, deadline, baseline, requestVars, roundVars, before, entered>>
BaselineResumed ==
  /\ stage = "pausing" /\ stage' = "baseline"
  /\ UNCHANGED <<mailboxVars, now, tries, attempt, round, deadline, baseline, requestVars, roundVars, before, entered>>
(* What the task remembered goes with it. *)
End ==
  /\ stage' = "ended" /\ tries' = 1 /\ attempt' = 1 /\ round' = 1 /\ deadline' = Start
  /\ baseline' = NoBaseline /\ requestedAt' = Start /\ resentAt' = {}
  /\ ordered' = {} /\ again' = {} /\ orderLost' = FALSE
  /\ UNCHANGED <<mailboxVars, now, before, entered>>
BaselineFails ==
  /\ stage = "baseline"
  /\ Answered("fatal") \/ (Answered("retry") /\ tries = BaselineAttempts)
  /\ End

(* A round of waitForOtp begins; what the last one remembered is gone.     *)
RoundBegins(k) ==
  /\ stage' = "polling" /\ round' = k /\ deadline' = now + RoundTicks
  /\ ordered' = {} /\ again' = {} /\ orderLost' = FALSE

(* The address is submitted; what asks for the code marks the time.        *)
EmailSubmitted ==
  /\ stage = "email" /\ RoundBegins(1)
  /\ \E marked \in BOOLEAN : requestedAt' = IF marked THEN now ELSE requestedAt
  /\ UNCHANGED <<mailboxVars, now, tries, attempt, baseline, resentAt, before, entered>>

CodeFound(code, from) ==
  /\ stage' = "entered" /\ deadline' = Start /\ baseline' = [baseline EXCEPT !.otpCodes = @ \cup code]
  /\ entered' = Append(entered, [code |-> code, mails |-> from, round |-> round])
  /\ ordered' = {} /\ again' = {} /\ orderLost' = FALSE

SameCandidate(c, d) == c.identity = d.identity /\ c.code = d.code
(* Head of two polls in one round; a head that changes spoils the round.   *)
Confirmed(selection) ==
  ~orderLost /\ \E c \in selection.ordered, d \in ordered : SameCandidate(c, d)
Remember(selection) ==
  LET changed == \E c \in selection.ordered, d \in ordered : ~SameCandidate(c, d)
  IN /\ ordered' = IF ordered = {} /\ ~orderLost THEN selection.ordered ELSE ordered
     /\ orderLost' = (orderLost \/ changed)

(* After a resend the head of an ordered listing counts although it is     *)
(* known: at once when it is no older than the resend, without a time when *)
(* two polls agree; but no code counts twice.                              *)
NewestInEveryRound(list) ==     \* mutant: the option is passed in the first round too
  IF resentAt = {} THEN {} ELSE extractNewestOrderedOtp(list, box.newestFirst)
NewestAfterResend(list) ==
  IF round = 1 \/ resentAt = {} THEN {} ELSE extractNewestOrderedOtp(list, box.newestFirst)
Timely(c) == \E t \in c.at, r \in resentAt : t >= r
Repeated(c) == c.at = {} /\ \E d \in again : SameCandidate(c, d)
UsedOrNot(c) == c.code # {}     \* mutant: the codes handed out are not looked at
Unused(c) == c.code \cap baseline.otpCodes = {}
AcceptedAfterResend(list) ==
  {c \in NewestAfterResend(list) : Unused(c) /\ (Timely(c) \/ Repeated(c))}

Polls(list) ==
  LET selection == extractUniqueOtp(list, baseline, requestedAt, box.newestFirst)
      accepted == AcceptedAfterResend(list)
      untimed == {c \in NewestAfterResend(list) : c.at = {}}
  IN IF selection.code # {} THEN CodeFound(selection.code, selection.mails)
     ELSE IF Confirmed(selection)
     THEN \E c \in selection.ordered : CodeFound(c.code, c.mails)
     ELSE IF accepted # {} THEN \E c \in accepted : CodeFound(c.code, c.mails)
     ELSE /\ Remember(selection) /\ again' = (IF untimed # {} THEN untimed ELSE again)
          /\ UNCHANGED <<stage, deadline, baseline, entered>>
Poll ==
  /\ stage = "polling" /\ now < deadline
  /\ \E list \in Listings : Polls(list)
  /\ UNCHANGED <<mailboxVars, now, tries, attempt, round, requestVars, before>>
PollFails == stage = "polling" /\ now < deadline /\ Answered("fatal") /\ End

(* The deadline ends the loop, and a request in flight with it.            *)
RoundOver ==
  /\ stage = "polling" /\ now >= deadline
  /\ stage' = IF round = RoundLimit THEN "waiting" ELSE "resending"
  /\ deadline' = Start /\ ordered' = {} /\ again' = {} /\ orderLost' = FALSE
  /\ UNCHANGED <<mailboxVars, now, tries, attempt, round, baseline, requestVars, before, entered>>

(* resendOtp: the code page is still there, and the next round begins; the *)
(* time is marked when the control was pressed.                            *)
Resent ==
  /\ stage = "resending" /\ RoundBegins(round + 1)
  /\ \E marked \in BOOLEAN : resentAt' = IF marked THEN {now} ELSE resentAt
  /\ UNCHANGED <<mailboxVars, now, tries, attempt, baseline, requestedAt, before, entered>>
(* Or the page has moved on, or needs a person; or the code was entered:   *)
(* the task waits for the callback.                                        *)
PageMovedOn ==
  /\ stage \in {"email", "resending", "entered"} /\ stage' = "waiting" /\ round' = 1
  /\ UNCHANGED <<mailboxVars, now, tries, attempt, deadline, baseline, requestVars, roundVars, before, entered>>

(* A deactivated account is confirmed by another attempt of the same task: *)
(* baseline and marks stay as they are.                                    *)
NextAttempt ==
  /\ stage = "waiting" /\ attempt < AttemptLimit
  /\ attempt' = attempt + 1 /\ stage' = "email" /\ round' = 1
  /\ UNCHANGED <<mailboxVars, now, tries, deadline, baseline, requestVars, roundVars, before, entered>>
(* Success, failure or cancellation. *)
TaskLeaves == stage # "ended" /\ End

BaselineSteps == BaselineTaken \/ BaselineRetried \/ BaselineResumed \/ BaselineFails
Next ==
  \/ MailArrives \/ Tick \/ BaselineTaken \/ BaselineRetried \/ BaselineResumed \/ BaselineFails
  \/ EmailSubmitted
  \/ Poll \/ PollFails \/ RoundOver \/ Resent \/ PageMovedOn \/ NextAttempt \/ TaskLeaves
Spec == Init /\ [][Next]_vars
(* Time passes, requests are answered or time out, the page is worked on.  *)
FairSpec ==
  /\ Spec /\ WF_vars(stage = "polling" /\ Tick) /\ WF_vars(BaselineSteps) /\ WF_vars(RoundOver)
  /\ WF_vars(stage = "resending" /\ (Resent \/ PageMovedOn))

----------------------------------------------------------------------------
(* No code is handed out twice in a task, whatever the attempt and the     *)
(* round, and whether it was found by time, by order or after a resend     *)
(* (poller.ts:140): an OpenAI resend often carries the same code again.    *)
NoCodeTwice == \A i, j \in DOMAIN entered : i < j => entered[i].code \cap entered[j].code = {}

(* The first round never enters a code from a mail that stood in the       *)
(* mailbox when the baseline was taken ("第一轮邮箱轮询仍严格排除任务基线中 *)
(* 已经存在的邮件", DOC.md:404).                                             *)
FirstRoundIsStrict ==
  \A i \in DOMAIN entered : entered[i].round = 1 => \A m \in entered[i].mails : m > before
(* The same for a listing that shows every mail by itself, with an id of   *)
(* its own or without one.  It does not hold of mails that are numbered by *)
(* their place (OldMail.cfg), of a mail whose id is the time at which the  *)
(* service looked (aisvip: each poll brings another), and of a page read   *)
(* as one message, which is another one as soon as a mail arrives.         *)
TellsApart == box.ids \in {"given", "none"}
BaselineStaysOut == TellsApart => FirstRoundIsStrict

(* Whatever the rounds, resends and attempts, no code is entered from a    *)
(* mailbox that link or answer said is another's, and a code that was      *)
(* entered from a mail with a time was sent after the task began, up to    *)
(* the clock skew.  A page read as one message has one time for all.       *)
CodesAreOfThisTask ==
  /\ box.wrong => entered = <<>>
  /\ \A i \in DOMAIN entered : \A m \in entered[i].mails :
       box.times /\ box.ids # "whole" => \A t \in mails[m].at : t + Skew >= Start

(* The baseline is taken or the task ends, and a round that began ends in  *)
(* a code, in the wait for the callback or with the task.                  *)
OtpWaitEnds ==
  /\ stage = "baseline" ~> stage \in {"email", "ended"}
  /\ stage = "polling" ~> stage \in {"entered", "waiting", "ended"}
=============================================================================
