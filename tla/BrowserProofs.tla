---------------------------- MODULE BrowserProofs ----------------------------
(***************************************************************************)
(* That a Chrome whose process the controller has found is gone once it    *)
(* has been cleaned up after, for every page the provider shows, every     *)
(* number of tabs and every moment at which the person quits, the task is  *)
(* aborted or start fails.                                                 *)
(***************************************************************************)
EXTENDS BrowserPages, TLAPS

(* What start has made so far: nothing before the profile, no process      *)
(* before the launch, and a process id for a Chrome that has come up.      *)
StartInv ==
  /\ start = "idle" => ~profile
  /\ start \in {"idle", "profile"} => chrome = "none"
  /\ start \in {"idle", "profile", "waiting", "found"} => ~known
  /\ known => chrome \in {"up", "gone"}

(* Closing begins where start has ended and goes through its steps; a      *)
(* known Chrome is gone from the last of them that ends a process.         *)
ClosingInv ==
  /\ closing # "no" => start \in {"open", "failed"}
  /\ closing \in {"killed", "profile", "done"} => (known => chrome = "gone")
  /\ closing = "done" => ~profile

Types ==
  /\ known \in BOOLEAN /\ profile \in BOOLEAN /\ route \in {"native", "playwright"}
  /\ closing \in {"no", "asked", "terminated", "killed", "profile", "done"}

IInv == Types /\ StartInv /\ ClosingInv

(* Nothing has been started at first. *)
LEMMA Initially == PagesInit => IInv
  BY DEF PagesInit, ChromeInit, IInv, Types, StartInv, ClosingInv

(* The steps of start, and those of closing.                               *)
LEMMA StartKeeps == IInv /\ Start => IInv'
<1> SUFFICES ASSUME IInv, Start PROVE IInv'
  OBVIOUS
<1> USE DEF IInv, Types, StartInv, ClosingInv, FailStart, FailBefore, GoOn, processVars
<1>1. CASE Begin
  <2>1. CASE \E why \in {"contract", "proxy_failed"} : FailBefore(why) BY <1>1, <2>1 DEF Begin
  <2>2. CASE /\ start' = "profile" /\ profile' = TRUE /\ closing' = closing
             /\ route' = route /\ chrome' = chrome /\ known' = known
    <3>1. closing = "no" /\ chrome = "none" /\ ~known BY <1>1 DEF Begin
    <3> QED BY <2>2, <3>1
  <2> QED BY <1>1, <2>1, <2>2 DEF Begin
<1>2. CASE LaunchNative BY <1>2 DEF LaunchNative
<1>3. CASE LaunchPlaywright
  <2>1. CASE FailStart("start_failed") BY <1>3, <2>1 DEF LaunchPlaywright
  <2>2. CASE /\ start' = "context" /\ profile' = profile /\ closing' = closing
             /\ route' = route /\ chrome' = "up" /\ known' = TRUE
    <3>1. closing = "no" BY <1>3 DEF LaunchPlaywright
    <3> QED BY <2>2, <3>1
  <2> QED BY <1>3, <2>1, <2>2 DEF LaunchPlaywright
<1>4. CASE WaitForEndpoint BY <1>4 DEF WaitForEndpoint
<1>5. CASE ResolveProcess BY <1>5 DEF ResolveProcess
<1>6. CASE Connect BY <1>6 DEF Connect
<1>7. CASE Navigate
  <2>1. /\ UNCHANGED <<route, chrome, known, profile>>
        /\ \/ start' = "failed" /\ closing' = "asked"
           \/ start' = "open" /\ closing' = closing
    BY <1>7 DEF Navigate
  <2> QED BY <1>7, <2>1 DEF Navigate
<1> QED BY <1>1, <1>2, <1>3, <1>4, <1>5, <1>6, <1>7 DEF Start

(* A Chrome that is told to end is waited for, or has gone already.        *)
LEMMA ClosingKeeps ==
  IInv /\ (CloseSession \/ Terminate \/ Kill \/ RemoveProfile) => IInv'
<1> SUFFICES ASSUME IInv, CloseSession \/ Terminate \/ Kill \/ RemoveProfile PROVE IInv'
  OBVIOUS
<1> USE DEF IInv, Types, StartInv, ClosingInv, startVars, processVars
<1>1. CASE CloseSession BY <1>1 DEF CloseSession
<1>2. CASE Terminate
  <2>1. /\ route' = route /\ start' = start /\ known' = known /\ profile' = profile
        /\ closing = "asked" /\ closing' \in {"terminated", "profile"}
        /\ chrome' \in {chrome, "gone"}
    BY <1>2 DEF Terminate
  <2>2. ~known => chrome' = chrome BY <1>2 DEF Terminate
  <2>3. known /\ closing' = "profile" => chrome' = "gone" BY <1>2 DEF Terminate
  <2> QED BY <2>1, <2>2, <2>3
<1>3. CASE Kill BY <1>3 DEF Kill
<1>4. CASE RemoveProfile BY <1>4 DEF RemoveProfile
<1> QED BY <1>1, <1>2, <1>3, <1>4

(* What happens to Chrome by itself or by the person's hand, and an abort. *)
LEMMA WorldKeeps == IInv /\ (ChromeComesUp \/ ChromeQuits \/ Abort) => IInv'
  BY DEF IInv, Types, StartInv, ClosingInv, startVars, processVars, ChromeComesUp, ChromeQuits, Abort

(* A page action starts no process and closes none. *)
processUnchanged == UNCHANGED <<route, start, chrome, known, profile, closing>>
LEMMA PagesApart ==
  ASSUME BeginAny \/ Submit \/ Resend \/ ClassifyCurrentPage \/ ManualPoll \/ WaitForCallback
         \/ Deadline \/ Trouble \/ Person
  PROVE  processUnchanged
<1> USE DEF processUnchanged, only, chromeVars, startVars, processVars
<1>1. CASE BeginAny BY <1>1 DEF BeginAny, BeginCall
<1>2. CASE Submit
  BY <1>2 DEF Submit, Look, Fill, Click, Watch, Choose, AfterFill, AfterTotp, AfterConsent, Recover
<1>3. CASE Resend BY <1>3 DEF Resend, ResendBudget, ResendLooks, ResendClicks, ResendRecovers
<1>4. CASE ClassifyCurrentPage \/ ManualPoll \/ WaitForCallback
  BY <1>4 DEF ClassifyCurrentPage, ManualPoll, WaitForCallback
<1>5. CASE Deadline
  BY <1>5 DEF Deadline, LookTimesOut, WatchTimesOut, ResendTimesOut, ClassifyTimesOut
<1>6. CASE Trouble
  BY <1>6 DEF Trouble, RecoverReadFails, ReadFails, ClickFails, ResendReadFails, WaitReadFails
<1>7. CASE Person
  BY <1>7 DEF Person, changes, PageChanges, Navigates, PersonClicks, InspectNavigation
<1> QED BY <1>1, <1>2, <1>3, <1>4, <1>5, <1>6, <1>7

(* The invariant is inductive. *)
LEMMA Inductive == IInv /\ [Next]_vars => IInv'
<1> SUFFICES ASSUME IInv, [Next]_vars PROVE IInv'
  OBVIOUS
<1>1. CASE Start BY <1>1, StartKeeps
<1>2. CASE CloseSession \/ Terminate \/ Kill \/ RemoveProfile BY <1>2, ClosingKeeps
<1>3. CASE ChromeComesUp \/ ChromeQuits \/ Abort BY <1>3, WorldKeeps
<1>4. CASE processUnchanged
  BY <1>4 DEF processUnchanged, IInv, Types, StartInv, ClosingInv
<1>5. CASE UNCHANGED vars
  BY <1>4, <1>5 DEF processUnchanged, vars, chromeVars, startVars, processVars
<1> QED BY <1>1, <1>2, <1>3, <1>4, <1>5, PagesApart DEF Next

(* README.md: a Chrome whose process the controller has found does not     *)
(* outlive a failed start or a closed session, and neither does a profile. *)
THEOREM ChromeIsClosed == Spec => []KnownChromeIsClosed
<1>1. IInv => KnownChromeIsClosed
  BY DEF IInv, ClosingInv, KnownChromeIsClosed, Cleaned
<1> QED BY <1>1, Initially, Inductive, PTL DEF Spec
=============================================================================
