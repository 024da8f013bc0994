--------------------------- MODULE BrowserChrome ---------------------------
(***************************************************************************)
(* Starting and closing the Chrome of one task: startWithNativeChrome and  *)
(* startWithPlaywright of the controller, and close of the session.  The   *)
(* native Chrome is launched by `open`, whose process is not Chrome: the   *)
(* process id is looked up in the process list, which may fail, once the   *)
(* debug port answers.                                                     *)
(***************************************************************************)
EXTENDS Naturals

VARIABLES
  route,      \* "native" or "playwright", by the proxy's credentials
  start,      \* how far start has come
  chrome,     \* the browser's process
  launcher,   \* the `open` process
  known,      \* nativeChrome.processId is set
  profile,    \* the user data directory exists
  aborted,    \* the task's signal
  failure,    \* what start threw
  closing,    \* how far closing has come
  callback    \* #callbackSettled and what it settled to

startVars == <<route, start, failure>>
processVars == <<chrome, launcher, known, profile>>
chromeVars == <<startVars, processVars, aborted, closing, callback>>

Failures == {"none", "cancelled", "contract", "start_failed", "proxy_failed",
             "navigation_failed", "mismatch"}

ChromeInit ==
  /\ route \in {"native", "playwright"}
  /\ start = "idle" /\ failure = "none" /\ aborted = FALSE
  /\ chrome = "none" /\ launcher = "none" /\ known = FALSE /\ profile = FALSE
  /\ closing = "no" /\ callback = "pending"

(* A failing start cleans up first; an abort is what the caller is told.   *)
FailStart(why) ==
  /\ failure' = IF aborted THEN "cancelled" ELSE why
  /\ start' = "failed" /\ closing' = "asked"
  /\ UNCHANGED <<route, processVars, aborted, callback>>
FailBefore(why) ==
  /\ failure' = IF aborted THEN "cancelled" ELSE why
  /\ start' = "failed" /\ closing' = "done"
  /\ UNCHANGED <<route, processVars, aborted, callback>>
GoOn(to) ==
  /\ start' = to
  /\ UNCHANGED <<route, failure, aborted, closing, callback>>

(* mkdtemp, after the checks that need no browser; with Playwright the     *)
(* proxy is probed before it.                                              *)
Begin ==
  /\ start = "idle"
  /\ \/ FailBefore("contract")
     \/ route = "playwright" /\ FailBefore("proxy_failed")
     \/ ~aborted /\ GoOn("profile") /\ profile' = TRUE /\ UNCHANGED <<chrome, launcher, known>>

LaunchNative ==
  /\ start = "profile" /\ route = "native"
  /\ \/ FailStart("start_failed") \/ FailStart("proxy_failed")
     \/ /\ GoOn("waiting") /\ chrome' = "launching" /\ launcher' = "up"
        /\ UNCHANGED <<known, profile>>

(* launchPersistentContext owns the process; an abort is seen once it is   *)
(* up.                                                                     *)
LaunchPlaywright ==
  /\ start = "profile" /\ route = "playwright"
  /\ \/ FailStart("start_failed")
     \/ GoOn("context") /\ chrome' = "up" /\ known' = TRUE /\ UNCHANGED <<launcher, profile>>

WaitForEndpoint ==
  /\ start = "waiting"
  /\ \/ FailStart("start_failed")
     \/ chrome = "up" /\ GoOn("found") /\ UNCHANGED processVars

(* resolveOwnedChromeProcessId; ps may fail or time out.                   *)
ResolveProcess ==
  /\ start = "found" /\ known' \in BOOLEAN /\ (known' => chrome = "up")
  /\ GoOn("context") /\ UNCHANGED <<chrome, launcher, profile>>

(* connectOverCDP, the page and the session object.                        *)
Connect ==
  /\ start = "context"
  /\ \/ FailStart("start_failed")
     \/ ~aborted /\ chrome = "up" /\ GoOn("navigating") /\ UNCHANGED processVars

(* verifyInitialAuthorizationNavigation: the first request must be the     *)
(* authorization URL itself, and a page the proxy refused is no page.      *)
FirstRequests == {"none", "the_url", "another"}
Verdict(request, refusedByProxy) ==
  CASE request = "none" -> IF refusedByProxy THEN "proxy_failed" ELSE "navigation_failed"
    [] request = "another" -> "mismatch"
    [] OTHER -> IF refusedByProxy THEN "proxy_failed" ELSE "none"
Navigate ==
  /\ start = "navigating"
  /\ \E request \in FirstRequests, refusedByProxy \in BOOLEAN :
       LET verdict == Verdict(request, refusedByProxy)
       IN IF verdict # "none" \/ chrome # "up" THEN FailStart(IF verdict = "none" THEN "navigation_failed" ELSE verdict)
          ELSE GoOn("open") /\ UNCHANGED processVars

(* Session.close: the wait for the callback ends, then Chrome is closed.   *)
CloseSession ==
  /\ start = "open" /\ closing = "no"
  /\ closing' = "asked"
  /\ callback' = IF callback = "pending" THEN "closed" ELSE callback
  /\ UNCHANGED <<startVars, processVars, aborted>>

(* closeNativeChrome: CDP is only disconnected; the known process, or else *)
(* the launcher, is told to end.  Playwright's context.close ends Chrome.  *)
Terminate ==
  /\ closing = "asked"
  /\ closing' = IF route = "native" /\ (IF known THEN chrome = "up" ELSE launcher = "up")
                  THEN "terminated" ELSE "profile"
  /\ launcher' = IF known \/ launcher = "none" THEN launcher ELSE "exited"
  /\ chrome' \in IF ~known THEN {chrome}
                 ELSE IF route = "playwright" THEN {"gone"} ELSE {chrome, "gone"}
  /\ UNCHANGED <<startVars, known, profile, aborted, callback>>

(* As Kill would be without the second signal. *)
KillLeftOut ==
  /\ closing = "terminated"
  /\ closing' = "killed"
  /\ UNCHANGED <<startVars, processVars, aborted, callback>>

Kill ==
  /\ closing = "terminated"
  /\ closing' = "killed"
  /\ chrome' = IF known THEN "gone" ELSE chrome
  /\ launcher' = "exited"
  /\ UNCHANGED <<startVars, known, profile, aborted, callback>>

RemoveProfile ==
  /\ closing \in {"killed", "profile"}
  /\ closing' = "done" /\ profile' = FALSE
  /\ UNCHANGED <<startVars, chrome, launcher, known, aborted, callback>>
-----------------------------------------------------------------------------
(* Chrome comes up on its own time, and the person may quit it.            *)
ChromeComesUp ==
  /\ chrome = "launching" /\ chrome' = "up"
  /\ UNCHANGED <<startVars, launcher, known, profile, aborted, closing, callback>>
ChromeQuits ==
  /\ chrome = "up" /\ chrome' = "gone"
  /\ launcher' = IF launcher = "up" THEN "exited" ELSE launcher
  /\ UNCHANGED <<startVars, known, profile, aborted, closing, callback>>
Abort ==
  /\ ~aborted /\ aborted' = TRUE
  /\ UNCHANGED <<startVars, processVars, closing, callback>>

Start ==
  Begin \/ LaunchNative \/ LaunchPlaywright \/ WaitForEndpoint \/ ResolveProcess
  \/ Connect \/ Navigate
-----------------------------------------------------------------------------
Cleaned == closing = "done"

(* README.md: a Chrome whose process the controller has found does not     *)
(* outlive a failed start or a closed session, and neither does a profile. *)
KnownChromeIsClosed == Cleaned => ~profile /\ (known => chrome # "up")
=============================================================================
