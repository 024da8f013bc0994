---------------------------- MODULE PoolBrowser ----------------------------
(***************************************************************************)
(* The dedicated Chrome of the account pool (browser-session.ts): one      *)
(* profile, opened and closed by whoever needs a page of the pool.  A      *)
(* caller runs open and request step by step; a step ends at an await.     *)
(* A launch stands for the context it returns; its number is used again    *)
(* once its Chrome is gone and nobody waits for it.                        *)
(***************************************************************************)
EXTENDS Naturals, Sequences

CONSTANTS
  Origins, NoOrigin,
  Callers,          \* calls that may be in flight together
  MaxLaunches       \* numbers for launches: one more than callers is enough
ASSUME OriginsAssumption == NoOrigin \notin Origins /\ MaxLaunches \in Nat \ {0}

VARIABLES
  held, tab,                  \* #context, 0 for null, and whether #page is open
  browserOrigin, headless,    \* #origin and #headless
  opening,                    \* #opening
  chromes,                    \* the process of each launch
  caller                      \* the calls in flight
browserVars == <<held, tab, browserOrigin, headless, opening, chromes>>

Launches == 1 .. MaxLaunches
NoCall == [pc |-> "idle"]
PoolBrowserInit ==
  /\ held = 0 /\ tab = FALSE /\ browserOrigin = NoOrigin /\ headless = FALSE /\ opening = 0
  /\ chromes = [k \in Launches |-> "gone"]
  /\ caller = [c \in Callers |-> NoCall]

At(c, pc) == caller[c].pc = pc
Go(c, pc) == caller' = [caller EXCEPT ![c].pc = pc, ![c].k = 0]
Wait(c, pc, k) == caller' = [caller EXCEPT ![c].pc = pc, ![c].k = k]
ActiveOrigin == IF held # 0 /\ tab THEN browserOrigin ELSE NoOrigin
Reusable(c) == ActiveOrigin = caller[c].target
(* A page without a window does not do for a call in the foreground. *)
Replaced(c) == caller[c].foreground /\ headless

Forget ==
  /\ held' = 0 /\ tab' = FALSE /\ browserOrigin' = NoOrigin /\ headless' = FALSE

(* close: a launch under way first comes to its end, once.                 *)
CloseNow(c, after) ==
  /\ Wait(c, after, held) /\ Forget /\ UNCHANGED opening
  /\ chromes' = IF held = 0 THEN chromes ELSE [chromes EXCEPT ![held] = "closing"]
Close(c, before, after) ==
  IF opening # 0 THEN Wait(c, before, opening) /\ UNCHANGED browserVars
  ELSE CloseNow(c, after)
Settled(c) == ~\E i \in Launches : i = caller[c].k /\ chromes[i] = "launching"
Closed(c) == ~\E i \in Launches : i = caller[c].k /\ chromes[i] = "closing"

Unused(c) ==
  {k \in Launches : chromes[k] = "gone" /\ \A d \in Callers \ {c} : At(d, "idle") \/ caller[d].k # k}
Launch(c) ==
  \E k \in Unused(c) :
    /\ \A i \in 1 .. (k - 1) : i \notin Unused(c)
    /\ opening' = k /\ chromes' = [chromes EXCEPT ![k] = "launching"]
    /\ Wait(c, "launch", k) /\ UNCHANGED <<held, tab, browserOrigin, headless>>
CloseThenLaunch(c) == IF held # 0 THEN Close(c, "held_waits", "held_closes") ELSE Launch(c)
WaitOrLaunch(c) ==
  IF opening # 0 THEN Wait(c, "open_waits", opening) /\ UNCHANGED browserVars
  ELSE CloseThenLaunch(c)

(* open, by whether there is a page to use: with one it returns at once.   *)
PageOpen(c) == At(c, "opened") \/ (At(c, "open") /\ Reusable(c) /\ ~Replaced(c))
OpenReplaces(c) ==
  /\ At(c, "open") /\ Reusable(c) /\ Replaced(c) /\ Close(c, "shown_waits", "shown_closes")
OpenNew(c) == At(c, "open") /\ ~Reusable(c) /\ WaitOrLaunch(c)
ShownCloses(c) ==
  \/ At(c, "shown_waits") /\ Settled(c) /\ CloseNow(c, "shown_closes")
  \/ At(c, "shown_closes") /\ Closed(c) /\ WaitOrLaunch(c)
OpenedMeanwhile(c) ==
  /\ At(c, "open_waits") /\ Settled(c)
  /\ IF Reusable(c) /\ ~Replaced(c) THEN Go(c, "opened") /\ UNCHANGED browserVars
     ELSE IF Reusable(c) THEN Close(c, "held_waits", "held_closes")
     ELSE CloseThenLaunch(c)
HeldCloses(c) ==
  \/ At(c, "held_waits") /\ Settled(c) /\ CloseNow(c, "held_closes")
  \/ At(c, "held_closes") /\ Closed(c) /\ Launch(c)

(* A profile is used by one Chrome at a time: a second one does not start. *)
Free(k) == \A n \in Launches \ {k} : chromes[n] \notin {"up", "closing"}
LaunchSucceeds(c) ==
  /\ At(c, "launch") /\ Free(caller[c].k)
  /\ held' = caller[c].k /\ tab' = TRUE /\ browserOrigin' = caller[c].target
  /\ headless' = ~caller[c].foreground /\ opening' = 0
  /\ chromes' = [chromes EXCEPT ![caller[c].k] = "up"]
  /\ Go(c, "opened")
(* A failing launch clears the session's fields, whoever set them.         *)
LaunchFails(c) ==
  /\ At(c, "launch")
  /\ Forget /\ opening' = 0 /\ chromes' = [chromes EXCEPT ![caller[c].k] = "gone"]

(* request, once its page is open: the page must show the pool's origin.   *)
SendFailures == IF held # 0 /\ tab THEN {"not_ready"} ELSE {"browser_closed"}
Send(c) ==
  /\ PageOpen(c) /\ held # 0 /\ tab
  /\ Wait(c, "sent", held) /\ UNCHANGED browserVars
Answers(c) ==
  IF caller[c].k = held /\ tab THEN {"ok", "refused", "limited", "failed"} ELSE {"failed"}

(* The end of a closing process, and what the person does to the window.   *)
ChromeEnds(k) ==
  /\ chromes[k] = "closing" /\ chromes' = [chromes EXCEPT ![k] = "gone"]
  /\ UNCHANGED <<held, tab, browserOrigin, headless, opening, caller>>
PersonClosesTab ==
  /\ held # 0 /\ tab /\ tab' = FALSE
  /\ UNCHANGED <<held, browserOrigin, headless, opening, chromes, caller>>
PersonQuits(k) ==
  /\ chromes[k] = "up" /\ chromes' = [chromes EXCEPT ![k] = "gone"]
  /\ IF held = k THEN Forget ELSE UNCHANGED <<held, tab, browserOrigin, headless>>
  /\ UNCHANGED <<opening, caller>>

BrowserStep(c) ==
  \/ OpenReplaces(c) \/ OpenNew(c) \/ ShownCloses(c) \/ OpenedMeanwhile(c)
  \/ HeldCloses(c) \/ LaunchSucceeds(c)

(* No Chrome runs that the session does not hold. *)
ChromeIsHeld ==
  \A k \in Launches : chromes[k] = "up" => held = k
=============================================================================
