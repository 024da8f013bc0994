------------------------------- MODULE Portal -------------------------------
(***************************************************************************)
(* The account pool as a web page (portal.ts): connecting to an origin,    *)
(* checking the login at start, disconnecting, and reading an account's    *)
(* materials for a task, an inspection or the audit.  Every read goes      *)
(* through the browser session, which opens its page again when there is   *)
(* none; the secrets of a record are read side by side, and when one is    *)
(* refused the call ends while its other reads go on.                      *)
(***************************************************************************)
EXTENDS PoolBrowser, FiniteSets

CONSTANTS
  Readers,        \* the callers that are reads of one secret, for a call
  Operations,     \* the operations each other caller may call
  Targets,        \* the origins that are connected to
  RetryDelays,    \* how often a limited request of an operation is repeated
  Reads,          \* pages of records, and batches of an audit
  MaxTogether,    \* calls and reads in flight when a call begins, and those
  MaxBeside       \* beside a call that reads secrets
Checks == {"restore", "resolve", "inspect", "audit"}
ASSUME ReadersAssumption == Readers \subseteq Callers /\ Targets \subseteq Origins
ASSUME OperationsAssumption ==
  Operations \in [Callers \ Readers -> SUBSET (Checks \union {"connect", "disconnect"})]
ASSUME ReadsAssumption ==
  /\ RetryDelays \in [Checks \union {"connect", "read"} -> Nat] /\ Reads \in Nat \ {0}
  /\ MaxTogether \in Nat /\ MaxBeside \in Nat

VARIABLES
  setting,      \* the origin in the database
  origin,       \* #origin
  connected,    \* #connected
  overlapped,   \* of the model: two calls were in flight at once
  crowded       \* of the model: two calls or reads were bound to launch at once
portalVars == <<setting, origin, connected>>
vars == <<browserVars, caller, portalVars, overlapped, crowded>>

(* What a call does one after the other; open alone may show the window.   *)
Pages(what) == [i \in 1 .. Reads |-> what]
Phases(op) ==
  CASE op \in {"connect", "restore"} -> <<"open", "config", "me">>
    [] op = "inspect" -> <<"open", "me">> \o Pages("records") \o <<"secret">>
    [] op = "resolve" -> <<"open", "me">> \o Pages("records") \o <<"secrets">>
    [] op = "audit" -> <<"open", "me">> \o Pages("records") \o Pages("secrets")
    [] op = "read" -> <<"secret">>
    [] op = "disconnect" -> <<"close">>
Call(op, o, fg, first) ==
  [op |-> op, pc |-> IF op = "disconnect" THEN "close" ELSE "open", phase |-> first,
   target |-> o, previous |-> IF op = "connect" THEN origin ELSE NoOrigin,
   foreground |-> fg, k |-> 0, tries |-> 0, reads |-> {}]
Phase(c) == Phases(caller[c].op)[caller[c].phase]
Last(c) == caller[c].phase = Len(Phases(caller[c].op))

PortalInit ==
  /\ PoolBrowserInit
  /\ setting \in Origins \union {NoOrigin} /\ origin = setting
  /\ connected = FALSE /\ overlapped = FALSE /\ crowded = FALSE

Calls == Callers \ Readers
InFlight == {c \in Callers : ~At(c, "idle")}
MayCall(c, op) ==
  c \in Calls /\ At(c, "idle") /\ op \in Operations[c] /\ Cardinality(InFlight) < MaxTogether
Begin(c, call) ==
  /\ MayCall(c, call.op) /\ caller' = [caller EXCEPT ![c] = call]
  /\ overlapped' = (overlapped \/ \E d \in Calls : ~At(d, "idle"))
End(c) == caller' = [caller EXCEPT ![c] = NoCall]
ConnectBegins(c, o, fg) ==
  /\ Begin(c, Call("connect", o, fg, 1))
  /\ UNCHANGED <<browserVars, setting, origin, connected>>
(* reuseOnly: no window is opened for a recheck. *)
RecheckBegins(c, o) ==
  /\ UNCHANGED <<browserVars, setting, origin>>
  /\ IF ActiveOrigin = o
       THEN Begin(c, Call("connect", o, FALSE, 2)) /\ UNCHANGED connected
       ELSE MayCall(c, "connect") /\ connected' = FALSE /\ UNCHANGED <<caller, overlapped>>
OtherBegins(c, op) ==
  /\ op = "disconnect" \/ origin # NoOrigin
  /\ Begin(c, Call(op, origin, FALSE, 1))
  /\ UNCHANGED <<browserVars, portalVars>>

OpenDone(c) ==
  /\ PageOpen(c) /\ Phase(c) = "open"
  /\ caller' = [caller EXCEPT ![c].pc = "open", ![c].phase = @ + 1, ![c].foreground = FALSE]
  /\ UNCHANGED <<browserVars, portalVars>>
RequestSent(c) == Phase(c) # "open" /\ Send(c) /\ UNCHANGED portalVars

(* The secrets of a record, or of a batch of records, are read at once.    *)
IdleReaders == {r \in Readers : At(r, "idle")}
SecretsAsked(c) ==
  /\ At(c, "secrets") /\ UNCHANGED <<browserVars, portalVars>>
  /\ \E asked \in SUBSET IdleReaders :
       /\ asked = {} \/ Cardinality(InFlight \ {c}) =< MaxBeside
       /\ caller' = [d \in Callers |->
              IF d \in asked THEN Call("read", caller[c].target, FALSE, 1)
              ELSE IF d = c THEN [caller[c] EXCEPT !.pc = "reading", !.reads = asked]
              ELSE caller[d]]
(* A read that ends: the audit counts one that failed, a task's call fails *)
(* with it, and a read whose call is over tells nobody.                    *)
SecretEnds(r, failed) ==
  /\ caller[r].op = "read" /\ UNCHANGED portalVars
  /\ caller' = [d \in Callers |->
       IF d = r THEN NoCall
       ELSE IF ~(At(d, "reading") /\ r \in caller[d].reads) THEN caller[d]
       ELSE IF failed /\ caller[d].op = "resolve"
         THEN [caller[d] EXCEPT !.pc = "unread", !.reads = {}]
       ELSE [caller[d] EXCEPT !.reads = @ \ {r}]]

(* A configuration that answers makes this the pool; the login is checked  *)
(* afterwards.                                                             *)
NextPhase(c) ==
  LET place == IF Phases(caller[c].op)[caller[c].phase + 1] = "secrets" THEN "secrets" ELSE "open"
  IN caller' = [caller EXCEPT ![c].pc = place, ![c].phase = @ + 1, ![c].tries = 0, ![c].k = 0]
PhaseDone(c) ==
  /\ caller[c].op # "read"
  /\ IF caller[c].op = "connect" /\ Phase(c) = "config"
       THEN setting' = caller[c].target /\ origin' = caller[c].target
       ELSE UNCHANGED <<setting, origin>>
  /\ IF Last(c)
       THEN End(c) /\ connected' = (connected \/ caller[c].op \notin {"inspect", "audit"})
       ELSE NextPhase(c) /\ UNCHANGED connected
RequestDone(c) == PhaseDone(c) \/ SecretEnds(c, FALSE)

(* A limited request is repeated, each time through open.                  *)
Repeat(c) ==
  /\ caller' = [caller EXCEPT ![c].pc = "open", ![c].tries = @ + 1, ![c].k = 0]
  /\ UNCHANGED portalVars

(* connect puts the former origin back unless the new one has been saved;  *)
(* a page that waits for its login is no failure of it.                    *)
WaitsForLogin(c, why) == Phase(c) = "me" /\ why \in {"refused", "not_ready", "browser_closed"}
ConnectFailsKept(c, why) ==    \* as ConnectFails would be if it kept the new origin
  /\ caller[c].op = "connect" /\ connected' = FALSE /\ End(c) /\ UNCHANGED setting
  /\ origin' = caller[c].target
ConnectFails(c, why) ==
  /\ caller[c].op = "connect" /\ connected' = FALSE /\ End(c)
  /\ IF origin = caller[c].target \/ WaitsForLogin(c, why) THEN UNCHANGED <<setting, origin>>
     ELSE setting' = caller[c].previous /\ origin' = caller[c].previous
(* An inspection and the audit say nothing of the connection. *)
ReadFails(c) ==
  /\ caller[c].op \notin {"connect", "read"}
  /\ connected' = (connected /\ caller[c].op \in {"inspect", "audit"})
  /\ End(c) /\ UNCHANGED <<setting, origin>>
Fails(c, why) == ConnectFails(c, why) \/ ReadFails(c) \/ SecretEnds(c, TRUE)
(* All secrets are read, or the first is refused, or none holds anything.  *)
SecretsOver(c) ==
  /\ UNCHANGED browserVars
  /\ \/ At(c, "reading") /\ caller[c].reads = {} /\ PhaseDone(c)
     \/ At(c, "unread") /\ ReadFails(c)
     \/ /\ At(c, "reading") /\ caller[c].reads = {} /\ caller[c].op = "resolve"
        /\ ReadFails(c)

RequestNotSent(c) ==
  /\ PageOpen(c) /\ Phase(c) # "open" /\ UNCHANGED browserVars
  /\ \E why \in SendFailures : Fails(c, why)
RequestAnswered(c) ==
  /\ At(c, "sent") /\ UNCHANGED browserVars
  /\ \E answer \in Answers(c) :
       CASE answer = "ok" -> RequestDone(c)
         [] answer = "limited" /\ caller[c].tries < RetryDelays[caller[c].op] -> Repeat(c)
         [] OTHER -> Fails(c, answer)
LaunchFailed(c) == LaunchFails(c) /\ Fails(c, "failed")

(* disconnect: the browser is closed, then the address is forgotten.       *)
DisconnectPersists(c) ==    \* as DisconnectCloses would be if it waited for every launch
  /\ caller[c].pc \in {"close", "close_waits"} /\ Settled(c)
  /\ Close(c, "close_waits", "leaving") /\ UNCHANGED portalVars
DisconnectCloses(c) ==
  /\ \/ At(c, "close") /\ Close(c, "close_waits", "leaving")
     \/ At(c, "close_waits") /\ Settled(c) /\ CloseNow(c, "leaving")
  /\ UNCHANGED portalVars
Disconnected(c) ==
  /\ At(c, "leaving") /\ Closed(c)
  /\ setting' = NoOrigin /\ origin' = NoOrigin /\ connected' = FALSE
  /\ End(c) /\ UNCHANGED browserVars
-----------------------------------------------------------------------------
(* A call or read that will launch, whatever it finds in the session. *)
BoundToLaunch == {c \in Callers : caller[c].pc \in {"held_closes", "launch"}}
Crowd == \E c, d \in BoundToLaunch : c # d

CallGoesOn(c) ==
  /\ ~At(c, "idle") /\ UNCHANGED overlapped
  /\ \/ BrowserStep(c) /\ UNCHANGED portalVars
     \/ OpenDone(c) \/ RequestSent(c) \/ RequestNotSent(c) \/ RequestAnswered(c)
     \/ LaunchFailed(c) \/ SecretsAsked(c) \/ SecretsOver(c)
     \/ DisconnectCloses(c) \/ Disconnected(c)
  /\ crowded' = (crowded \/ Crowd')
Begins(c) ==
  /\ \/ \E o \in Targets : RecheckBegins(c, o) \/ \E fg \in BOOLEAN : ConnectBegins(c, o, fg)
     \/ \E op \in Checks \union {"disconnect"} : OtherBegins(c, op)
  /\ UNCHANGED crowded
Person ==
  /\ PersonClosesTab \/ \E k \in Launches : PersonQuits(k)
  /\ UNCHANGED <<portalVars, overlapped, crowded>>
ChromesEnd ==
  (\E k \in Launches : ChromeEnds(k)) /\ UNCHANGED <<portalVars, overlapped, crowded>>

Next == Person \/ ChromesEnd \/ \E c \in Callers : CallGoesOn(c) \/ Begins(c)
Spec == PortalInit /\ [][Next]_vars
(* Launches, requests and closings have timeouts. *)
FairSpec == Spec /\ WF_vars(ChromesEnd) /\ \A c \in Callers : WF_vars(CallGoesOn(c))
-----------------------------------------------------------------------------
Quiet == \A c \in Callers : At(c, "idle")

(* Calls that do not overlap leave the pool in one piece: what the service *)
(* goes by is what is saved, and it is connected to nothing but that.  And *)
(* unless two of them, or two reads of one, were bound to launch at once,  *)
(* no Chrome runs that a later call could not use or close.                *)
PortalIsWhole ==
  /\ ~overlapped => origin = setting /\ (connected => origin # NoOrigin)
  /\ ~crowded => ChromeIsHeld /\ (Quiet => opening = 0)

(* Every call comes to its end, whichever calls open and close the browser *)
(* around it.                                                              *)
CallsEnd == \A c \in Callers : caller[c].pc # "idle" ~> caller[c].pc = "idle"
=============================================================================
